--------------------------- MODULE TimelineProofs ---------------------------
(***************************************************************************)
(* Theorems about Timeline, for every video, every depth of the histories, *)
(* batches of any tools and length, and any number of edits.               *)
(*                                                                         *)
(* Ids stay unique for a reason that is stronger than uniqueness: no clip  *)
(* of a list is a piece of another, so that the halves of a split, whose   *)
(* ids extend the clip's by 0 and 1, meet no clip with their id; and after *)
(* n edits no part of an id that a copy made is more than n + 1, so that   *)
(* the next copy, which appends the number of its edit, is new.            *)
(*                                                                         *)
(* Some operators are recursive functions over a list.  What they keep is  *)
(* shown without an induction theorem: a set of naturals has a least       *)
(* element, so what holds at 0 and climbs by 1 holds up to any n (Climb);  *)
(* by that a function with the recursion's equations exists (Iterates),    *)
(* and the definition, which chooses one, has them.                        *)
(***************************************************************************)
EXTENDS Timeline, WellFoundedInduction, SequenceTheorems, FiniteSetTheorems, TLAPS

-----------------------------------------------------------------------------
(***************************************************************************)
(* Recursion over the places of a list.                                    *)
(***************************************************************************)
LEMMA LeastNat ==
  ASSUME NEW S \in SUBSET Nat, S # {}
  PROVE  \E n \in S : \A m \in S : n <= m
<1>. DEFINE R == OpToRel(<, Nat)
<1>0. IsWellFoundedOn(R, Nat)
  BY NatLessThanWellFounded
<1>2. \A m, n \in Nat : <<m, n>> \in R <=> m < n
  BY DEF OpToRel
<1> HIDE DEF R
<1>1. PICK n \in S : \A m \in S : ~ (<<m, n>> \in R)
  BY <1>0, WFMin
<1>3. \A m \in S : n <= m
  <2> TAKE m \in S
  <2>1. n \in Nat /\ m \in Nat
    OBVIOUS
  <2>2. ~(m < n)
    BY <1>1, <1>2, <2>1
  <2>3. QED  BY <2>1, <2>2
<1>4. QED
  BY <1>3

LEMMA Climb ==
  ASSUME NEW n \in Nat, NEW S, 0 \in S, \A k \in 1..n : k - 1 \in S => k \in S
  PROVE  \A k \in 0..n : k \in S
<1> DEFINE Out == {k \in 0..n : k \notin S}
<1>1. SUFFICES ASSUME Out # {} PROVE FALSE
  OBVIOUS
<1>2. PICK least \in Out : \A k \in Out : least <= k
  <2>1. Out \in SUBSET Nat
    OBVIOUS
  <2>2. QED  BY <1>1, <2>1, LeastNat
<1>3. least # 0 /\ least \in 1..n
  OBVIOUS
<1>4. least - 1 \in 0..n /\ least - 1 \notin Out
  BY <1>2, <1>3
<1>5. QED
  BY <1>3, <1>4

\* f is n steps from a base, each a function of its own on V.
Runs(f, n, V, base, step) ==
  /\ f \in [0..n -> V]
  /\ f[0] = base
  /\ \A k \in 1..n : f[k] = step[k][f[k - 1]]

LEMMA Iterates ==
  ASSUME NEW n \in Nat, NEW V, NEW base \in V, NEW step,
         \A k \in 1..n, v \in V : step[k][v] \in V
  PROVE  \E f : Runs(f, n, V, base, step)
<1> DEFINE S == {m \in 0..n : \E f : Runs(f, m, V, base, step)}
<1>1. 0 \in S
  <2> DEFINE f == [k \in 0..0 |-> base]
  <2>1. Runs(f, 0, V, base, step)
    BY DEF Runs
  <2>2. \E h : Runs(h, 0, V, base, step)
    <3> HIDE DEF f
    <3> QED  BY <2>1
  <2> QED  BY <2>2
<1>2. ASSUME NEW m \in 1..n, m - 1 \in S  PROVE m \in S
  <2>1. PICK f : Runs(f, m - 1, V, base, step)
    BY <1>2
  <2> DEFINE g == [k \in 0..m |-> IF k = m THEN step[m][f[m - 1]] ELSE f[k]]
  <2>2. f[m - 1] \in V
    BY <2>1 DEF Runs
  <2>3. g \in [0..m -> V]
    BY <2>1, <2>2 DEF Runs
  <2>4. g[0] = base
    BY <2>1 DEF Runs
  <2>5. ASSUME NEW k \in 1..m  PROVE g[k] = step[k][g[k - 1]]
    BY <2>1 DEF Runs
  <2>6. Runs(g, m, V, base, step)
    BY <2>3, <2>4, <2>5 DEF Runs
  <2>7. \E h : Runs(h, m, V, base, step)
    <3> HIDE DEF g
    <3> QED  BY <2>6
  <2> QED  BY <2>7
<1> HIDE DEF S
<1>3. n \in S
  BY <1>1, <1>2, Climb
<1>4. QED
  BY <1>3 DEF S

LEMMA Carried ==
  ASSUME NEW n \in Nat, NEW V, NEW g, g[0] \in V, \A k \in 1..n : g[k - 1] \in V => g[k] \in V
  PROVE  \A k \in 0..n : g[k] \in V
<1> DEFINE S == {k \in 0..n : g[k] \in V}
<1>1. 0 \in S
  OBVIOUS
<1>2. \A k \in 1..n : k - 1 \in S => k \in S
  OBVIOUS
<1> HIDE DEF S
<1>3. \A k \in 0..n : k \in S
  BY <1>1, <1>2, Climb
<1> QED  BY <1>3 DEF S

\* f computes Kept.
Keeping(f, A, s, places) ==
  /\ f \in [0..Len(s) -> Seq(A)]
  /\ f[0] = <<>>
  /\ \A k \in 1..Len(s) : f[k] = IF k \in places THEN Append(f[k - 1], s[k]) ELSE f[k - 1]
  /\ Kept(s, places) = f[Len(s)]

LEMMA KeptIs ==
  ASSUME NEW A, NEW s \in Seq(A), NEW places
  PROVE  \E f : Keeping(f, A, s, places)
<1> DEFINE kept[k \in 0..Len(s)] == 
        IF k = 0 THEN <<>>
        ELSE IF k \in places THEN Append(kept[k - 1], s[k]) ELSE kept[k - 1]
  step == [k \in 1..Len(s) |-> [v \in Seq(A) |-> IF k \in places THEN Append(v, s[k]) ELSE v]]
<1>1. Kept(s, places) = kept[Len(s)]
  BY DEF Kept
<1> HIDE DEF kept
<1>0. Len(s) \in Nat /\ <<>> \in Seq(A) /\ \A k \in 1..Len(s) : s[k] \in A
  OBVIOUS
<1>2. \A k \in 1..Len(s), v \in Seq(A) :
        step[k][v] = (IF k \in places THEN Append(v, s[k]) ELSE v) /\ step[k][v] \in Seq(A)
  BY <1>0
<1> HIDE DEF step
<1>3. PICK f : Runs(f, Len(s), Seq(A), <<>>, step)
  BY <1>0, <1>2, Iterates
<1>4. /\ f[0] = <<>>
      /\ \A k \in 1..Len(s) : f[k] = IF k \in places THEN Append(f[k - 1], s[k]) ELSE f[k - 1]
      /\ f = [k \in 0..Len(s) |-> f[k]]
  <2>1. f \in [0..Len(s) -> Seq(A)] /\ f[0] = <<>>
    BY <1>3 DEF Runs
  <2>2. ASSUME NEW k \in 1..Len(s)
        PROVE  f[k] = IF k \in places THEN Append(f[k - 1], s[k]) ELSE f[k - 1]
    <3>1. k - 1 \in 0..Len(s)
      BY <1>0
    <3>2. f[k - 1] \in Seq(A)
      BY <2>1, <3>1
    <3>3. f[k] = step[k][f[k - 1]]
      BY <1>3 DEF Runs
    <3> QED  BY <1>2, <3>2, <3>3
  <2> QED  BY <2>1, <2>2
<1>5. f = [k \in 0..Len(s) |-> IF k = 0 THEN <<>>
        ELSE IF k \in places THEN Append(f[k - 1], s[k]) ELSE f[k - 1]]
  <2>1. \A k \in 0..Len(s) : k # 0 => k \in 1..Len(s)
    BY <1>0
  <2> QED  BY <1>4, <2>1
<1>6. kept = [k \in 0..Len(s) |-> IF k = 0 THEN <<>>
        ELSE IF k \in places THEN Append(kept[k - 1], s[k]) ELSE kept[k - 1]]
  BY <1>5 DEF kept
<1>7. kept[0] = <<>>
  BY <1>0, <1>6
<1>8. ASSUME NEW k \in 1..Len(s)
      PROVE  kept[k] = IF k \in places THEN Append(kept[k - 1], s[k]) ELSE kept[k - 1]
  <2>1. k \in 0..Len(s) /\ k # 0
    BY <1>0
  <2> QED  BY <1>6, <2>1
<1>9. \A k \in 0..Len(s) : kept[k] \in Seq(A)
  <2>1. ASSUME NEW k \in 1..Len(s), kept[k - 1] \in Seq(A)  PROVE kept[k] \in Seq(A)
    <3>1. s[k] \in A
      BY <1>0
    <3>2. Append(kept[k - 1], s[k]) \in Seq(A)
      BY <2>1, <3>1
    <3> QED  BY <1>8, <2>1, <3>2
  <2> QED  BY <1>0, <1>7, <2>1, Carried
<1>10. kept \in [0..Len(s) -> Seq(A)]
  BY <1>6, <1>9
<1>11. Keeping(kept, A, s, places)
  BY <1>1, <1>7, <1>8, <1>10 DEF Keeping
<1> QED  BY <1>11

\* What is kept of the first n elements: m says where each was.
Picks(m, kept, s, places, n) ==
  /\ m \in [1..Len(kept) -> 1..n]
  /\ \A i \in 1..Len(kept) : m[i] \in places /\ kept[i] = s[m[i]]
  /\ \A i, j \in 1..Len(kept) : i < j => m[i] < m[j]
  /\ \A k \in 1..n : k \in places => \E i \in 1..Len(kept) : m[i] = k

LEMMA KeptPicks ==
  ASSUME NEW A, NEW s \in Seq(A), NEW places
  PROVE  /\ Kept(s, places) \in Seq(A)
         /\ \E m : Picks(m, Kept(s, places), s, places, Len(s))
<1>0. PICK f : Keeping(f, A, s, places)
  BY KeptIs
<1>1. /\ f \in [0..Len(s) -> Seq(A)]
      /\ f[0] = <<>>
      /\ \A k \in 1..Len(s) : f[k] = IF k \in places THEN Append(f[k - 1], s[k]) ELSE f[k - 1]
      /\ Kept(s, places) = f[Len(s)]
  BY <1>0 DEF Keeping
<1>2. Len(s) \in Nat
  OBVIOUS
<1> DEFINE S == {k \in 0..Len(s) : \E m : Picks(m, f[k], s, places, k)}
<1>3. 0 \in S
  <2> DEFINE none == [i \in 1..0 |-> 1]
  <2>1. Picks(none, <<>>, s, places, 0)
    BY DEF Picks
  <2>2. \E m : Picks(m, <<>>, s, places, 0)
    <3> HIDE DEF none
    <3> QED  BY <2>1
  <2> QED  BY <1>1, <1>2, <2>2
<1>4. ASSUME NEW k \in 1..Len(s), k - 1 \in S  PROVE k \in S
  <2>1. PICK m : Picks(m, f[k - 1], s, places, k - 1)
    BY <1>4
  <2>2. f[k - 1] \in Seq(A) /\ s[k] \in A /\ k \in Int /\ k \in 0..Len(s)
    <3>1. k - 1 \in 0..Len(s) /\ k \in 0..Len(s) /\ k \in Int
      BY <1>2
    <3> QED  BY <1>1, <3>1
  <2>3. CASE k \notin places
    <3>1. f[k] = f[k - 1]
      BY <1>1, <2>3
    <3>2. Picks(m, f[k - 1], s, places, k)
      BY <2>1, <2>2, <2>3 DEF Picks
    <3> QED  BY <2>2, <3>1, <3>2
  <2>4. CASE k \in places
    <3> DEFINE l == Len(f[k - 1])
               more == [i \in 1..(l + 1) |-> IF i = l + 1 THEN k ELSE m[i]]
    <3>0. f[k] = Append(f[k - 1], s[k])
      BY <1>1, <2>2, <2>4
    <3>1. /\ Len(f[k]) = l + 1 /\ l \in Nat
          /\ \A i \in 1..l : f[k][i] = f[k - 1][i]
          /\ f[k][l + 1] = s[k]
      BY <2>2, <3>0, AppendProperties
    <3>2. more \in [1..(l + 1) -> 1..k]
      BY <2>1, <2>2, <3>1 DEF Picks
    <3>3. ASSUME NEW i \in 1..(l + 1)  PROVE more[i] \in places /\ f[k][i] = s[more[i]]
      BY <2>1, <2>4, <3>1 DEF Picks
    <3>4. ASSUME NEW i \in 1..(l + 1), NEW j \in 1..(l + 1), i < j  PROVE more[i] < more[j]
      <4>0. i \in 1..l
        BY <3>1, <3>4
      <4>1. i \in 1..l /\ m[i] \in 1..(k - 1)
        BY <2>1, <4>0 DEF Picks
      <4>2. CASE j = l + 1
        BY <2>2, <4>1, <4>2
      <4>3. CASE j # l + 1
        <5>1. j \in 1..l
          BY <3>1, <4>3
        <5> QED  BY <2>1, <3>1, <3>4, <4>1, <5>1 DEF Picks
      <4> QED  BY <4>2, <4>3
    <3>5. ASSUME NEW p \in 1..k, p \in places  PROVE \E i \in 1..(l + 1) : more[i] = p
      <4>1. CASE p = k
        BY <3>1, <4>1
      <4>2. CASE p # k
        <5>1. p \in 1..(k - 1)
          BY <2>2, <4>2
        <5>2. PICK i \in 1..l : m[i] = p
          BY <2>1, <3>5, <5>1 DEF Picks
        <5>3. more[i] = p /\ i \in 1..(l + 1)
          BY <3>1, <5>2
        <5> QED  BY <5>3
      <4> QED  BY <4>1, <4>2
    <3> HIDE DEF more, l
    <3>6. Picks(more, f[k], s, places, k)
      BY <3>1, <3>2, <3>3, <3>4, <3>5 DEF Picks
    <3> QED  BY <2>2, <3>6
  <2> QED  BY <2>3, <2>4
<1> HIDE DEF S
<1>5. \A k \in 0..Len(s) : k \in S
  BY <1>2, <1>3, <1>4, Climb
<1>6. \E m : Picks(m, f[Len(s)], s, places, Len(s))
  BY <1>2, <1>5 DEF S
<1> QED  BY <1>1, <1>2, <1>6
-----------------------------------------------------------------------------
(***************************************************************************)
(* Clips and lists of clips.                                               *)
(***************************************************************************)
ClipRecord == [id : Seq(Nat), start : Int, end : Int]
ClipsOf(n) ==
  {c \in ClipRecord :
     Len(c.id) >= 2 /\ \A k \in 3..Len(c.id) : c.id[k] <= n + 1}
Apart(cs) == \A i, j \in DOMAIN cs : PieceOf(cs[i].id, cs[j].id) => i = j
Lists(n) == {cs \in Seq(ClipsOf(n)) : Apart(cs)}

LEMMA ListFacts ==
  ASSUME NEW n \in Nat, NEW cs \in Lists(n)
  PROVE  /\ cs \in Seq(ClipsOf(n)) /\ Len(cs) \in Nat /\ DOMAIN cs = 1..Len(cs)
         /\ \A i \in 1..Len(cs) : cs[i] \in ClipsOf(n)
         /\ \A i, j \in 1..Len(cs) : PieceOf(cs[i].id, cs[j].id) => i = j
  BY DEF Lists, Apart

LEMMA ClipFacts ==
  ASSUME NEW n \in Nat, NEW c \in ClipsOf(n)
  PROVE  /\ c \in ClipRecord
         /\ c.id \in Seq(Nat) /\ c.start \in Int /\ c.end \in Int
         /\ Len(c.id) \in Nat /\ Len(c.id) >= 2
         /\ \A k \in 1..Len(c.id) : c.id[k] \in Nat
         /\ \A k \in 3..Len(c.id) : c.id[k] <= n + 1
  BY DEF ClipsOf, ClipRecord

LEMMA SameIsPiece ==
  ASSUME NEW id \in Seq(Nat)  PROVE PieceOf(id, id)
  BY DEF PieceOf

LEMMA NoTwins ==
  ASSUME NEW n \in Nat, NEW cs \in Lists(n), NEW i \in 1..Len(cs), NEW j \in 1..Len(cs),
         cs[i].id = cs[j].id
  PROVE  i = j
<1>1. cs[i].id \in Seq(Nat)
  BY ListFacts, ClipFacts
<1>2. PieceOf(cs[i].id, cs[j].id)
  BY <1>1, SameIsPiece
<1> QED  BY <1>2, ListFacts

LEMMA ListsGrow ==
  ASSUME NEW n \in Nat, NEW k \in Nat, k >= n  PROVE Lists(n) \subseteq Lists(k)
<1>1. ClipsOf(n) \subseteq ClipsOf(k)
  <2> SUFFICES ASSUME NEW c \in ClipsOf(n) PROVE c \in ClipsOf(k)
    OBVIOUS
  <2>1. \A l \in 3..Len(c.id) : c.id[l] <= k + 1
    <3> SUFFICES ASSUME NEW l \in 3..Len(c.id) PROVE c.id[l] <= k + 1
      OBVIOUS
    <3>1. l \in 1..Len(c.id) /\ c.id[l] <= n + 1
      BY ClipFacts
    <3>2. c.id[l] \in Nat
      BY <3>1, ClipFacts
    <3> QED  BY <3>1, <3>2
  <2> QED  BY <2>1, ClipFacts DEF ClipsOf
<1> QED  BY <1>1, SeqMonotonic DEF Lists

\* Clips with the ids of some clips of a list, each taken once.
LEMMA Reindexed ==
  ASSUME NEW n \in Nat, NEW cs \in Lists(n), NEW ds \in Seq(ClipsOf(n)),
         NEW m \in [1..Len(ds) -> 1..Len(cs)],
         \A i \in 1..Len(ds) : ds[i].id = cs[m[i]].id,
         \A i, j \in 1..Len(ds) : m[i] = m[j] => i = j
  PROVE  ds \in Lists(n)
<1>1. Len(ds) \in Nat /\ DOMAIN ds = 1..Len(ds)
  OBVIOUS
<1>2. ASSUME NEW i \in 1..Len(ds), NEW j \in 1..Len(ds), PieceOf(ds[i].id, ds[j].id)
      PROVE  i = j
  <2>1. m[i] \in 1..Len(cs) /\ m[j] \in 1..Len(cs)
    OBVIOUS
  <2>2. PieceOf(cs[m[i]].id, cs[m[j]].id)
    BY <1>2
  <2> QED  BY <2>1, <2>2, ListFacts
<1> QED  BY <1>1, <1>2 DEF Lists, Apart

LEMMA KeptList ==
  ASSUME NEW n \in Nat, NEW cs \in Lists(n), NEW places
  PROVE  Kept(cs, places) \in Lists(n)
<1>1. cs \in Seq(ClipsOf(n)) /\ Len(cs) \in Nat
  BY ListFacts
<1> DEFINE ds == Kept(cs, places)
<1>2. ds \in Seq(ClipsOf(n)) /\ \E m : Picks(m, ds, cs, places, Len(cs))
  BY <1>1, KeptPicks
<1>3. PICK m : Picks(m, ds, cs, places, Len(cs))
  BY <1>2
<1> HIDE DEF ds
<1>4. m \in [1..Len(ds) -> 1..Len(cs)] /\ \A i \in 1..Len(ds) : ds[i].id = cs[m[i]].id
  BY <1>3 DEF Picks
<1>5. ASSUME NEW i \in 1..Len(ds), NEW j \in 1..Len(ds), m[i] = m[j]  PROVE i = j
  <2>1. i \in Int /\ j \in Int /\ m[i] \in Int /\ m[j] \in Int
    BY <1>1, <1>2, <1>4
  <2>2. ~(i < j) /\ ~(j < i)
    BY <1>3, <1>5, <2>1 DEF Picks
  <2> QED  BY <2>1, <2>2
<1>6. ds \in Lists(n)
  BY <1>2, <1>4, <1>5, Reindexed
<1> QED  BY <1>6 DEF ds

LEMMA FindIs ==
  ASSUME NEW n \in Nat, NEW cs \in Lists(n), NEW id
  PROVE  /\ id \in Ids(cs) => Find(cs, id) \in 1..Len(cs) /\ cs[Find(cs, id)].id = id
         /\ id \notin Ids(cs) => Find(cs, id) = 0
<1>1. CASE id \notin Ids(cs)
  BY <1>1 DEF Find
<1>2. CASE id \in Ids(cs)
  <2>1. PICK i \in 1..Len(cs) : cs[i].id = id
    BY <1>2, ListFacts DEF Ids
  <2>2. i \in DOMAIN cs /\ \A j \in 1..(i - 1) : cs[j].id # id
    <3>1. i \in DOMAIN cs /\ i \in Int /\ Len(cs) \in Nat
      BY ListFacts
    <3>2. ASSUME NEW j \in 1..(i - 1), cs[j].id = id  PROVE FALSE
      <4>1. j \in 1..Len(cs) /\ j # i
        BY <3>1
      <4> QED  BY <2>1, <3>2, <4>1, NoTwins
    <3> QED  BY <3>1, <3>2
  <2>3. LET f == CHOOSE k \in DOMAIN cs : cs[k].id = id /\ \A j \in 1..(k - 1) : cs[j].id # id
        IN f \in DOMAIN cs /\ cs[f].id = id
    BY <2>1, <2>2
  <2> QED  BY <1>2, <2>3, ListFacts DEF Find
<1> QED  BY <1>1, <1>2

LEMMA MovedFields ==
  ASSUME NEW c \in ClipRecord, NEW by \in Int
  PROVE  /\ Moved(c, by).id = c.id
         /\ Moved(c, by).start = c.start + by
         /\ Moved(c, by).end = c.end + by
         /\ Moved(c, by) \in ClipRecord
<1>1. Moved(c, by).id = c.id
  BY DEF Moved, ClipRecord
<1>2. Moved(c, by).start = c.start + by
  BY DEF Moved, ClipRecord
<1>3. Moved(c, by).end = c.end + by
  BY DEF Moved, ClipRecord
<1>4. Moved(c, by) \in ClipRecord
  <2> DEFINE d == [c EXCEPT !.start = c.start + by]
  <2>1. d \in ClipRecord
    BY DEF ClipRecord
  <2>2. Moved(c, by) = [d EXCEPT !.end = c.end + by]
    BY DEF Moved
  <2> HIDE DEF d
  <2> QED  BY <2>1, <2>2 DEF ClipRecord
<1> QED  BY <1>1, <1>2, <1>3, <1>4

LEMMA MovedIs ==
  ASSUME NEW n \in Nat, NEW c \in ClipsOf(n), NEW by \in Int
  PROVE  /\ Moved(c, by) \in ClipsOf(n) /\ Moved(c, by).id = c.id
         /\ Moved(c, by).start = c.start + by /\ Moved(c, by).end = c.end + by
<1>1. c \in ClipRecord /\ Len(c.id) >= 2 /\ \A k \in 3..Len(c.id) : c.id[k] <= n + 1
  BY DEF ClipsOf, ClipRecord
<1>2. /\ Moved(c, by).id = c.id /\ Moved(c, by) \in ClipRecord
      /\ Moved(c, by).start = c.start + by /\ Moved(c, by).end = c.end + by
  BY <1>1, MovedFields
<1> QED  BY <1>1, <1>2 DEF ClipsOf, ClipRecord

LEMMA FunctionIsSeq ==
  ASSUME NEW k \in Nat, NEW A, NEW f \in [1..k -> A]
  PROVE  f \in Seq(A) /\ Len(f) = k
  BY SeqDef

LEMMA SameIds ==
  ASSUME NEW n \in Nat, NEW cs \in Lists(n), NEW ds \in [1..Len(cs) -> ClipsOf(n)],
         \A i \in 1..Len(cs) : ds[i].id = cs[i].id
  PROVE  ds \in Lists(n) /\ Len(ds) = Len(cs)
<1>1. Len(cs) \in Nat
  BY ListFacts
<1>2. ds \in Seq(ClipsOf(n)) /\ Len(ds) = Len(cs)
  BY <1>1, FunctionIsSeq
<1> DEFINE m == [i \in 1..Len(ds) |-> i]
<1>3. /\ m \in [1..Len(ds) -> 1..Len(cs)]
      /\ \A i \in 1..Len(ds) : ds[i].id = cs[m[i]].id
      /\ \A i, j \in 1..Len(ds) : m[i] = m[j] => i = j
  BY <1>2
<1> HIDE DEF m
<1> QED  BY <1>2, <1>3, Reindexed

LEMMA CountTo ==
  ASSUME NEW k \in Nat
  PROVE  IsFiniteSet(1..k) /\ Cardinality(1..k) = k
  BY FS_Interval

\* A stable sort puts every clip in a place of its own.
Shuffles(m, cs, ds) ==
  /\ m \in [1..Len(cs) -> 1..Len(cs)]
  /\ \A i, j \in 1..Len(cs) : m[i] = m[j] => i = j
  /\ ds = [p \in 1..Len(cs) |-> cs[m[p]]]

LEMMA SortShuffles ==
  ASSUME NEW n \in Nat, NEW cs \in Lists(n)
  PROVE  \E m : Shuffles(m, cs, ByStart(cs))
<1> DEFINE N == Len(cs)
           before(j, i) == \/ cs[j].start < cs[i].start
                           \/ cs[j].start = cs[i].start /\ j < i
           earlier(i) == {j \in DOMAIN cs : before(j, i)}
           place(i) == 1 + Cardinality(earlier(i))
           m == [p \in 1..N |-> CHOOSE i \in DOMAIN cs : place(i) = p]
<1>1. ByStart(cs) = [p \in DOMAIN cs |-> cs[CHOOSE i \in DOMAIN cs : place(i) = p]]
  BY DEF ByStart
<1>2. N \in Nat /\ DOMAIN cs = 1..N /\ \A i \in 1..N : cs[i].start \in Int
  BY ListFacts, ClipFacts
<1>3. IsFiniteSet(1..N) /\ Cardinality(1..N) = N
  BY <1>2, CountTo
<1>4. ASSUME NEW i \in 1..N
      PROVE  /\ earlier(i) \in SUBSET (1..N) /\ i \notin earlier(i)
             /\ IsFiniteSet(earlier(i)) /\ Cardinality(earlier(i)) \in Nat
             /\ place(i) \in 1..N
  <2>1. earlier(i) \in SUBSET (1..N) /\ i \notin earlier(i)
    BY <1>2
  <2>2. IsFiniteSet(earlier(i)) /\ Cardinality(earlier(i)) <= N
        /\ (Cardinality(earlier(i)) = N => earlier(i) = 1..N)
    <3> HIDE DEF earlier
    <3> QED  BY <1>3, <2>1, FS_Subset
  <2>3. Cardinality(earlier(i)) \in Nat
    BY <2>2, FS_CardinalityType
  <2>4. Cardinality(earlier(i)) # N
    BY <2>1, <2>2
  <2> HIDE DEF earlier
  <2> QED  BY <1>2, <2>1, <2>2, <2>3, <2>4
<1>5. ASSUME NEW i \in 1..N, NEW j \in 1..N, before(j, i)  PROVE place(j) < place(i)
  <2>1. earlier(j) \subseteq earlier(i)
    BY <1>2, <1>5
  <2>2. j \in earlier(i) /\ j \notin earlier(j)
    BY <1>2, <1>5
  <2> HIDE DEF earlier
  <2>3. Cardinality(earlier(j)) <= Cardinality(earlier(i))
        /\ (Cardinality(earlier(i)) = Cardinality(earlier(j)) => earlier(i) = earlier(j))
    BY <1>4, <2>1, FS_Subset
  <2> QED  BY <1>4, <2>2, <2>3
<1>6. ASSUME NEW i \in 1..N, NEW j \in 1..N, place(i) = place(j)  PROVE i = j
  <2>1. ~before(i, j) /\ ~before(j, i)
    <3> HIDE DEF before, place
    <3>1. place(i) \in 1..N /\ place(j) \in 1..N
      BY <1>4
    <3>2. place(i) \in Int /\ place(j) \in Int
      BY <1>2, <3>1
    <3> QED  BY <1>5, <1>6, <3>2
  <2> QED  BY <1>2, <2>1
<1> DEFINE r == [i \in 1..N |-> place(i)]
<1>7. \A p \in 1..N : \E i \in 1..N : place(i) = p
  <2>1. r \in Injection(1..N, 1..N)
    <3> HIDE DEF place
    <3> QED  BY <1>4, <1>6 DEF Injection, IsInjective
  <2>2. r \in Surjection(1..N, 1..N)
    <3> HIDE DEF r
    <3> QED  BY <1>3, <2>1, FS_Injection
  <2> QED  BY <2>2 DEF Surjection
<1>8. \A p \in 1..N : m[p] \in 1..N /\ place(m[p]) = p
  <2> HIDE DEF place
  <2> QED  BY <1>2, <1>7
<1>9. ByStart(cs) = [p \in 1..N |-> cs[m[p]]]
  <2> HIDE DEF place
  <2> QED  BY <1>1, <1>2
<1> HIDE DEF m, place
<1>10. m \in [1..N -> 1..N]
  BY <1>8 DEF m
<1>11. Shuffles(m, cs, ByStart(cs))
  BY <1>8, <1>9, <1>10 DEF Shuffles
<1> QED  BY <1>11

LEMMA SortedList ==
  ASSUME NEW n \in Nat, NEW cs \in Lists(n)
  PROVE  /\ ByStart(cs) \in Lists(n) /\ Len(ByStart(cs)) = Len(cs)
         /\ Ids(ByStart(cs)) = Ids(cs)
<1>1. PICK m : Shuffles(m, cs, ByStart(cs))
  BY SortShuffles
<1> DEFINE N == Len(cs)
           ds == ByStart(cs)
<1>2. N \in Nat /\ \A i \in 1..N : cs[i] \in ClipsOf(n)
  BY ListFacts
<1>3. /\ m \in [1..N -> 1..N] /\ \A i, j \in 1..N : m[i] = m[j] => i = j
      /\ ds = [p \in 1..N |-> cs[m[p]]]
  BY <1>1 DEF Shuffles
<1> HIDE DEF ds
<1>4. ds \in [1..N -> ClipsOf(n)] /\ \A i \in 1..N : ds[i].id = cs[m[i]].id
  BY <1>2, <1>3
<1>5. ds \in Seq(ClipsOf(n)) /\ Len(ds) = N
  BY <1>2, <1>4, FunctionIsSeq
<1>6. ds \in Lists(n)
  <2>1. m \in [1..Len(ds) -> 1..Len(cs)] /\ \A i \in 1..Len(ds) : ds[i].id = cs[m[i]].id
    BY <1>3, <1>4, <1>5
  <2>2. \A i, j \in 1..Len(ds) : m[i] = m[j] => i = j
    BY <1>3, <1>5
  <2> QED  BY <1>5, <2>1, <2>2, Reindexed
<1>7. m \in Surjection(1..N, 1..N)
  <2>1. m \in Injection(1..N, 1..N)
    BY <1>3 DEF Injection, IsInjective
  <2>2. IsFiniteSet(1..N)
    BY <1>2, CountTo
  <2> QED  BY <2>1, <2>2, FS_Injection
<1>8. Ids(ds) = Ids(cs)
  <2>1. DOMAIN ds = 1..N /\ DOMAIN cs = 1..N
    BY <1>4, ListFacts
  <2>2. \A i \in 1..N : \E p \in 1..N : m[p] = i
    BY <1>7 DEF Surjection
  <2> QED  BY <1>3, <1>4, <2>1, <2>2 DEF Ids
<1> QED  BY <1>5, <1>6, <1>8 DEF ds

Recut(c, t, u) == [c EXCEPT !.start = t, !.end = u]

LEMMA RecutIs ==
  ASSUME NEW n \in Nat, NEW c \in ClipsOf(n), NEW t \in Int
  PROVE  /\ [c EXCEPT !.start = t] \in ClipsOf(n) /\ [c EXCEPT !.start = t].id = c.id
         /\ [c EXCEPT !.end = t] \in ClipsOf(n) /\ [c EXCEPT !.end = t].id = c.id
<1>1. c \in ClipRecord /\ Len(c.id) >= 2 /\ \A k \in 3..Len(c.id) : c.id[k] <= n + 1
  BY DEF ClipsOf
<1> DEFINE d == [c EXCEPT !.start = t]
           e == [c EXCEPT !.end = t]
<1>2. d \in ClipRecord /\ d.id = c.id
  BY <1>1 DEF ClipRecord
<1>3. e \in ClipRecord /\ e.id = c.id
  BY <1>1 DEF ClipRecord
<1> HIDE DEF d, e
<1>4. d \in ClipsOf(n) /\ e \in ClipsOf(n)
  BY <1>1, <1>2, <1>3 DEF ClipsOf
<1> QED  BY <1>2, <1>3, <1>4 DEF d, e

LEMMA RecutClip ==
  ASSUME NEW n \in Nat, NEW c \in ClipsOf(n), NEW t \in Int, NEW u \in Int
  PROVE  Recut(c, t, u) \in ClipsOf(n) /\ Recut(c, t, u).id = c.id
<1> DEFINE d == [c EXCEPT !.start = t]
           e == [d EXCEPT !.end = u]
<1>1. d \in ClipsOf(n) /\ d.id = c.id
  BY RecutIs
<1>2. Recut(c, t, u) = e
  BY DEF Recut
<1> HIDE DEF d
<1>3. e \in ClipsOf(n) /\ e.id = d.id
  BY <1>1, RecutIs
<1> HIDE DEF e
<1> QED  BY <1>1, <1>2, <1>3

LEMMA RecutFields ==
  ASSUME NEW c \in ClipRecord, NEW t \in Int, NEW u \in Int
  PROVE  /\ [c EXCEPT !.start = t].start = t /\ [c EXCEPT !.start = t].end = c.end
         /\ [c EXCEPT !.end = u].end = u /\ [c EXCEPT !.end = u].start = c.start
  BY DEF ClipRecord

LEMMA BoundsInt ==
  ASSUME NEW a \in Int, NEW b \in Int
  PROVE  Larger(a, b) \in Int /\ Smaller(a, b) \in Int
  BY DEF Larger, Smaller

LEMMA TrimmedOutList ==
  ASSUME NEW n \in Nat, NEW cs \in Lists(n), NEW id \in Ids(cs), NEW by \in Int
  PROVE  TrimmedOut(cs, id, by) \in Lists(n)
<1> DEFINE s == ByStart(cs)
           i == Find(s, id)
           end == Larger(s[i].start + Least, Smaller(Duration, s[i].end + by))
           d == end - s[i].end
           ds == [k \in DOMAIN s |-> IF k = i THEN [s[i] EXCEPT !.end = end]
                                     ELSE IF k > i THEN Moved(s[k], d) ELSE s[k]]
<1>1. TrimmedOut(cs, id, by) = ds
  BY DEF TrimmedOut
<1>2. s \in Lists(n) /\ id \in Ids(s)
  BY SortedList
<1> HIDE DEF s
<1>3. i \in 1..Len(s)
  BY <1>2, FindIs
<1>4. DOMAIN s = 1..Len(s) /\ \A k \in 1..Len(s) : s[k] \in ClipsOf(n)
  BY <1>2, ListFacts
<1>5. end \in Int /\ d \in Int
  <2>1. s[i].start \in Int /\ s[i].end \in Int /\ Least \in Int /\ Duration \in Int
    BY <1>3, <1>4, ClipFacts, TimelineAssumption DEF TimelineAssumption
  <2> DEFINE a == s[i].start
             b == s[i].end
  <2>2. a \in Int /\ b \in Int
    BY <2>1
  <2> HIDE DEF a, b
  <2>3. Larger(a + Least, Smaller(Duration, b + by)) \in Int
    BY <2>1, <2>2, BoundsInt
  <2>4. end \in Int
    BY <2>3 DEF a, b
  <2> HIDE DEF end
  <2> QED  BY <2>2, <2>4 DEF b
<1> HIDE DEF i, end, d
<1>6. ASSUME NEW k \in 1..Len(s)  PROVE ds[k] \in ClipsOf(n) /\ ds[k].id = s[k].id
  <2>1. ds[k] = IF k = i THEN [s[i] EXCEPT !.end = end]
                ELSE IF k > i THEN Moved(s[k], d) ELSE s[k]
    BY <1>4
  <2>2. s[k] \in ClipsOf(n) /\ s[i] \in ClipsOf(n)
    BY <1>3, <1>4
  <2>3. [s[i] EXCEPT !.end = end] \in ClipsOf(n) /\ [s[i] EXCEPT !.end = end].id = s[i].id
    BY <1>5, <2>2, RecutIs
  <2>4. Moved(s[k], d) \in ClipsOf(n) /\ Moved(s[k], d).id = s[k].id
    BY <1>5, <2>2, MovedIs
  <2> QED  BY <2>1, <2>2, <2>3, <2>4
<1>7. ds \in [1..Len(s) -> ClipsOf(n)] /\ \A k \in 1..Len(s) : ds[k].id = s[k].id
  <2>1. ds = [k \in 1..Len(s) |-> ds[k]]
    BY <1>4
  <2> HIDE DEF ds
  <2> QED  BY <1>6, <2>1
<1> HIDE DEF ds
<1> QED  BY <1>1, <1>2, <1>7, SameIds

LEMMA TrimmedInList ==
  ASSUME NEW n \in Nat, NEW cs \in Lists(n), NEW id \in Ids(cs), NEW by \in Int
  PROVE  TrimmedIn(cs, id, by) \in Lists(n)
<1> DEFINE s == ByStart(cs)
           i == Find(s, id)
           start == Within(s[i].start + by, 0, s[i].end - Least)
           d == start - s[i].start
           ds == [k \in DOMAIN s |-> IF k = i THEN [s[i] EXCEPT !.start = start]
                                     ELSE IF k > i THEN Moved(s[k], -d) ELSE s[k]]
<1>1. TrimmedIn(cs, id, by) = ds
  BY DEF TrimmedIn
<1>2. s \in Lists(n) /\ id \in Ids(s)
  BY SortedList
<1> HIDE DEF s
<1>3. i \in 1..Len(s)
  BY <1>2, FindIs
<1>4. DOMAIN s = 1..Len(s) /\ \A k \in 1..Len(s) : s[k] \in ClipsOf(n)
  BY <1>2, ListFacts
<1>5. start \in Int /\ -d \in Int
  <2>1. s[i].start \in Int /\ s[i].end \in Int /\ Least \in Int /\ Duration \in Int
    BY <1>3, <1>4, ClipFacts, TimelineAssumption DEF TimelineAssumption
  <2> DEFINE a == s[i].start
             b == s[i].end
  <2>2. a \in Int /\ b \in Int
    BY <2>1
  <2> HIDE DEF a, b
  <2>3. Larger(0, Smaller(b - Least, a + by)) \in Int
    BY <2>1, <2>2, BoundsInt
  <2>4. start \in Int
    BY <2>3 DEF Within, a, b
  <2> HIDE DEF start
  <2> QED  BY <2>2, <2>4 DEF a
<1> HIDE DEF i, start, d
<1>6. ASSUME NEW k \in 1..Len(s)  PROVE ds[k] \in ClipsOf(n) /\ ds[k].id = s[k].id
  <2>1. ds[k] = IF k = i THEN [s[i] EXCEPT !.start = start]
                ELSE IF k > i THEN Moved(s[k], -d) ELSE s[k]
    BY <1>4
  <2>2. s[k] \in ClipsOf(n) /\ s[i] \in ClipsOf(n)
    BY <1>3, <1>4
  <2>3. [s[i] EXCEPT !.start = start] \in ClipsOf(n) /\ [s[i] EXCEPT !.start = start].id = s[i].id
    BY <1>5, <2>2, RecutIs
  <2>4. Moved(s[k], -d) \in ClipsOf(n) /\ Moved(s[k], -d).id = s[k].id
    BY <1>5, <2>2, MovedIs
  <2> QED  BY <2>1, <2>2, <2>3, <2>4
<1>7. ds \in [1..Len(s) -> ClipsOf(n)] /\ \A k \in 1..Len(s) : ds[k].id = s[k].id
  <2>1. ds = [k \in 1..Len(s) |-> ds[k]]
    BY <1>4
  <2> HIDE DEF ds
  <2> QED  BY <1>6, <2>1
<1> HIDE DEF ds
<1> QED  BY <1>1, <1>2, <1>7, SameIds

LEMMA ClosedList ==
  ASSUME NEW n \in Nat, NEW cs \in Lists(n), NEW id \in Ids(cs)
  PROVE  Closed(cs, id) \in Lists(n)
<1> DEFINE gone == cs[Find(cs, id)]
           left == Without(cs, id)
           by == gone.start - gone.end
           ds == [k \in DOMAIN left |-> IF left[k].start >= gone.end
                                        THEN Moved(left[k], by) ELSE left[k]]
<1>1. Closed(cs, id) = ds
  BY DEF Closed
<1>2. left \in Lists(n)
  BY KeptList DEF Without
<1> HIDE DEF left
<1>3. gone \in ClipsOf(n)
  BY FindIs, ListFacts
<1>4. by \in Int
  BY <1>3, ClipFacts
<1> HIDE DEF gone, by
<1>5. DOMAIN left = 1..Len(left) /\ \A k \in 1..Len(left) : left[k] \in ClipsOf(n)
  BY <1>2, ListFacts
<1>6. \A k \in 1..Len(left) : ds[k] \in ClipsOf(n) /\ ds[k].id = left[k].id
  BY <1>4, <1>5, MovedIs
<1>7. ds \in [1..Len(left) -> ClipsOf(n)] /\ \A k \in 1..Len(left) : ds[k].id = left[k].id
  <2>1. ds = [k \in 1..Len(left) |-> ds[k]]
    BY <1>5
  <2> HIDE DEF ds
  <2> QED  BY <1>6, <2>1
<1> HIDE DEF ds
<1> QED  BY <1>1, <1>2, <1>7, SameIds

LEMMA UpdatedList ==
  ASSUME NEW n \in Nat, NEW cs \in Lists(n), NEW id, NEW t \in Int, NEW u \in Int
  PROVE  [k \in DOMAIN cs |-> IF cs[k].id = id THEN [cs[k] EXCEPT !.start = t, !.end = u]
                              ELSE cs[k]] \in Lists(n)
<1> DEFINE ds == [k \in DOMAIN cs |-> IF cs[k].id = id THEN [cs[k] EXCEPT !.start = t, !.end = u]
                                      ELSE cs[k]]
<1>1. DOMAIN cs = 1..Len(cs) /\ \A k \in 1..Len(cs) : cs[k] \in ClipsOf(n)
  BY ListFacts
<1>2. ASSUME NEW k \in 1..Len(cs)  PROVE ds[k] \in ClipsOf(n) /\ ds[k].id = cs[k].id
  <2>1. ds[k] = IF cs[k].id = id THEN [cs[k] EXCEPT !.start = t, !.end = u] ELSE cs[k]
    BY <1>1
  <2>2. cs[k] \in ClipsOf(n)
    BY <1>1
  <2> DEFINE e == Recut(cs[k], t, u)
  <2>3. e \in ClipsOf(n) /\ e.id = cs[k].id
    BY <2>2, RecutClip
  <2>4. ds[k] = IF cs[k].id = id THEN e ELSE cs[k]
    BY <2>1 DEF Recut
  <2> HIDE DEF e
  <2> HIDE DEF ds
  <2> QED  BY <2>2, <2>3, <2>4
<1>3. ds \in [1..Len(cs) -> ClipsOf(n)] /\ \A k \in 1..Len(cs) : ds[k].id = cs[k].id
  <2>1. ds = [k \in 1..Len(cs) |-> ds[k]]
    BY <1>1
  <2> HIDE DEF ds
  <2> QED  BY <1>2, <2>1
<1> HIDE DEF ds
<1>4. ds \in Lists(n)
  BY <1>3, SameIds
<1> QED  BY <1>4 DEF ds

\* A split puts the two halves of a clip in its place.
HalvesOf(n, c, t, h) ==
  /\ h \in Seq(ClipsOf(n)) /\ Len(h) = 2
  /\ h[1].id = Append(c.id, 0) /\ h[2].id = Append(c.id, 1)
  /\ h[1].start = c.start /\ h[1].end = t
  /\ h[2].start = t /\ h[2].end = c.end

LEMMA HalvesAre ==
  ASSUME NEW n \in Nat, NEW c \in ClipsOf(n), NEW t \in Int
  PROVE  HalvesOf(n, c, t, Halves(c, t))
<1>1. /\ c \in ClipRecord /\ c.id \in Seq(Nat) /\ Len(c.id) \in Nat /\ Len(c.id) >= 2
      /\ \A k \in 3..Len(c.id) : c.id[k] <= n + 1
  BY ClipFacts
<1> DEFINE a == [c EXCEPT !.id = Append(c.id, 0), !.end = t]
           b == [c EXCEPT !.id = Append(c.id, 1), !.start = t]
           a0 == [c EXCEPT !.id = Append(c.id, 0)]
           b0 == [c EXCEPT !.id = Append(c.id, 1)]
<1>2. Halves(c, t) = <<a, b>>
  BY DEF Halves
<1>3. ASSUME NEW x \in {0, 1}
      PROVE  /\ Append(c.id, x) \in Seq(Nat) /\ Len(Append(c.id, x)) >= 2
             /\ \A k \in 3..Len(Append(c.id, x)) : Append(c.id, x)[k] <= n + 1
  <2>1. /\ x \in Nat /\ Append(c.id, x) \in Seq(Nat) /\ Len(Append(c.id, x)) = Len(c.id) + 1
        /\ \A k \in 1..Len(c.id) : Append(c.id, x)[k] = c.id[k]
        /\ Append(c.id, x)[Len(c.id) + 1] = x
    BY <1>1, AppendProperties
  <2>2. ASSUME NEW k \in 3..(Len(c.id) + 1)  PROVE Append(c.id, x)[k] <= n + 1
    <3>1. CASE k = Len(c.id) + 1
      BY <2>1, <3>1
    <3>2. CASE k # Len(c.id) + 1
      <4>1. k \in 1..Len(c.id) /\ k \in 3..Len(c.id)
        BY <1>1, <3>2
      <4> QED  BY <1>1, <2>1, <4>1
    <3> QED  BY <3>1, <3>2
  <2> QED  BY <1>1, <2>1, <2>2
<1>4. a0 \in ClipRecord /\ a0.id = Append(c.id, 0) /\ a0.start = c.start
  BY <1>1, <1>3 DEF ClipRecord
<1>5. b0 \in ClipRecord /\ b0.id = Append(c.id, 1) /\ b0.end = c.end
  BY <1>1, <1>3 DEF ClipRecord
<1>6. a = [a0 EXCEPT !.end = t] /\ b = [b0 EXCEPT !.start = t]
  BY <1>1 DEF ClipRecord
<1> HIDE DEF a, b, a0, b0
<1>7. a \in ClipRecord /\ a.id = Append(c.id, 0) /\ a.start = c.start /\ a.end = t
  BY <1>4, <1>6 DEF ClipRecord
<1>8. b \in ClipRecord /\ b.id = Append(c.id, 1) /\ b.end = c.end /\ b.start = t
  BY <1>5, <1>6 DEF ClipRecord
<1>9. a \in ClipsOf(n) /\ b \in ClipsOf(n)
  BY <1>3, <1>7, <1>8 DEF ClipsOf
<1>10. /\ Halves(c, t) \in Seq(ClipsOf(n)) /\ Len(Halves(c, t)) = 2
       /\ Halves(c, t)[1] = a /\ Halves(c, t)[2] = b
  BY <1>2, <1>9
<1> QED  BY <1>7, <1>8, <1>10 DEF HalvesOf

LEMMA PiecesApart ==
  ASSUME NEW id \in Seq(Nat), NEW x \in Nat, NEW y \in Nat, x # y
  PROVE  ~PieceOf(Append(id, x), Append(id, y))
<1>1. /\ Len(Append(id, x)) = Len(id) + 1 /\ Append(id, x)[Len(id) + 1] = x
      /\ Len(Append(id, y)) = Len(id) + 1 /\ Append(id, y)[Len(id) + 1] = y
      /\ Len(id) \in Nat
  BY AppendProperties
<1>2. Len(id) + 1 \in 1..Len(Append(id, y))
  BY <1>1
<1> QED  BY <1>1, <1>2 DEF PieceOf

\* A half's relatives are relatives of the clip.
LEMMA HalfRelatives ==
  ASSUME NEW id \in Seq(Nat), NEW other \in Seq(Nat), NEW x \in {0, 1}
  PROVE  /\ PieceOf(other, Append(id, x)) => PieceOf(other, id)
         /\ PieceOf(Append(id, x), other) => PieceOf(id, other) \/ PieceOf(other, id)
         /\ PieceOf(Append(id, x), id)
<1> DEFINE half == Append(id, x)
           l == Len(id)
<1>1. /\ Len(half) = l + 1 /\ l \in Nat /\ half[l + 1] = x
      /\ \A k \in 1..l : half[k] = id[k]
  BY AppendProperties
<1>2. Len(other) \in Nat
  OBVIOUS
<1> HIDE DEF half
<1>3. ASSUME PieceOf(other, half)  PROVE PieceOf(other, id)
  <2>1. l <= Len(other) /\ \A k \in 1..l : other[k] = id[k]
    BY <1>1, <1>2, <1>3 DEF PieceOf
  <2>2. ASSUME NEW k \in (l + 1)..Len(other)  PROVE other[k] \in {0, 1}
    <3>1. CASE k = l + 1
      <4>1. k \in 1..Len(half)
        BY <1>1, <3>1
      <4> QED  BY <1>1, <1>3, <3>1, <4>1 DEF PieceOf
    <3>2. CASE k # l + 1
      <4>1. k \in (Len(half) + 1)..Len(other)
        BY <1>1, <1>2, <3>2
      <4> QED  BY <1>3, <4>1 DEF PieceOf
    <3> QED  BY <3>1, <3>2
  <2> QED  BY <2>1, <2>2 DEF PieceOf
<1>4. ASSUME PieceOf(half, other)  PROVE PieceOf(id, other) \/ PieceOf(other, id)
  <2>1. CASE Len(other) = l + 1
    <3>1. \A k \in 1..(l + 1) : other[k] = half[k]
      BY <1>4, <2>1 DEF PieceOf
    <3>2. l <= Len(other) /\ \A k \in 1..l : other[k] = id[k]
      BY <1>1, <2>1, <3>1
    <3>3. \A k \in (l + 1)..Len(other) : other[k] \in {0, 1}
      BY <1>1, <2>1, <3>1
    <3> QED  BY <3>2, <3>3 DEF PieceOf
  <2>2. CASE Len(other) <= l
    <3>1. \A k \in 1..Len(other) : id[k] = other[k]
      BY <1>1, <1>2, <1>4, <2>2 DEF PieceOf
    <3>2. ASSUME NEW k \in (Len(other) + 1)..l  PROVE id[k] \in {0, 1}
      <4>1. k \in 1..l /\ k \in (Len(other) + 1)..Len(half)
        BY <1>1, <1>2, <2>2
      <4>2. half[k] \in {0, 1}
        BY <1>4, <4>1 DEF PieceOf
      <4> QED  BY <1>1, <4>1, <4>2
    <3> QED  BY <2>2, <3>1, <3>2 DEF PieceOf
  <2> QED  BY <1>1, <1>2, <1>4, <2>1, <2>2 DEF PieceOf
<1>5. PieceOf(half, id)
  <2>1. \A k \in (l + 1)..Len(half) : half[k] \in {0, 1}
    BY <1>1
  <2> QED  BY <1>1, <2>1 DEF PieceOf
<1> QED  BY <1>3, <1>4, <1>5 DEF half

Cut(cs, i, t) == SubSeq(cs, 1, i - 1) \o Halves(cs[i], t) \o SubSeq(cs, i + 1, Len(cs))

LEMMA CutIs ==
  ASSUME NEW n \in Nat, NEW cs \in Lists(n), NEW i \in 1..Len(cs), NEW t \in Int
  PROVE  /\ Cut(cs, i, t) \in Seq(ClipsOf(n)) /\ Len(Cut(cs, i, t)) = Len(cs) + 1
         /\ \A p \in 1..(Len(cs) + 1) :
              /\ p < i => Cut(cs, i, t)[p] = cs[p]
              /\ p = i => Cut(cs, i, t)[p] = Halves(cs[i], t)[1]
              /\ p = i + 1 => Cut(cs, i, t)[p] = Halves(cs[i], t)[2]
              /\ p > i + 1 => Cut(cs, i, t)[p] = cs[p - 1]
<1> DEFINE N == Len(cs)
           h == Halves(cs[i], t)
           before == SubSeq(cs, 1, i - 1)
           after == SubSeq(cs, i + 1, N)
           ds == before \o h \o after
<1>1. /\ cs \in Seq(ClipsOf(n)) /\ N \in Nat /\ i \in Int
      /\ \A p \in 1..N : cs[p] \in ClipsOf(n) /\ cs[p].id \in Seq(Nat)
  BY ListFacts, ClipFacts
<1>2. /\ h \in Seq(ClipsOf(n)) /\ Len(h) = 2
      /\ h[1].id = Append(cs[i].id, 0) /\ h[2].id = Append(cs[i].id, 1)
  <2> HIDE DEF h
  <2>1. cs[i] \in ClipsOf(n)
    BY <1>1
  <2>2. HalvesOf(n, cs[i], t, h)
    BY <2>1, HalvesAre DEF h
  <2> QED  BY <2>2 DEF HalvesOf
<1>3. /\ before \in Seq(ClipsOf(n)) /\ Len(before) = i - 1
      /\ \A p \in 1..(i - 1) : before[p] = cs[p]
  BY <1>1, SubSeqProperties
<1>4. /\ after \in Seq(ClipsOf(n)) /\ Len(after) = N - i
      /\ \A p \in 1..(N - i) : after[p] = cs[p + i]
  BY <1>1, SubSeqProperties
<1> HIDE DEF h, before, after
<1> DEFINE b == before \o h
<1>5. /\ b \in Seq(ClipsOf(n)) /\ Len(b) = i + 1
      /\ \A p \in 1..(i + 1) : b[p] = IF p <= i - 1 THEN before[p] ELSE h[p - (i - 1)]
  <2>1. /\ b \in Seq(ClipsOf(n)) /\ Len(b) = Len(before) + Len(h)
        /\ \A p \in 1..(Len(before) + Len(h)) :
             b[p] = IF p <= Len(before) THEN before[p] ELSE h[p - Len(before)]
    BY <1>2, <1>3, ConcatProperties
  <2>2. Len(before) + Len(h) = i + 1
    BY <1>1, <1>2, <1>3
  <2> HIDE DEF b
  <2> QED  BY <1>3, <2>1, <2>2
<1> HIDE DEF b
<1>6. /\ ds \in Seq(ClipsOf(n)) /\ Len(ds) = N + 1
      /\ \A p \in 1..(N + 1) : ds[p] = IF p <= i + 1 THEN b[p] ELSE after[p - (i + 1)]
  <2>1. ds = b \o after
    BY DEF b
  <2> HIDE DEF ds
  <2>2. /\ ds \in Seq(ClipsOf(n)) /\ Len(ds) = Len(b) + Len(after)
        /\ \A p \in 1..(Len(b) + Len(after)) :
             ds[p] = IF p <= Len(b) THEN b[p] ELSE after[p - Len(b)]
    BY <1>4, <1>5, <2>1, ConcatProperties
  <2>3. Len(b) + Len(after) = N + 1
    BY <1>1, <1>4, <1>5
  <2> QED  BY <1>5, <2>2, <2>3
<1> HIDE DEF ds
<1>7. ASSUME NEW p \in 1..(N + 1)
      PROVE  /\ p < i => ds[p] = cs[p]
             /\ p = i => ds[p] = h[1]
             /\ p = i + 1 => ds[p] = h[2]
             /\ p > i + 1 => ds[p] = cs[p - 1]
  <2>1. ASSUME p < i  PROVE ds[p] = cs[p]
    <3>1. p \in 1..(i - 1) /\ p <= i + 1 /\ p \in 1..(i + 1)
      BY <1>1, <2>1
    <3> QED  BY <1>3, <1>5, <1>6, <3>1
  <2>2. ASSUME p = i  PROVE ds[p] = h[1]
    <3>1. p <= i + 1 /\ ~(p <= i - 1) /\ p - (i - 1) = 1 /\ p \in 1..(i + 1)
      BY <1>1, <2>2
    <3> QED  BY <1>5, <1>6, <3>1
  <2>3. ASSUME p = i + 1  PROVE ds[p] = h[2]
    <3>1. p <= i + 1 /\ ~(p <= i - 1) /\ p - (i - 1) = 2 /\ p \in 1..(i + 1)
      BY <1>1, <2>3
    <3> QED  BY <1>5, <1>6, <3>1
  <2>4. ASSUME p > i + 1  PROVE ds[p] = cs[p - 1]
    <3>1. ~(p <= i + 1) /\ p - (i + 1) \in 1..(N - i) /\ (p - (i + 1)) + i = p - 1
      BY <1>1, <2>4
    <3> QED  BY <1>4, <1>6, <3>1
  <2> QED  BY <2>1, <2>2, <2>3, <2>4
<1> QED  BY <1>6, <1>7 DEF Cut, ds, before, after, h

LEMMA SplitList ==
  ASSUME NEW n \in Nat, NEW cs \in Lists(n), NEW i \in 1..Len(cs), NEW t \in Int
  PROVE  Cut(cs, i, t) \in Lists(n)
<1> DEFINE N == Len(cs)
           h == Halves(cs[i], t)
           ds == Cut(cs, i, t)
           from(p) == IF p <= i THEN p ELSE p - 1
<1>1. /\ cs \in Seq(ClipsOf(n)) /\ N \in Nat /\ i \in Int
      /\ \A p \in 1..N : cs[p] \in ClipsOf(n) /\ cs[p].id \in Seq(Nat)
  BY ListFacts, ClipFacts
<1>2. /\ h[1].id = Append(cs[i].id, 0) /\ h[2].id = Append(cs[i].id, 1)
  <2> HIDE DEF h
  <2>1. cs[i] \in ClipsOf(n)
    BY <1>1
  <2>2. HalvesOf(n, cs[i], t, h)
    BY <2>1, HalvesAre DEF h
  <2> QED  BY <2>2 DEF HalvesOf
<1>6. ds \in Seq(ClipsOf(n)) /\ Len(ds) = N + 1
  BY CutIs
<1>7. \A p \in 1..(N + 1) : /\ p < i => ds[p] = cs[p]
                            /\ p = i => ds[p] = h[1]
                            /\ p = i + 1 => ds[p] = h[2]
                            /\ p > i + 1 => ds[p] = cs[p - 1]
  BY CutIs
<1> HIDE DEF h, ds
\* A clip of the new list is one of the old list or a half of clip i.
<1>8. ASSUME NEW p \in 1..(N + 1)
      PROVE  /\ from(p) \in 1..N
             /\ p \notin {i, i + 1} => from(p) # i /\ ds[p].id = cs[from(p)].id
             /\ p \in {i, i + 1} => \E x \in {0, 1} : /\ ds[p].id = Append(cs[i].id, x)
                                                      /\ p = i + x
  <2>1. CASE p < i
    BY <1>1, <1>7, <2>1
  <2>2. CASE p = i
    <3>1. ds[p].id = Append(cs[i].id, 0) /\ p = i + 0
      BY <1>1, <1>2, <1>7, <2>2
    <3> QED  BY <1>1, <2>2, <3>1
  <2>3. CASE p = i + 1
    <3>1. ds[p].id = Append(cs[i].id, 1)
      BY <1>2, <1>7, <2>3
    <3> QED  BY <1>1, <2>3, <3>1
  <2>4. CASE p > i + 1
    BY <1>1, <1>7, <2>4
  <2> QED  BY <1>1, <2>1, <2>2, <2>3, <2>4
<1>9. ASSUME NEW p \in 1..(N + 1), NEW q \in 1..(N + 1), PieceOf(ds[p].id, ds[q].id)
      PROVE  p = q
  <2>1. CASE p \notin {i, i + 1} /\ q \notin {i, i + 1}
    <3>1. from(p) = from(q)
      BY <1>8, <1>9, <2>1, ListFacts
    <3> QED  BY <1>1, <2>1, <3>1
  <2>2. CASE p \notin {i, i + 1} /\ q \in {i, i + 1}
    <3>1. PICK x \in {0, 1} : ds[q].id = Append(cs[i].id, x)
      BY <1>8, <2>2
    <3>2. from(p) \in 1..N /\ from(p) # i /\ ds[p].id = cs[from(p)].id
      BY <1>8, <2>2
    <3>3. PieceOf(cs[from(p)].id, cs[i].id)
      <4> DEFINE r == from(p)
      <4>1. cs[i].id \in Seq(Nat) /\ cs[r].id \in Seq(Nat)
        BY <1>1, <3>2
      <4>2. PieceOf(cs[r].id, Append(cs[i].id, x))
        BY <1>9, <3>1, <3>2
      <4> HIDE DEF r, from
      <4>3. PieceOf(cs[r].id, cs[i].id)
        BY <4>1, <4>2, HalfRelatives
      <4> QED  BY <4>3 DEF r
    <3> QED  BY <3>2, <3>3, ListFacts
  <2>3. CASE p \in {i, i + 1} /\ q \notin {i, i + 1}
    <3>1. PICK x \in {0, 1} : ds[p].id = Append(cs[i].id, x)
      BY <1>8, <2>3
    <3>2. from(q) \in 1..N /\ from(q) # i /\ ds[q].id = cs[from(q)].id
      BY <1>8, <2>3
    <3>3. PieceOf(cs[i].id, cs[from(q)].id) \/ PieceOf(cs[from(q)].id, cs[i].id)
      <4> DEFINE r == from(q)
      <4>1. cs[i].id \in Seq(Nat) /\ cs[r].id \in Seq(Nat)
        BY <1>1, <3>2
      <4>2. PieceOf(Append(cs[i].id, x), cs[r].id)
        BY <1>9, <3>1, <3>2
      <4> HIDE DEF r, from
      <4>3. PieceOf(cs[i].id, cs[r].id) \/ PieceOf(cs[r].id, cs[i].id)
        BY <4>1, <4>2, HalfRelatives
      <4> QED  BY <4>3 DEF r
    <3> QED  BY <3>2, <3>3, ListFacts
  <2>4. CASE p \in {i, i + 1} /\ q \in {i, i + 1}
    <3>1. PICK x \in {0, 1} : ds[p].id = Append(cs[i].id, x) /\ p = i + x
      BY <1>8, <2>4
    <3>2. PICK y \in {0, 1} : ds[q].id = Append(cs[i].id, y) /\ q = i + y
      BY <1>8, <2>4
    <3>3. x = y
      BY <1>1, <1>9, <3>1, <3>2, PiecesApart
    <3> QED  BY <3>1, <3>2, <3>3
  <2> QED  BY <2>1, <2>2, <2>3, <2>4
<1>10. ds \in Lists(n)
  <2>1. DOMAIN ds = 1..(N + 1)
    BY <1>1, <1>6
  <2> QED  BY <1>6, <1>9, <2>1 DEF Lists, Apart
<1> QED  BY <1>10 DEF ds

LEMMA ReorderedList ==
  ASSUME NEW n \in Nat, NEW cs \in Lists(n), NEW i \in 1..Len(cs), NEW j \in 1..Len(cs)
  PROVE  InsertAt(RemoveAt(cs, i), j, cs[i]) \in Lists(n)
<1> DEFINE N == Len(cs)
           A == ClipsOf(n)
           a1 == SubSeq(cs, 1, i - 1)
           a2 == SubSeq(cs, i + 1, N)
           r == a1 \o a2
           b1 == SubSeq(r, 1, j - 1)
           b2 == SubSeq(r, j, Len(r))
           ds == b1 \o <<cs[i]>> \o b2
           old(p) == IF p < i THEN p ELSE p + 1
           m == [p \in 1..N |-> IF p < j THEN old(p) ELSE IF p = j THEN i ELSE old(p - 1)]
<1>1. cs \in Seq(A) /\ N \in Nat /\ i \in Int /\ j \in Int /\ \A p \in 1..N : cs[p] \in A
  BY ListFacts
<1>2. InsertAt(RemoveAt(cs, i), j, cs[i]) = ds
  BY DEF InsertAt, RemoveAt
<1>3. a1 \in Seq(A) /\ Len(a1) = i - 1 /\ \A p \in 1..(i - 1) : a1[p] = cs[p]
  BY <1>1, SubSeqProperties
<1>4. a2 \in Seq(A) /\ Len(a2) = N - i /\ \A p \in 1..(N - i) : a2[p] = cs[p + i]
  BY <1>1, SubSeqProperties
<1> HIDE DEF a1, a2
<1>5. /\ r \in Seq(A) /\ Len(r) = N - 1
      /\ \A p \in 1..(N - 1) : r[p] = IF p <= i - 1 THEN a1[p] ELSE a2[p - (i - 1)]
  <2>1. /\ r \in Seq(A) /\ Len(r) = Len(a1) + Len(a2)
        /\ \A p \in 1..(Len(a1) + Len(a2)) :
             r[p] = IF p <= Len(a1) THEN a1[p] ELSE a2[p - Len(a1)]
    BY <1>3, <1>4, ConcatProperties
  <2>2. Len(a1) + Len(a2) = N - 1
    BY <1>1, <1>3, <1>4
  <2> HIDE DEF r
  <2> QED  BY <1>3, <2>1, <2>2
<1> HIDE DEF r
<1>6. ASSUME NEW p \in 1..(N - 1)  PROVE old(p) \in 1..N /\ r[p] = cs[old(p)] /\ old(p) # i
  BY <1>1, <1>3, <1>4, <1>5
<1>7. /\ b1 \in Seq(A) /\ Len(b1) = j - 1 /\ \A p \in 1..(j - 1) : b1[p] = r[p]
  <2>1. \A p \in 1..(j - 1) : r[p] \in A
    BY <1>1, <1>5, ElementOfSeq
  <2> QED  BY <1>1, <2>1, SubSeqProperties
<1>8. /\ b2 \in Seq(A) /\ Len(b2) = N - j /\ \A p \in 1..(N - j) : b2[p] = r[p + (j - 1)]
  <2>1. \A p \in j..(N - 1) : r[p] \in A
    BY <1>1, <1>5, ElementOfSeq
  <2> QED  BY <1>1, <1>5, <2>1, SubSeqProperties
<1> HIDE DEF b1, b2
<1> DEFINE b == b1 \o <<cs[i]>>
<1>9. /\ b \in Seq(A) /\ Len(b) = j
      /\ \A p \in 1..j : b[p] = IF p <= j - 1 THEN b1[p] ELSE cs[i]
  <2>1. <<cs[i]>> \in Seq(A) /\ Len(<<cs[i]>>) = 1 /\ <<cs[i]>>[1] = cs[i]
    BY <1>1
  <2> DEFINE one == <<cs[i]>>
  <2> HIDE DEF one
  <2>2. /\ b \in Seq(A) /\ Len(b) = Len(b1) + Len(one)
        /\ \A p \in 1..(Len(b1) + Len(one)) :
             b[p] = IF p <= Len(b1) THEN b1[p] ELSE one[p - Len(b1)]
    BY <1>7, <2>1, ConcatProperties DEF one
  <2>3. Len(one) = 1 /\ one[1] = cs[i]
    BY <2>1 DEF one
  <2>4. Len(b1) + Len(one) = j
    BY <1>1, <1>7, <2>3
  <2> HIDE DEF b
  <2>5. \A p \in 1..j : ~(p <= j - 1) => p - (j - 1) = 1
    BY <1>1
  <2> QED  BY <1>7, <2>2, <2>3, <2>4, <2>5
<1> HIDE DEF b
<1>10. /\ ds \in Seq(A) /\ Len(ds) = N
       /\ \A p \in 1..N : ds[p] = IF p <= j THEN b[p] ELSE b2[p - j]
  <2>1. ds = b \o b2
    BY DEF b
  <2> HIDE DEF ds
  <2>2. /\ ds \in Seq(A) /\ Len(ds) = Len(b) + Len(b2)
        /\ \A p \in 1..(Len(b) + Len(b2)) : ds[p] = IF p <= Len(b) THEN b[p] ELSE b2[p - Len(b)]
    BY <1>8, <1>9, <2>1, ConcatProperties
  <2>3. Len(b) + Len(b2) = N
    BY <1>1, <1>8, <1>9
  <2> QED  BY <1>9, <2>2, <2>3
<1> HIDE DEF ds
<1>11. ASSUME NEW p \in 1..N  PROVE m[p] \in 1..N /\ ds[p] = cs[m[p]]
  <2>1. CASE p < j
    <3>1. p \in 1..(N - 1) /\ p \in 1..(j - 1) /\ p \in 1..j
      BY <1>1, <2>1
    <3> QED  BY <1>6, <1>7, <1>9, <1>10, <2>1, <3>1
  <2>2. CASE p = j
    <3>1. p \in 1..j /\ ~(p <= j - 1) /\ p <= j
      BY <1>1, <2>2
    <3> QED  BY <1>9, <1>10, <2>2, <3>1
  <2>3. CASE p > j
    <3>1. p - 1 \in 1..(N - 1) /\ p - j \in 1..(N - j) /\ (p - j) + (j - 1) = p - 1
      BY <1>1, <2>3
    <3>2. ds[p] = r[p - 1]
      <4>1. ~(p <= j)
        BY <1>1, <2>3
      <4>2. ds[p] = b2[p - j]
        BY <1>10, <4>1
      <4>3. b2[p - j] = r[(p - j) + (j - 1)]
        BY <1>8, <3>1
      <4> QED  BY <3>1, <4>2, <4>3
    <3> QED  BY <1>1, <1>6, <2>3, <3>1, <3>2
  <2> QED  BY <1>1, <2>1, <2>2, <2>3
<1>12. ASSUME NEW p \in 1..N, NEW q \in 1..N, m[p] = m[q]  PROVE p = q
  BY <1>1, <1>12
<1>13. m \in [1..N -> 1..N]
  BY <1>11
<1> HIDE DEF m
<1>14. m \in [1..Len(ds) -> 1..Len(cs)] /\ \A p \in 1..Len(ds) : ds[p].id = cs[m[p]].id
  BY <1>10, <1>11, <1>13
<1>15. \A p, q \in 1..Len(ds) : m[p] = m[q] => p = q
  BY <1>10, <1>12
<1>16. ds \in Lists(n)
  BY <1>10, <1>14, <1>15, Reindexed
<1> QED  BY <1>2, <1>16

\* A copy ends in the number of its edit, which no clip bears yet.
LEMMA CopiedList ==
  ASSUME NEW n \in Nat, NEW cs \in Lists(n), NEW i \in 1..Len(cs), NEW copy \in ClipRecord,
         copy.id = Append(cs[i].id, n + 2)
  PROVE  Append(cs, copy) \in Lists(n + 1)
<1> DEFINE N == Len(cs)
           ds == Append(cs, copy)
           l == Len(cs[i].id)
<1>1. /\ n + 1 \in Nat /\ N \in Nat /\ cs \in Lists(n + 1) /\ cs \in Seq(ClipsOf(n + 1))
      /\ \A p \in 1..N : cs[p] \in ClipsOf(n)
  BY ListFacts, ListsGrow
<1>2. /\ cs[i].id \in Seq(Nat) /\ l \in Nat /\ l >= 2
      /\ \A k \in 3..l : cs[i].id[k] <= n + 1
  BY <1>1, ClipFacts
<1>3. /\ copy.id \in Seq(Nat) /\ Len(copy.id) = l + 1 /\ copy.id[l + 1] = n + 2
      /\ \A k \in 1..l : copy.id[k] = cs[i].id[k]
  <2>1. n + 2 \in Nat
    OBVIOUS
  <2> QED  BY <1>2, <2>1, AppendProperties
<1>4. copy \in ClipsOf(n + 1)
  <2>1. ASSUME NEW k \in 3..Len(copy.id)  PROVE copy.id[k] <= (n + 1) + 1
    <3>1. CASE k = l + 1
      BY <1>3, <3>1
    <3>2. CASE k # l + 1
      <4>1. k \in 3..l /\ k \in 1..l /\ cs[i].id[k] \in Nat
        <5>1. Len(copy.id) = l + 1 /\ l \in Nat /\ \A q \in 1..l : cs[i].id[q] \in Nat
          BY <1>2, <1>3
        <5> HIDE DEF l
        <5>2. k \in 3..l /\ k \in 1..l
          BY <3>2, <5>1
        <5> QED  BY <5>1, <5>2
      <4>2. copy.id[k] = cs[i].id[k] /\ cs[i].id[k] <= n + 1
        BY <1>2, <1>3, <4>1
      <4> QED  BY <4>1, <4>2
    <3> QED  BY <3>1, <3>2
  <2>2. Len(copy.id) >= 2
    BY <1>2, <1>3
  <2> QED  BY <2>1, <2>2 DEF ClipsOf
<1>5. /\ ds \in Seq(ClipsOf(n + 1)) /\ Len(ds) = N + 1 /\ ds[N + 1] = copy
      /\ \A p \in 1..N : ds[p] = cs[p]
  BY <1>1, <1>4, AppendProperties
<1> HIDE DEF ds
<1>6. ASSUME NEW p \in 1..N  PROVE ~PieceOf(cs[p].id, copy.id) /\ ~PieceOf(copy.id, cs[p].id)
  <2> DEFINE id == cs[p].id
  <2>1. id \in Seq(Nat) /\ Len(id) \in Nat /\ \A k \in 3..Len(id) : id[k] <= n + 1
    BY <1>1, ClipFacts
  <2> HIDE DEF id
  <2>2. ASSUME Len(id) >= l + 1, id[l + 1] = copy.id[l + 1]  PROVE FALSE
    <3>1. l + 1 \in 3..Len(id)
      BY <1>2, <2>1, <2>2
    <3> QED  BY <1>3, <2>1, <2>2, <3>1
  <2>3. ~PieceOf(copy.id, id)
    <3>1. SUFFICES ASSUME PieceOf(copy.id, id) PROVE FALSE
      OBVIOUS
    <3>2. Len(id) <= l + 1
      BY <1>3, <3>1 DEF PieceOf
    <3>3. CASE Len(id) = l + 1
      <4>1. l + 1 \in 1..Len(id)
        BY <1>2, <3>3
      <4> QED  BY <2>2, <3>1, <3>3, <4>1 DEF PieceOf
    <3>4. CASE Len(id) # l + 1
      <4>1. l + 1 \in (Len(id) + 1)..Len(copy.id)
        BY <1>2, <1>3, <2>1, <3>2, <3>4
      <4> QED  BY <1>3, <3>1, <4>1 DEF PieceOf
    <3> QED  BY <3>3, <3>4
  <2>4. ~PieceOf(id, copy.id)
    <3>1. SUFFICES ASSUME PieceOf(id, copy.id) PROVE FALSE
      OBVIOUS
    <3>2. Len(id) >= l + 1 /\ l + 1 \in 1..Len(copy.id)
      BY <1>2, <1>3, <3>1, <2>1 DEF PieceOf
    <3> QED  BY <2>2, <3>1, <3>2 DEF PieceOf
  <2> QED  BY <2>3, <2>4 DEF id
<1>7. ASSUME NEW p \in 1..(N + 1), NEW q \in 1..(N + 1), PieceOf(ds[p].id, ds[q].id)
      PROVE  p = q
  <2>1. CASE p = N + 1 /\ q = N + 1
    BY <2>1
  <2>2. CASE p = N + 1 /\ q # N + 1
    <3>1. q \in 1..N
      <4>1. N \in Nat /\ q # N + 1
        BY <1>1, <2>2
      <4> HIDE DEF N
      <4> QED  BY <4>1
    <3> QED  BY <1>5, <1>6, <1>7, <2>2, <3>1
  <2>3. CASE p # N + 1 /\ q = N + 1
    <3>1. p \in 1..N
      <4>1. N \in Nat /\ p # N + 1
        BY <1>1, <2>3
      <4> HIDE DEF N
      <4> QED  BY <4>1
    <3> QED  BY <1>5, <1>6, <1>7, <2>3, <3>1
  <2>4. CASE p # N + 1 /\ q # N + 1
    <3>1. p \in 1..N
      <4>1. N \in Nat /\ p # N + 1
        BY <1>1, <2>4
      <4> HIDE DEF N
      <4> QED  BY <4>1
    <3>2. q \in 1..N
      <4>1. N \in Nat /\ q # N + 1
        BY <1>1, <2>4
      <4> HIDE DEF N
      <4> QED  BY <4>1
    <3> QED  BY <1>5, <1>7, <3>1, <3>2, ListFacts
  <2> QED  BY <2>1, <2>2, <2>3, <2>4
<1>8. DOMAIN ds = 1..(N + 1)
  BY <1>1, <1>5
<1>9. ds \in Lists(n + 1)
  BY <1>5, <1>7, <1>8 DEF Lists, Apart
<1> QED  BY <1>9 DEF ds

LEMMA PairList ==
  ASSUME NEW n \in Nat, NEW k \in Nat, NEW t \in Int, NEW u \in Int, NEW v \in Int, NEW w \in Int
  PROVE  << Clip(Fresh(k, 1), t, u), Clip(Fresh(k, 2), v, w) >> \in Lists(n)
<1> DEFINE a == Clip(Fresh(k, 1), t, u)
           b == Clip(Fresh(k, 2), v, w)
<1>1. /\ Fresh(k, 1) \in Seq(Nat) /\ Len(Fresh(k, 1)) = 2 /\ Fresh(k, 1)[2] = 2
      /\ Fresh(k, 2) \in Seq(Nat) /\ Len(Fresh(k, 2)) = 2 /\ Fresh(k, 2)[2] = 3
  BY DEF Fresh
<1>2. a \in ClipRecord /\ a.id = Fresh(k, 1) /\ b \in ClipRecord /\ b.id = Fresh(k, 2)
  BY <1>1 DEF Clip, ClipRecord
<1> HIDE DEF a, b
<1>3. a \in ClipsOf(n) /\ b \in ClipsOf(n)
  <2>1. /\ Len(a.id) >= 2 /\ \A l \in 3..Len(a.id) : a.id[l] <= n + 1
        /\ Len(b.id) >= 2 /\ \A l \in 3..Len(b.id) : b.id[l] <= n + 1
    <3>1. Len(a.id) = 2 /\ Len(b.id) = 2
      BY <1>1, <1>2
    <3> QED  BY <3>1
  <2> QED  BY <1>2, <2>1 DEF ClipsOf
<1>4. ~PieceOf(a.id, b.id) /\ ~PieceOf(b.id, a.id)
  BY <1>1, <1>2 DEF PieceOf
<1>5. /\ <<a, b>> \in Seq(ClipsOf(n)) /\ DOMAIN <<a, b>> = 1..2
      /\ <<a, b>>[1] = a /\ <<a, b>>[2] = b
  BY <1>3
<1>6. Apart(<<a, b>>)
  BY <1>4, <1>5 DEF Apart
<1> QED  BY <1>5, <1>6 DEF Lists, a, b

LEMMA FoundLists ==
  ASSUME NEW n \in Nat, NEW cs \in Found
  PROVE  cs \in Lists(n)
<1>1. CASE cs = <<>>
  BY <1>1 DEF Lists, Apart
<1>2. CASE cs = << Clip(Fresh(0, 1), 0, Duration) >>
  <2> DEFINE a == Clip(Fresh(0, 1), 0, Duration)
  <2>1. Fresh(0, 1) \in Seq(Nat) /\ Len(Fresh(0, 1)) = 2
    BY DEF Fresh
  <2>2. a \in ClipRecord /\ a.id = Fresh(0, 1)
    BY <2>1, TimelineAssumption DEF TimelineAssumption, Clip, ClipRecord
  <2> HIDE DEF a
  <2>3. a \in ClipsOf(n)
    <3>1. Len(a.id) = 2
      BY <2>1, <2>2
    <3>2. Len(a.id) >= 2 /\ \A l \in 3..Len(a.id) : a.id[l] <= n + 1
      BY <3>1
    <3> QED  BY <2>2, <3>2 DEF ClipsOf
  <2>4. <<a>> \in Seq(ClipsOf(n)) /\ Apart(<<a>>)
    BY <2>3 DEF Apart
  <2> QED  BY <1>2, <2>4 DEF Lists, a
<1>3. ASSUME NEW t \in Times \ {0, Duration},
             cs = << Clip(Fresh(0, 1), 0, t), Clip(Fresh(0, 2), t, Duration) >>
      PROVE  cs \in Lists(n)
  <2>1. t \in Int /\ Duration \in Int /\ 0 \in Int /\ 0 \in Nat
    BY TimelineAssumption DEF TimelineAssumption
  <2> QED  BY <1>3, <2>1, PairList
<1> QED  BY <1>1, <1>2, <1>3 DEF Found

-----------------------------------------------------------------------------
(***************************************************************************)
(* The editor: what an operation leaves of clips, histories and the rest.  *)
(***************************************************************************)
EditorRecord(n) ==
  [clips : Lists(n), selected : Seq(Nat), undo : Seq(Lists(n)), redo : Seq(Lists(n)),
   surface : SUBSET (1..n)]
Editors(n) == {ed \in EditorRecord(n) : Len(ed.undo) + Len(ed.redo) <= UndoDepth}

LEMMA EditorFacts ==
  ASSUME NEW n \in Nat, NEW ed \in Editors(n)
  PROVE  /\ ed \in EditorRecord(n) /\ ed.clips \in Lists(n) /\ ed.selected \in Seq(Nat)
         /\ ed.undo \in Seq(Lists(n)) /\ ed.redo \in Seq(Lists(n))
         /\ Len(ed.undo) \in Nat /\ Len(ed.redo) \in Nat
         /\ ed.surface \in SUBSET (1..n)
         /\ Len(ed.undo) + Len(ed.redo) <= UndoDepth
  BY DEF Editors, EditorRecord

LEMMA LatestIs ==
  ASSUME NEW A, NEW s \in Seq(A), NEW k \in Nat
  PROVE  /\ Latest(s, k) \in Seq(A) /\ Len(Latest(s, k)) \in Nat
         /\ Len(Latest(s, k)) = IF Len(s) <= k THEN Len(s) ELSE k
         /\ \A i \in 1..Len(Latest(s, k)) :
              Latest(s, k)[i] = s[Len(s) - Len(Latest(s, k)) + i]
<1> DEFINE from == Larger(1, Len(s) - k + 1)
           latest == Latest(s, k)
           l == Len(latest)
<1>1. Len(s) \in Nat /\ from \in 1..(Len(s) + 1)
  <2>1. Len(s) \in Nat
    OBVIOUS
  <2> DEFINE N == Len(s)
  <2> HIDE DEF N
  <2>2. N \in Nat
    BY <2>1 DEF N
  <2>3. Larger(1, N - k + 1) \in 1..(N + 1)
    BY <2>2 DEF Larger
  <2> QED  BY <2>1, <2>3 DEF N
<1>2. latest = SubSeq(s, from, Len(s))
  BY DEF Latest
<1>3. Len(s) - from + 1 = IF Len(s) <= k THEN Len(s) ELSE k
  <2> DEFINE N == Len(s)
  <2> HIDE DEF N
  <2>1. N \in Nat
    BY <1>1 DEF N
  <2>2. N - Larger(1, N - k + 1) + 1 = IF N <= k THEN N ELSE k
    BY <2>1 DEF Larger
  <2> QED  BY <2>2 DEF N
<1> HIDE DEF from, latest
<1>4. \A i \in from..Len(s) : s[i] \in A
  BY <1>1
<1>5. /\ latest \in Seq(A) /\ Len(latest) = IF from <= Len(s) THEN Len(s) - from + 1 ELSE 0
      /\ \A i \in 1..(Len(s) - from + 1) : latest[i] = s[from + i - 1]
  BY <1>1, <1>2, <1>4, SubSeqProperties
<1>6. l = Len(s) - from + 1
  BY <1>1, <1>5
<1>7. l = (IF Len(s) <= k THEN Len(s) ELSE k) /\ l \in Nat
  BY <1>1, <1>3, <1>6
<1>8. ASSUME NEW i \in 1..l  PROVE latest[i] = s[Len(s) - l + i]
  <2>1. from + i - 1 = Len(s) - l + i
    BY <1>1, <1>6
  <2> QED  BY <1>5, <1>6, <2>1
<1> QED  BY <1>5, <1>7, <1>8 DEF latest

\* A list put on top of what a limit leaves of a history.
LEMMA PushIs ==
  ASSUME NEW A, NEW s \in Seq(A), NEW x \in A, NEW depth \in Nat \ {0}
  PROVE  /\ Append(Latest(s, depth - 1), x) \in Seq(A)
         /\ Len(Append(Latest(s, depth - 1), x)) \in 1..depth
         /\ Len(Append(Latest(s, depth - 1), x)) <= Len(s) + 1
<1>1. depth - 1 \in Nat /\ Len(s) \in Nat
  OBVIOUS
<1> DEFINE latest == Latest(s, depth - 1)
<1>2. latest \in Seq(A) /\ Len(latest) = IF Len(s) <= depth - 1 THEN Len(s) ELSE depth - 1
  BY <1>1, LatestIs
<1> HIDE DEF latest
<1>3. Append(latest, x) \in Seq(A) /\ Len(Append(latest, x)) = Len(latest) + 1
  BY <1>2, AppendProperties
<1>4. Len(latest) + 1 \in 1..depth /\ Len(latest) + 1 <= Len(s) + 1
  BY <1>1, <1>2
<1> QED  BY <1>3, <1>4 DEF latest

LEMMA RestIs ==
  ASSUME NEW A, NEW s \in Seq(A), s # <<>>
  PROVE  /\ Rest(s) \in Seq(A) /\ Len(s) \in Nat /\ Len(s) >= 1 /\ Len(Rest(s)) = Len(s) - 1
         /\ \A i \in 1..(Len(s) - 1) : Rest(s)[i] = s[i]
         /\ Top(s) \in A /\ Top(s) = s[Len(s)]
<1>1. Len(s) \in Nat /\ Len(s) >= 1
  BY EmptySeq
<1>2. \A i \in 1..(Len(s) - 1) : s[i] \in A
  BY <1>1
<1>3. /\ Rest(s) \in Seq(A) /\ Len(Rest(s)) = IF 1 <= Len(s) - 1 THEN (Len(s) - 1) - 1 + 1 ELSE 0
      /\ \A i \in 1..((Len(s) - 1) - 1 + 1) : Rest(s)[i] = s[1 + i - 1]
  BY <1>1, <1>2, SubSeqProperties DEF Rest
<1>4. Len(Rest(s)) = Len(s) - 1
  <2> DEFINE N == Len(s)
  <2> HIDE DEF N
  <2>1. N \in Nat /\ N >= 1 /\ Len(Rest(s)) = IF 1 <= N - 1 THEN (N - 1) - 1 + 1 ELSE 0
    BY <1>1, <1>3 DEF N
  <2>2. Len(Rest(s)) = N - 1
    BY <2>1
  <2> QED  BY <2>2 DEF N
<1>5. ASSUME NEW i \in 1..(Len(s) - 1)  PROVE Rest(s)[i] = s[i]
  <2>1. i \in 1..((Len(s) - 1) - 1 + 1) /\ 1 + i - 1 = i
    BY <1>1
  <2> QED  BY <1>3, <2>1
<1>6. Top(s) \in A /\ Top(s) = s[Len(s)]
  BY <1>1 DEF Top
<1> QED  BY <1>1, <1>3, <1>4, <1>5, <1>6

LEMMA PushedIs ==
  ASSUME NEW n \in Nat, NEW ed \in Editors(n), NEW cs \in Lists(n)
  PROVE  /\ Pushed(ed, cs) \in Editors(n)
         /\ Pushed(ed, cs).clips = cs /\ Pushed(ed, cs).selected = ed.selected
         /\ Pushed(ed, cs).surface = ed.surface
<1> DEFINE undo == Append(Latest(ed.undo, UndoDepth - 1), ed.clips)
           a == [ed EXCEPT !.undo = undo]
           b == [a EXCEPT !.redo = <<>>]
           c == [b EXCEPT !.clips = cs]
<1>1. UndoDepth \in Nat \ {0}
  BY TimelineAssumption DEF TimelineAssumption
<1>2. undo \in Seq(Lists(n)) /\ Len(undo) \in 1..UndoDepth
  BY <1>1, EditorFacts, PushIs
<1>3. Pushed(ed, cs) = c
  BY EditorFacts DEF Pushed, EditorRecord
<1> HIDE DEF undo
<1>4. ed \in EditorRecord(n)
  BY EditorFacts
<1>5. /\ a \in EditorRecord(n) /\ a.undo = undo
      /\ a.selected = ed.selected /\ a.surface = ed.surface
  BY <1>2, <1>4 DEF EditorRecord
<1>0. <<>> \in Seq(Lists(n))
  OBVIOUS
<1> HIDE DEF a
<1>6. /\ b \in EditorRecord(n) /\ b.undo = undo /\ b.redo = <<>>
      /\ b.selected = ed.selected /\ b.surface = ed.surface
  BY <1>0, <1>5 DEF EditorRecord
<1> HIDE DEF b
<1>7. /\ c \in EditorRecord(n) /\ c.undo = undo /\ c.redo = <<>> /\ c.clips = cs
      /\ c.selected = ed.selected /\ c.surface = ed.surface
  BY <1>6 DEF EditorRecord
<1> HIDE DEF c
<1>8. Len(c.undo) + Len(c.redo) <= UndoDepth
  BY <1>1, <1>2, <1>7
<1>9. c \in Editors(n)
  BY <1>7, <1>8 DEF Editors
<1> QED  BY <1>3, <1>7, <1>9

LEMMA ClipsIs ==
  ASSUME NEW n \in Nat, NEW ed \in Editors(n), NEW cs \in Lists(n)
  PROVE  /\ [ed EXCEPT !.clips = cs] \in Editors(n)
         /\ [ed EXCEPT !.clips = cs].surface = ed.surface
         /\ [ed EXCEPT !.clips = cs].clips = cs
<1> DEFINE a == [ed EXCEPT !.clips = cs]
<1>1. /\ a \in EditorRecord(n) /\ a.undo = ed.undo /\ a.redo = ed.redo
      /\ a.surface = ed.surface /\ a.clips = cs
  BY EditorFacts DEF EditorRecord
<1> HIDE DEF a
<1>2. a \in Editors(n)
  BY <1>1, EditorFacts DEF Editors
<1> QED  BY <1>1, <1>2 DEF a

LEMMA SelectedIs ==
  ASSUME NEW n \in Nat, NEW ed \in Editors(n), NEW id \in Seq(Nat)
  PROVE  /\ [ed EXCEPT !.selected = id] \in Editors(n)
         /\ [ed EXCEPT !.selected = id].surface = ed.surface
         /\ [ed EXCEPT !.selected = id].clips = ed.clips
         /\ [ed EXCEPT !.selected = id].selected = id
<1> DEFINE a == [ed EXCEPT !.selected = id]
<1>1. /\ a \in EditorRecord(n) /\ a.undo = ed.undo /\ a.redo = ed.redo
      /\ a.surface = ed.surface /\ a.clips = ed.clips /\ a.selected = id
  BY EditorFacts DEF EditorRecord
<1> HIDE DEF a
<1>2. a \in Editors(n)
  BY <1>1, EditorFacts DEF Editors
<1> QED  BY <1>1, <1>2 DEF a

LEMMA DeselectedIs ==
  ASSUME NEW n \in Nat, NEW ed \in Editors(n), NEW id
  PROVE  /\ Deselected(ed, id) \in Editors(n) /\ Deselected(ed, id).surface = ed.surface
         /\ Deselected(ed, id).clips = ed.clips
<1> DEFINE sel == IF ed.selected = id THEN NoClip ELSE ed.selected
<1>1. sel \in Seq(Nat)
  <2>1. ed.selected \in Seq(Nat)
    BY EditorFacts
  <2>2. NoClip \in Seq(Nat)
    BY DEF NoClip
  <2> QED  BY <2>1, <2>2
<1>2. Deselected(ed, id) = [ed EXCEPT !.selected = sel]
  BY DEF Deselected
<1> HIDE DEF sel
<1> QED  BY <1>1, <1>2, SelectedIs

LEMMA EditorsGrow ==
  ASSUME NEW n \in Nat, NEW k \in Nat, k >= n  PROVE Editors(n) \subseteq Editors(k)
<1>1. Lists(n) \subseteq Lists(k) /\ 1..n \subseteq 1..k
  BY ListsGrow
<1>2. Seq(Lists(n)) \subseteq Seq(Lists(k))
  BY <1>1, SeqMonotonic
<1> HIDE DEF Lists
<1>3. EditorRecord(n) \subseteq EditorRecord(k)
  BY <1>1, <1>2 DEF EditorRecord
<1> QED  BY <1>3 DEF Editors

TargetIs(ed) == Target(ed) # 0 => Target(ed) \in 1..Len(ed.clips)

LEMMA TargetFacts ==
  ASSUME NEW n \in Nat, NEW ed \in Editors(n)
  PROVE  TargetIs(ed)
<1>1. ed.clips \in Lists(n)
  BY EditorFacts
<1>2. ed.clips \in Seq(ClipsOf(n)) /\ Len(ed.clips) \in Nat
  BY <1>1, ListFacts
<1>3. CASE ed.selected # NoClip
  BY <1>1, <1>3, FindIs DEF Target, TargetIs
<1>4. CASE ed.selected = NoClip
  <2>1. ed.clips # <<>> => 1 \in 1..Len(ed.clips)
    BY <1>2, EmptySeq
  <2> QED  BY <1>4, <2>1 DEF Target, TargetIs
<1> QED  BY <1>3, <1>4

LEMMA SplitIs ==
  ASSUME NEW n \in Nat, NEW ed \in Editors(n), NEW t \in Int
  PROVE  /\ Split(ed, t) \in Editors(n) /\ Split(ed, t).surface = ed.surface
         /\ MaySplit(ed, t) =>
              /\ Target(ed) \in 1..Len(ed.clips)
              /\ Split(ed, t).clips = Cut(ed.clips, Target(ed), t)
              /\ Split(ed, t).selected = Append(ed.clips[Target(ed)].id, 0)
         /\ ~MaySplit(ed, t) => Split(ed, t) = ed
<1>1. CASE ~MaySplit(ed, t)
  BY <1>1 DEF Split
<1>2. CASE MaySplit(ed, t)
  <2> DEFINE i == Target(ed)
             cut == Cut(ed.clips, i, t)
             id == Halves(ed.clips[i], t)[1].id
             p == Pushed(ed, cut)
  <2>1. i \in 1..Len(ed.clips)
    BY <1>2, TargetFacts DEF MaySplit, TargetIs
  <2>2. Split(ed, t) = [p EXCEPT !.selected = id]
    BY <1>2 DEF Split, Cut
  <2> HIDE DEF i
  <2>3. ed.clips \in Lists(n) /\ ed.clips[i] \in ClipsOf(n)
    BY <2>1, EditorFacts, ListFacts
  <2>4. cut \in Lists(n)
    BY <2>1, <2>3, SplitList
  <2>5. id = Append(ed.clips[i].id, 0) /\ id \in Seq(Nat)
    <3>1. ed.clips[i].id \in Seq(Nat) /\ 0 \in Nat
      BY <2>3, ClipFacts
    <3>2. Append(ed.clips[i].id, 0) \in Seq(Nat)
      BY <3>1, AppendProperties
    <3> DEFINE h == Halves(ed.clips[i], t)
    <3>3. HalvesOf(n, ed.clips[i], t, h)
      BY <2>3, HalvesAre
    <3> HIDE DEF h
    <3> QED  BY <3>2, <3>3 DEF HalvesOf, h
  <2> HIDE DEF cut, id
  <2>6. p \in Editors(n) /\ p.clips = cut /\ p.surface = ed.surface
    BY <2>4, PushedIs
  <2> HIDE DEF p
  <2>7. /\ Split(ed, t) \in Editors(n) /\ Split(ed, t).surface = ed.surface
        /\ Split(ed, t).clips = cut /\ Split(ed, t).selected = id
    <3>1. id \in Seq(Nat)
      BY <2>5
    <3> QED  BY <2>2, <2>6, <3>1, SelectedIs
  <2> QED  BY <1>2, <2>1, <2>5, <2>7 DEF cut, i
<1> QED  BY <1>1, <1>2

LEMMA DeleteIs ==
  ASSUME NEW n \in Nat, NEW ed \in Editors(n), NEW id
  PROVE  Delete(ed, id) \in Editors(n) /\ Delete(ed, id).surface = ed.surface
<1> DEFINE p == Pushed(ed, Without(ed.clips, id))
<1>1. Without(ed.clips, id) \in Lists(n)
  BY EditorFacts, KeptList DEF Without
<1>2. p \in Editors(n) /\ p.surface = ed.surface
  BY <1>1, PushedIs
<1>3. Delete(ed, id) = Deselected(p, id)
  BY DEF Delete
<1> HIDE DEF p
<1> QED  BY <1>2, <1>3, DeselectedIs

LEMMA RippleDeleteIs ==
  ASSUME NEW n \in Nat, NEW ed \in Editors(n), NEW id
  PROVE  /\ RippleDelete(ed, id) \in Editors(n) /\ RippleDelete(ed, id).surface = ed.surface
         /\ RippleDelete(ed, id).clips =
              IF id \in Ids(ed.clips) THEN Closed(ed.clips, id) ELSE ed.clips
<1>1. CASE id \notin Ids(ed.clips)
  BY <1>1 DEF RippleDelete
<1>2. CASE id \in Ids(ed.clips)
  <2> DEFINE p == Pushed(ed, Closed(ed.clips, id))
  <2>1. Closed(ed.clips, id) \in Lists(n)
    BY <1>2, EditorFacts, ClosedList
  <2>2. p \in Editors(n) /\ p.surface = ed.surface /\ p.clips = Closed(ed.clips, id)
    BY <2>1, PushedIs
  <2>3. RippleDelete(ed, id) = Deselected(p, id)
    BY <1>2 DEF RippleDelete
  <2> HIDE DEF p
  <2> QED  BY <1>2, <2>2, <2>3, DeselectedIs
<1> QED  BY <1>1, <1>2

LEMMA UpdatedIs ==
  ASSUME NEW n \in Nat, NEW ed \in Editors(n), NEW id, NEW t \in Int, NEW u \in Int
  PROVE  Updated(ed, id, t, u) \in Editors(n) /\ Updated(ed, id, t, u).surface = ed.surface
<1> DEFINE cs == [k \in DOMAIN ed.clips |-> IF ed.clips[k].id = id
                    THEN [ed.clips[k] EXCEPT !.start = t, !.end = u] ELSE ed.clips[k]]
<1>1. ed.clips \in Lists(n)
  BY EditorFacts
<1>2. cs \in Lists(n)
  BY <1>1, UpdatedList
<1>3. Updated(ed, id, t, u) = [ed EXCEPT !.clips = cs]
  BY DEF Updated
<1> HIDE DEF cs
<1> QED  BY <1>2, <1>3, ClipsIs

\* Every clip of a list is deleted, one after the other.
Deleting(f, V, ed, cs) ==
  /\ f \in [0..Len(cs) -> V]
  /\ f[0] = ed
  /\ \A k \in 1..Len(cs) : f[k] = RippleDelete(f[k - 1], cs[k].id)
  /\ EachDeleted(ed, cs) = f[Len(cs)]

LEMMA EachDeletedIs ==
  ASSUME NEW n \in Nat, NEW ed \in Editors(n), NEW cs, Len(cs) \in Nat
  PROVE  \E f : Deleting(f, Editors(n), ed, cs)
<1> DEFINE V == Editors(n)
           after[k \in 0..Len(cs)] ==
             IF k = 0 THEN ed ELSE RippleDelete(after[k - 1], cs[k].id)
           step == [k \in 1..Len(cs) |-> [v \in V |-> RippleDelete(v, cs[k].id)]]
<1>1. EachDeleted(ed, cs) = after[Len(cs)]
  BY DEF EachDeleted
<1> HIDE DEF after, V
<1>2. \A k \in 1..Len(cs), v \in V :
        step[k][v] = RippleDelete(v, cs[k].id) /\ step[k][v] \in V
  BY RippleDeleteIs DEF V
<1> HIDE DEF step
<1>3. ed \in V
  BY DEF V
<1>4. PICK f : Runs(f, Len(cs), V, ed, step)
  BY <1>2, <1>3, Iterates
<1>5. /\ f \in [0..Len(cs) -> V] /\ f[0] = ed
      /\ \A k \in 1..Len(cs) : f[k] = RippleDelete(f[k - 1], cs[k].id)
      /\ f = [k \in 0..Len(cs) |-> f[k]]
  <2>1. f \in [0..Len(cs) -> V] /\ f[0] = ed
    BY <1>4 DEF Runs
  <2>2. ASSUME NEW k \in 1..Len(cs)  PROVE f[k] = RippleDelete(f[k - 1], cs[k].id)
    <3>1. k - 1 \in 0..Len(cs)
      OBVIOUS
    <3>2. f[k - 1] \in V
      BY <2>1, <3>1
    <3>3. f[k] = step[k][f[k - 1]]
      BY <1>4 DEF Runs
    <3> QED  BY <1>2, <3>2, <3>3
  <2> QED  BY <2>1, <2>2
<1>6. f = [k \in 0..Len(cs) |-> IF k = 0 THEN ed ELSE RippleDelete(f[k - 1], cs[k].id)]
  <2>1. \A k \in 0..Len(cs) : k # 0 => k \in 1..Len(cs)
    OBVIOUS
  <2> QED  BY <1>5, <2>1
<1>7. after = [k \in 0..Len(cs) |-> IF k = 0 THEN ed ELSE RippleDelete(after[k - 1], cs[k].id)]
  BY <1>6 DEF after
<1>8. after[0] = ed
  BY <1>7
<1>9. ASSUME NEW k \in 1..Len(cs)  PROVE after[k] = RippleDelete(after[k - 1], cs[k].id)
  <2>1. k \in 0..Len(cs) /\ k # 0
    OBVIOUS
  <2> QED  BY <1>7, <2>1
<1>10. \A k \in 0..Len(cs) : after[k] \in V
  <2>1. ASSUME NEW k \in 1..Len(cs), after[k - 1] \in V  PROVE after[k] \in V
    BY <1>9, <2>1, RippleDeleteIs DEF V
  <2> QED  BY <1>3, <1>8, <2>1, Carried
<1>11. after \in [0..Len(cs) -> V]
  BY <1>7, <1>10
<1>12. Deleting(after, V, ed, cs)
  BY <1>1, <1>8, <1>9, <1>11 DEF Deleting
<1> QED  BY <1>12 DEF V

LEMMA EachDeletedKeeps ==
  ASSUME NEW n \in Nat, NEW ed \in Editors(n), NEW cs, Len(cs) \in Nat
  PROVE  EachDeleted(ed, cs) \in Editors(n) /\ EachDeleted(ed, cs).surface = ed.surface
<1>1. PICK f : Deleting(f, Editors(n), ed, cs)
  BY EachDeletedIs
<1> DEFINE V == {e \in Editors(n) : e.surface = ed.surface}
<1>2. f[0] \in V
  BY <1>1 DEF Deleting
<1>3. ASSUME NEW k \in 1..Len(cs), f[k - 1] \in V  PROVE f[k] \in V
  BY <1>1, <1>3, RippleDeleteIs DEF Deleting
<1> HIDE DEF V
<1>4. \A k \in 0..Len(cs) : f[k] \in V
  BY <1>2, <1>3, Carried
<1>5. f[Len(cs)] \in V
  BY <1>4
<1> QED  BY <1>1, <1>5 DEF Deleting, V

LEMMA DeleteRangeIs ==
  ASSUME NEW n \in Nat, NEW ed \in Editors(n), NEW t \in Int, NEW u \in Int
  PROVE  /\ DeleteRange(ed, t, u) \in Editors(n)
         /\ DeleteRange(ed, t, u).surface = ed.surface
<1> DEFINE first == Split(ed, t)
           cut == Split(first, u)
           inside == Inside(cut.clips, t, u)
<1>1. DeleteRange(ed, t, u) = EachDeleted(cut, inside)
  BY DEF DeleteRange
<1>2. first \in Editors(n) /\ first.surface = ed.surface
  BY SplitIs
<1> HIDE DEF first
<1>3. cut \in Editors(n) /\ cut.surface = ed.surface
  BY <1>2, SplitIs
<1> HIDE DEF cut
<1>4. inside \in Lists(n)
  BY <1>3, EditorFacts, KeptList DEF Inside
<1>5. Len(inside) \in Nat
  BY <1>4, ListFacts
<1> HIDE DEF inside
<1> QED  BY <1>1, <1>3, <1>5, EachDeletedKeeps

-----------------------------------------------------------------------------
(***************************************************************************)
(* The assistant: no tool takes anything off the surface.                  *)
(***************************************************************************)
After(n, ed) == {e \in Editors(n) : ed.surface \subseteq e.surface}

LEMMA SurfacedIs ==
  ASSUME NEW n \in Nat \ {0}, NEW ed \in Editors(n)
  PROVE  [ed EXCEPT !.surface = @ \union {n}] \in After(n, ed)
<1> DEFINE s == ed.surface \union {n}
           a == [ed EXCEPT !.surface = s]
<1>1. s \in SUBSET (1..n)
  <2>1. ed.surface \in SUBSET (1..n)
    BY EditorFacts
  <2>2. {n} \in SUBSET (1..n)
    OBVIOUS
  <2> QED  BY <2>1, <2>2
<1>0. ed \in EditorRecord(n) /\ ed.surface \subseteq s
  BY EditorFacts
<1> HIDE DEF s
<1>2. a \in EditorRecord(n) /\ a.undo = ed.undo /\ a.redo = ed.redo /\ a.surface = s
  BY <1>0, <1>1 DEF EditorRecord
<1>3. [ed EXCEPT !.surface = @ \union {n}] = a
  BY DEF s
<1> HIDE DEF a
<1>4. a \in Editors(n)
  BY <1>2, EditorFacts DEF Editors
<1> QED  BY <1>0, <1>2, <1>3, <1>4 DEF After

LEMMA KnownIds ==
  ASSUME NEW n \in Nat, NEW old \in Editors(n), NEW id \in Known(old)
  PROVE  id \in Seq(Nat)
<1>1. old.clips \in Lists(n)
  BY EditorFacts
<1>2. PICK i \in 1..Len(old.clips) : old.clips[i].id = id
  BY <1>1, ListFacts DEF Known, Ids
<1>3. old.clips[i] \in ClipsOf(n)
  BY <1>1, ListFacts
<1> QED  BY <1>2, <1>3, ClipFacts

LEMMA CutPoints ==
  /\ Times \subseteq Int /\ Times \subseteq Nat /\ Duration \in Int
  /\ \A d \in Deltas : d \in Int
  BY TimelineAssumption DEF TimelineAssumption, Deltas

Silent(ed, n, gap) ==
  [ed EXCEPT !.clips = << Clip(Fresh(n, 1), 0, gap[1]), Clip(Fresh(n, 2), gap[2], Duration) >>,
             !.surface = @ \union {n}]

LEMMA SilenceIs ==
  ASSUME NEW n \in Nat \ {0}, NEW ed \in Editors(n), NEW gap \in Gaps
  PROVE  Silent(ed, n, gap) \in After(n, ed)
<1> DEFINE cs == << Clip(Fresh(n, 1), 0, gap[1]), Clip(Fresh(n, 2), gap[2], Duration) >>
           a == [ed EXCEPT !.clips = cs]
           b == [a EXCEPT !.surface = @ \union {n}]
<1>1. gap[1] \in Int /\ gap[2] \in Int /\ Duration \in Int /\ 0 \in Int
  <2>1. gap \in Times \X Times
    BY DEF Gaps
  <2>2. gap[1] \in Times /\ gap[2] \in Times
    BY <2>1
  <2>3. \A t \in Times : t \in Int
    BY CutPoints
  <2>4. gap[1] \in Int /\ gap[2] \in Int
    BY <2>2, <2>3
  <2>5. Duration \in Int
    BY CutPoints
  <2> QED  BY <2>4, <2>5
<1>2. cs \in Lists(n)
  BY <1>1, PairList
<1>3. Silent(ed, n, gap) = b
  BY EditorFacts DEF EditorRecord, Silent
<1> HIDE DEF cs
<1>4. a \in Editors(n) /\ a.surface = ed.surface
  BY <1>2, ClipsIs
<1> HIDE DEF a
<1>5. b \in After(n, a)
  BY <1>4, SurfacedIs
<1> HIDE DEF b
<1> QED  BY <1>3, <1>4, <1>5 DEF After

LEMMA CalledKeeps ==
  ASSUME NEW n \in Nat \ {0}, NEW ed \in Editors(n), NEW old \in Editors(n),
         NEW tool \in ToolNames, NEW e \in Called(tool, ed, old, n)
  PROVE  e \in After(n, ed)
<1>1. ASSUME e \in Editors(n), e.surface = ed.surface  PROVE e \in After(n, ed)
  BY <1>1 DEF After
<1>2. CASE e = ed
  BY <1>1, <1>2
<1>3. CASE e \in Splits(ed)
  <2>1. PICK t \in Times : e = Split(ed, t)
    BY <1>3 DEF Splits
  <2>2. t \in Int
    BY CutPoints
  <2> QED  BY <1>1, <2>1, <2>2, SplitIs
<1>4. CASE e \in Deletes(ed, old)
  <2>1. PICK id : e = Delete(ed, id)
    BY <1>4 DEF Deletes
  <2> QED  BY <1>1, <2>1, DeleteIs
<1>5. CASE e \in Selects(ed, old)
  <2>1. PICK id \in Known(old) : e = [ed EXCEPT !.selected = id]
    BY <1>5 DEF Selects
  <2>2. id \in Seq(Nat)
    BY KnownIds
  <2> QED  BY <1>1, <2>1, <2>2, SelectedIs
<1>6. CASE e \in RippleTrims(ed)
  <2>0. ed.clips \in Lists(n)
    BY EditorFacts
  <2>1. \E cs \in Lists(n) : e = Pushed(ed, cs)
    <3>1. CASE \E id \in Ids(ed.clips), d \in Deltas : e = Pushed(ed, TrimmedOut(ed.clips, id, d))
      BY <2>0, <3>1, CutPoints, TrimmedOutList
    <3>2. CASE \E id \in Ids(ed.clips), d \in Deltas : e = Pushed(ed, TrimmedIn(ed.clips, id, d))
      BY <2>0, <3>2, CutPoints, TrimmedInList
    <3> QED  BY <1>6, <3>1, <3>2 DEF RippleTrims
  <2> QED  BY <1>1, <2>1, PushedIs
<1>7. CASE e \in Slips(ed, old)
  <2>1. e = Pushed(ed, ed.clips) /\ ed.clips \in Lists(n)
    BY <1>7, EditorFacts DEF Slips
  <2> QED  BY <1>1, <2>1, PushedIs
<1>8. CASE e \in RippleDeletes(ed, old)
  <2>1. PICK id : e = RippleDelete(ed, id)
    BY <1>8 DEF RippleDeletes
  <2> QED  BY <1>1, <2>1, RippleDeleteIs
<1>9. CASE e \in Silences(ed, n)
  <2>1. PICK gap \in Gaps : e = Silent(ed, n, gap)
    BY <1>9 DEF Silences, Silent
  <2> QED  BY <2>1, SilenceIs
<1>10. CASE e = [ed EXCEPT !.surface = @ \union {n}]
  BY <1>10, SurfacedIs
<1>11. \/ tool = "split" \/ tool = "delete" \/ tool = "select" \/ tool = "rippleTrim"
       \/ tool = "slip" \/ tool = "rippleDelete" \/ tool = "silences" \/ tool = "surface"
  BY DEF ToolNames
<1> QED
  <2>1. CASE tool = "split"
    BY <1>2, <1>3, <2>1 DEF Called
  <2>2. CASE tool = "delete"
    BY <1>2, <1>4, <2>2 DEF Called
  <2>3. CASE tool = "select"
    BY <1>2, <1>5, <2>3 DEF Called
  <2>4. CASE tool = "rippleTrim"
    BY <1>2, <1>6, <2>4 DEF Called
  <2>5. CASE tool = "slip"
    BY <1>2, <1>7, <2>5 DEF Called
  <2>6. CASE tool = "rippleDelete"
    BY <1>2, <1>8, <2>6 DEF Called
  <2>7. CASE tool = "silences"
    BY <1>2, <1>9, <2>7 DEF Called
  <2>8. CASE tool = "surface"
    BY <1>2, <1>10, <2>8 DEF Called
  <2> QED  BY <1>11, <2>1, <2>2, <2>3, <2>4, <2>5, <2>6, <2>7, <2>8

\* A batch of tools, one after the other, each on every editor the ones
\* before it may have left.
Running(f, V, tools, ed, n) ==
  /\ f \in [0..Len(tools) -> V]
  /\ f[0] = {ed}
  /\ \A k \in 1..Len(tools) : f[k] = UNION {Called(tools[k], e, ed, n) : e \in f[k - 1]}
  /\ Dispatched(tools, ed, n) = f[Len(tools)]

LEMMA CallsStay ==
  ASSUME NEW n \in Nat \ {0}, NEW ed \in Editors(n), NEW tool \in ToolNames,
         NEW v \in SUBSET After(n, ed)
  PROVE  UNION {Called(tool, e, ed, n) : e \in v} \in SUBSET After(n, ed)
<1> SUFFICES ASSUME NEW e \in v, NEW x \in Called(tool, e, ed, n)  PROVE x \in After(n, ed)
  OBVIOUS
<1>1. e \in Editors(n) /\ ed.surface \subseteq e.surface
  BY DEF After
<1>2. x \in After(n, e)
  BY <1>1, CalledKeeps
<1> QED  BY <1>1, <1>2 DEF After

LEMMA DispatchedIs ==
  ASSUME NEW n \in Nat \ {0}, NEW ed \in Editors(n), NEW tools \in Seq(ToolNames)
  PROVE  \E f : Running(f, SUBSET After(n, ed), tools, ed, n)
<1> DEFINE V == SUBSET After(n, ed)
           next(k, v) == UNION {Called(tools[k], e, ed, n) : e \in v}
           after[k \in 0..Len(tools)] ==
             IF k = 0 THEN {ed} ELSE UNION {Called(tools[k], e, ed, n) : e \in after[k - 1]}
           step == [k \in 1..Len(tools) |-> [v \in V |-> next(k, v)]]
<1>0. Len(tools) \in Nat /\ \A k \in 1..Len(tools) : tools[k] \in ToolNames
  OBVIOUS
<1>1. Dispatched(tools, ed, n) = after[Len(tools)]
  BY DEF Dispatched
<1> HIDE DEF after
<1>2. \A k \in 1..Len(tools), v \in V : step[k][v] = next(k, v) /\ next(k, v) \in V
  <2> HIDE DEF V, next
  <2>1. ASSUME NEW k \in 1..Len(tools), NEW v \in V  PROVE next(k, v) \in V
    BY <1>0, CallsStay DEF V, next
  <2> QED  BY <2>1
<1> HIDE DEF step
<1>3. {ed} \in V
  BY DEF After
<1> HIDE DEF V
<1>4. PICK f : Runs(f, Len(tools), V, {ed}, step)
  <2> HIDE DEF next
  <2> QED  BY <1>0, <1>2, <1>3, Iterates
<1>5. /\ f \in [0..Len(tools) -> V] /\ f[0] = {ed}
      /\ \A k \in 1..Len(tools) : f[k] = next(k, f[k - 1])
      /\ f = [k \in 0..Len(tools) |-> f[k]]
  <2> HIDE DEF next
  <2>1. f \in [0..Len(tools) -> V] /\ f[0] = {ed}
    BY <1>4 DEF Runs
  <2>2. ASSUME NEW k \in 1..Len(tools)  PROVE f[k] = next(k, f[k - 1])
    <3>1. k - 1 \in 0..Len(tools)
      BY <1>0
    <3>2. f[k - 1] \in V
      BY <2>1, <3>1
    <3>3. f[k] = step[k][f[k - 1]]
      BY <1>4 DEF Runs
    <3> QED  BY <1>2, <3>2, <3>3
  <2> QED  BY <2>1, <2>2
<1>6. f = [k \in 0..Len(tools) |-> IF k = 0 THEN {ed} ELSE next(k, f[k - 1])]
  <2> HIDE DEF next
  <2>1. \A k \in 0..Len(tools) : k # 0 => k \in 1..Len(tools)
    BY <1>0
  <2> QED  BY <1>5, <2>1
<1>7. after = [k \in 0..Len(tools) |-> IF k = 0 THEN {ed} ELSE next(k, after[k - 1])]
  BY <1>6 DEF after
<1> HIDE DEF next
<1>8. after[0] = {ed}
  BY <1>0, <1>7
<1>9. ASSUME NEW k \in 1..Len(tools)  PROVE after[k] = next(k, after[k - 1])
  <2>1. k \in 0..Len(tools) /\ k # 0
    BY <1>0
  <2> QED  BY <1>7, <2>1
<1>10. \A k \in 0..Len(tools) : after[k] \in V
  <2>1. ASSUME NEW k \in 1..Len(tools), after[k - 1] \in V  PROVE after[k] \in V
    BY <1>2, <1>9, <2>1
  <2> QED  BY <1>0, <1>3, <1>8, <2>1, Carried
<1>11. after \in [0..Len(tools) -> V]
  BY <1>7, <1>10
<1>12. Running(after, V, tools, ed, n)
  BY <1>1, <1>8, <1>9, <1>11 DEF Running, next
<1> QED  BY <1>12 DEF V

LEMMA DispatchedKeeps ==
  ASSUME NEW n \in Nat \ {0}, NEW ed \in Editors(n), NEW tools \in Seq(ToolNames),
         NEW e \in Dispatched(tools, ed, n)
  PROVE  e \in Editors(n) /\ ed.surface \subseteq e.surface
<1>1. PICK f : Running(f, SUBSET After(n, ed), tools, ed, n)
  BY DispatchedIs
<1>2. Len(tools) \in 0..Len(tools)
  OBVIOUS
<1>3. Dispatched(tools, ed, n) \in SUBSET After(n, ed)
  BY <1>1, <1>2 DEF Running
<1> QED  BY <1>3 DEF After

LEMMA BatchesAre ==
  ASSUME NEW tools \in Batches(Direct) \union Batches(Tools)
  PROVE  tools \in Seq(ToolNames)
<1>1. Direct \subseteq ToolNames /\ Tools \subseteq ToolNames
  BY TimelineAssumption DEF TimelineAssumption
<1>2. ASSUME NEW S \in SUBSET ToolNames, tools \in Batches(S)  PROVE tools \in Seq(ToolNames)
  <2>1. PICK k \in 1..MaxBatch : tools \in [1..k -> S]
    BY <1>2 DEF Batches
  <2> QED  BY <1>2, <2>1, FunctionIsSeq, TimelineAssumption DEF TimelineAssumption
<1> QED  BY <1>1, <1>2

-----------------------------------------------------------------------------
(***************************************************************************)
(* The assistant's snapshots, and the order of their surfaces.             *)
(***************************************************************************)
Snapshots(n) == [clips : Lists(n), surface : SUBSET (1..n)]
Stacks(n) == {h \in [undo : Seq(Snapshots(n)), redo : Seq(Snapshots(n))] :
                Len(h.undo) + Len(h.redo) <= AiDepth}

Below(a, b, up) == IF up THEN a \subseteq b ELSE b \subseteq a
Chained(s, up) == \A k \in 1..(Len(s) - 1) : Below(s[k].surface, s[k + 1].surface, up)

\* A history of snapshots on one side of an editor with this surface.
Leads(s, surface, up) ==
  Chained(s, up) /\ (s # <<>> => Below(s[Len(s)].surface, surface, up))

LEMMA StackFacts ==
  ASSUME NEW n \in Nat, NEW h \in Stacks(n)
  PROVE  /\ h.undo \in Seq(Snapshots(n)) /\ h.redo \in Seq(Snapshots(n))
         /\ Len(h.undo) \in Nat /\ Len(h.redo) \in Nat
         /\ Len(h.undo) + Len(h.redo) <= AiDepth
         /\ h = [undo |-> h.undo, redo |-> h.redo]
  BY DEF Stacks

LEMMA StacksGrow ==
  ASSUME NEW n \in Nat, NEW k \in Nat, k >= n  PROVE Stacks(n) \subseteq Stacks(k)
<1>1. Lists(n) \subseteq Lists(k) /\ 1..n \subseteq 1..k
  BY ListsGrow
<1> HIDE DEF Lists
<1>2. Snapshots(n) \subseteq Snapshots(k)
  BY <1>1 DEF Snapshots
<1>3. Seq(Snapshots(n)) \subseteq Seq(Snapshots(k))
  BY <1>2, SeqMonotonic
<1> QED  BY <1>3 DEF Stacks

LEMMA SnapshotIs ==
  ASSUME NEW n \in Nat, NEW ed \in Editors(n)
  PROVE  Snapshot(ed) \in Snapshots(n) /\ Snapshot(ed).surface = ed.surface
  BY EditorFacts DEF Snapshot, Snapshots

LEMMA PushChained ==
  ASSUME NEW A, NEW s \in Seq(A), NEW x \in A, NEW depth \in Nat \ {0}, NEW up,
         Leads(s, x.surface, up)
  PROVE  /\ Append(Latest(s, depth - 1), x) # <<>>
         /\ Chained(Append(Latest(s, depth - 1), x), up)
         /\ LET t == Append(Latest(s, depth - 1), x) IN t[Len(t)] = x
<1> DEFINE latest == Latest(s, depth - 1)
           t == Append(latest, x)
           l == Len(latest)
           N == Len(s)
<1>1. depth - 1 \in Nat /\ N \in Nat
  OBVIOUS
<1>2. /\ latest \in Seq(A) /\ l \in Nat /\ l <= N
      /\ \A i \in 1..l : latest[i] = s[N - l + i]
  <2>1. /\ latest \in Seq(A) /\ l \in Nat /\ l = (IF N <= depth - 1 THEN N ELSE depth - 1)
        /\ \A i \in 1..l : latest[i] = s[N - l + i]
    BY <1>1, LatestIs
  <2> HIDE DEF latest, l, N
  <2> QED  BY <1>1, <2>1
<1> HIDE DEF latest
<1>3. /\ t \in Seq(A) /\ Len(t) = l + 1 /\ t[l + 1] = x
      /\ \A i \in 1..l : t[i] = latest[i]
  BY <1>2, AppendProperties
<1>4. t # <<>>
  BY <1>2, <1>3
<1> HIDE DEF t, l, N
<1>5. ASSUME NEW k \in 1..l  PROVE Below(t[k].surface, t[k + 1].surface, up)
  <2>1. t[k] = s[N - l + k] /\ N - l + k \in 1..N
    BY <1>1, <1>2, <1>3
  <2>2. CASE k = l
    <3>1. t[k + 1] = x /\ t[k] = s[N] /\ s # <<>>
      <4>1. N - l + k = N /\ N >= 1
        BY <1>1, <1>2, <2>1, <2>2
      <4>2. s # <<>>
        BY <4>1 DEF N
      <4> QED  BY <1>3, <2>1, <2>2, <4>1, <4>2
    <3> QED  BY <3>1 DEF Leads, N
  <2>3. CASE k # l
    <3>1. k + 1 \in 1..l /\ N - l + k \in 1..(N - 1) /\ (N - l + k) + 1 = N - l + (k + 1)
      BY <1>1, <1>2, <2>3
    <3>2. t[k + 1] = s[(N - l + k) + 1]
      BY <1>2, <1>3, <3>1
    <3> QED  BY <2>1, <3>1, <3>2 DEF Leads, Chained, N
  <2> QED  BY <2>2, <2>3
<1>6. Chained(t, up)
  <2>1. (Len(t) - 1) = l
    BY <1>2, <1>3
  <2> QED  BY <1>5, <2>1 DEF Chained
<1> QED  BY <1>3, <1>4, <1>6 DEF t, latest

LEMMA RestChained ==
  ASSUME NEW A, NEW s \in Seq(A), s # <<>>, NEW up, Chained(s, up)
  PROVE  Leads(Rest(s), Top(s).surface, up)
<1> DEFINE N == Len(s)
           r == Rest(s)
<1>1. /\ N \in Nat /\ N >= 1 /\ Len(r) = N - 1 /\ r \in Seq(A)
      /\ \A i \in 1..(N - 1) : r[i] = s[i]
      /\ Top(s) = s[N]
  BY RestIs
<1> HIDE DEF N, r
<1>2. ASSUME NEW k \in 1..(N - 2)  PROVE Below(r[k].surface, r[k + 1].surface, up)
  <2>1. k \in 1..(N - 1) /\ k + 1 \in 1..(N - 1)
    BY <1>1
  <2> QED  BY <1>1, <2>1 DEF Chained, N
<1>3. (N - 1) - 1 = N - 2
  BY <1>1
<1>4. Chained(r, up)
  BY <1>1, <1>2, <1>3 DEF Chained
<1>5. ASSUME r # <<>>  PROVE Below(r[Len(r)].surface, Top(s).surface, up)
  <2>1. N - 1 \in 1..(N - 1) /\ (N - 1) + 1 = N
    <3>1. Len(r) # 0
      BY <1>1, <1>5, EmptySeq
    <3> QED  BY <1>1, <3>1
  <2>2. Below(s[N - 1].surface, s[(N - 1) + 1].surface, up)
    BY <2>1 DEF Chained, N
  <2> QED  BY <1>1, <2>1, <2>2
<1> QED  BY <1>4, <1>5 DEF Leads, r

LEMMA RestoredIs ==
  ASSUME NEW n \in Nat, NEW ed \in Editors(n), NEW snapshot \in Snapshots(n)
  PROVE  /\ Restored(ed, snapshot) \in Editors(n)
         /\ Restored(ed, snapshot).surface = snapshot.surface
<1> DEFINE a == [ed EXCEPT !.clips = snapshot.clips]
           b == [a EXCEPT !.surface = snapshot.surface]
<1>1. snapshot.clips \in Lists(n) /\ snapshot.surface \in SUBSET (1..n)
  BY DEF Snapshots
<1>2. a \in Editors(n)
  BY <1>1, ClipsIs
<1>3. Restored(ed, snapshot) = b
  BY EditorFacts DEF Restored, EditorRecord
<1> HIDE DEF a
<1>4. /\ b \in EditorRecord(n) /\ b.undo = a.undo /\ b.redo = a.redo
      /\ b.surface = snapshot.surface
  BY <1>1, <1>2, EditorFacts DEF EditorRecord
<1> HIDE DEF b
<1>5. b \in Editors(n)
  BY <1>2, <1>4, EditorFacts DEF Editors
<1> QED  BY <1>3, <1>4, <1>5

LEMMA DepthsPositive == AiDepth \in Nat \ {0} /\ UndoDepth \in Nat \ {0}
  BY TimelineAssumption DEF TimelineAssumption

-----------------------------------------------------------------------------
(***************************************************************************)
(* The invariant, and every action.                                        *)
(***************************************************************************)
InLine(ed, h) == Leads(h.undo, ed.surface, TRUE) /\ Leads(h.redo, ed.surface, FALSE)

\* After n edits the parts of the ids that copies made are at most n + 1, so
\* that the next copy's id is new; no clip is a piece of another, so that a
\* split's halves are new; the surfaces of the snapshots grow towards the
\* editor's and beyond it.
TimelineInv ==
  /\ edits \in 0..MaxEdits
  /\ editor \in Editors(edits)
  /\ ai \in Stacks(edits)
  /\ plan \in 0..edits
  /\ InLine(editor, ai)

\* One snapshot back along one history puts the editor on top of the other.
LEMMA Walked ==
  ASSUME NEW n \in Nat, NEW ed \in Editors(n), NEW back \in Seq(Snapshots(n)), back # <<>>,
         NEW forth \in Seq(Snapshots(n)), Len(back) + Len(forth) <= AiDepth, NEW up \in BOOLEAN,
         Leads(back, ed.surface, up), Leads(forth, ed.surface, ~up)
  PROVE  LET s == Top(back)
             pushed == Append(Latest(forth, AiDepth - 1), Snapshot(ed))
         IN /\ Restored(ed, s) \in Editors(n) /\ Restored(ed, s).surface = s.surface
            /\ Rest(back) \in Seq(Snapshots(n)) /\ pushed \in Seq(Snapshots(n))
            /\ Len(Rest(back)) + Len(pushed) <= AiDepth
            /\ Len(pushed) + Len(Rest(back)) <= AiDepth
            /\ Leads(Rest(back), s.surface, up) /\ Leads(pushed, s.surface, ~up)
<1> DEFINE s == Top(back)
           x == Snapshot(ed)
           pushed == Append(Latest(forth, AiDepth - 1), x)
<1>1. /\ Rest(back) \in Seq(Snapshots(n)) /\ Len(back) \in Nat
      /\ Len(Rest(back)) = Len(back) - 1 /\ s \in Snapshots(n) /\ s = back[Len(back)]
  BY RestIs
<1>2. x \in Snapshots(n) /\ x.surface = ed.surface
  BY SnapshotIs
<1>3. Restored(ed, s) \in Editors(n) /\ Restored(ed, s).surface = s.surface
  BY <1>1, RestoredIs
<1>4. Leads(Rest(back), s.surface, up)
  BY RestChained DEF Leads
<1> HIDE DEF s, x
<1>5. /\ pushed \in Seq(Snapshots(n)) /\ Len(pushed) \in Nat
      /\ Len(pushed) <= Len(forth) + 1
  BY <1>2, DepthsPositive, PushIs
<1>6. Chained(pushed, ~up) /\ pushed[Len(pushed)] = x
  BY <1>2, DepthsPositive, PushChained
<1> HIDE DEF pushed
<1>7. Below(x.surface, s.surface, ~up)
  BY <1>1, <1>2 DEF Leads, Below
<1>8. Leads(pushed, s.surface, ~up)
  BY <1>6, <1>7 DEF Leads
<1>9. Len(Rest(back)) + Len(pushed) <= AiDepth /\ Len(pushed) + Len(Rest(back)) <= AiDepth
  <2>1. Len(forth) \in Nat /\ AiDepth \in Nat
    BY DepthsPositive
  <2> QED  BY <1>1, <1>5, <2>1
<1> QED  BY <1>1, <1>3, <1>4, <1>5, <1>8, <1>9 DEF s, pushed, x

LEMMA TakeBackKeeps ==
  ASSUME NEW n \in Nat, editor \in Editors(n), ai \in Stacks(n), InLine(editor, ai), TakeBack
  PROVE  editor' \in Editors(n) /\ ai' \in Stacks(n) /\ InLine(editor', ai')
<1>1. /\ ai.undo \in Seq(Snapshots(n)) /\ ai.redo \in Seq(Snapshots(n)) /\ ai.undo # <<>>
      /\ Len(ai.undo) + Len(ai.redo) <= AiDepth
      /\ Leads(ai.undo, editor.surface, TRUE) /\ Leads(ai.redo, editor.surface, ~TRUE)
  BY StackFacts DEF InLine, TakeBack
<1> DEFINE s == Top(ai.undo)
           rest == Rest(ai.undo)
           pushed == Append(Latest(ai.redo, AiDepth - 1), Snapshot(editor))
<1>2. /\ Restored(editor, s) \in Editors(n) /\ Restored(editor, s).surface = s.surface
      /\ rest \in Seq(Snapshots(n)) /\ pushed \in Seq(Snapshots(n))
      /\ Len(rest) + Len(pushed) <= AiDepth
      /\ Leads(rest, s.surface, TRUE) /\ Leads(pushed, s.surface, ~TRUE)
  BY <1>1, Walked
<1>3. editor' = Restored(editor, s) /\ ai' = [undo |-> rest, redo |-> pushed]
  BY DEF TakeBack
<1> HIDE DEF s, rest, pushed
<1> QED  BY <1>2, <1>3 DEF Stacks, InLine

LEMMA BringBackKeeps ==
  ASSUME NEW n \in Nat, editor \in Editors(n), ai \in Stacks(n), InLine(editor, ai), BringBack
  PROVE  editor' \in Editors(n) /\ ai' \in Stacks(n) /\ InLine(editor', ai')
<1>1. /\ ai.undo \in Seq(Snapshots(n)) /\ ai.redo \in Seq(Snapshots(n)) /\ ai.redo # <<>>
      /\ Len(ai.redo) + Len(ai.undo) <= AiDepth
      /\ Leads(ai.redo, editor.surface, FALSE) /\ Leads(ai.undo, editor.surface, ~FALSE)
  <2>1. /\ Len(ai.undo) \in Nat /\ Len(ai.redo) \in Nat /\ AiDepth \in Nat
        /\ Len(ai.undo) + Len(ai.redo) <= AiDepth
    BY StackFacts, DepthsPositive
  <2>2. Len(ai.redo) + Len(ai.undo) <= AiDepth
    <3> DEFINE u == Len(ai.undo)
               r == Len(ai.redo)
    <3>1. u \in Nat /\ r \in Nat /\ u + r <= AiDepth
      BY <2>1
    <3> HIDE DEF u, r
    <3>2. r + u <= AiDepth
      BY <2>1, <3>1
    <3> QED  BY <3>2 DEF u, r
  <2> QED  BY <2>2, StackFacts DEF InLine, BringBack
<1> DEFINE s == Top(ai.redo)
           rest == Rest(ai.redo)
           pushed == Append(Latest(ai.undo, AiDepth - 1), Snapshot(editor))
<1>2. /\ Restored(editor, s) \in Editors(n) /\ Restored(editor, s).surface = s.surface
      /\ rest \in Seq(Snapshots(n)) /\ pushed \in Seq(Snapshots(n))
      /\ Len(pushed) + Len(rest) <= AiDepth
      /\ Leads(rest, s.surface, FALSE) /\ Leads(pushed, s.surface, ~FALSE)
  BY <1>1, Walked
<1>3. editor' = Restored(editor, s) /\ ai' = [undo |-> pushed, redo |-> rest]
  BY DEF BringBack
<1> HIDE DEF s, rest, pushed
<1> QED  BY <1>2, <1>3 DEF Stacks, InLine

\* The editor's own undo and redo leave the surface alone.
LEMMA OwnUndo ==
  ASSUME NEW n \in Nat, NEW ed \in Editors(n), ed.undo # <<>>
  PROVE  LET e == [ed EXCEPT !.undo = Rest(@), !.redo = Append(@, ed.clips),
                             !.clips = Top(ed.undo)]
         IN e \in Editors(n) /\ e.surface = ed.surface
<1> DEFINE rest == Rest(ed.undo)
           more == Append(ed.redo, ed.clips)
           top == Top(ed.undo)
           a == [ed EXCEPT !.undo = rest]
           b == [a EXCEPT !.redo = more]
           c == [b EXCEPT !.clips = top]
<1>1. /\ rest \in Seq(Lists(n)) /\ Len(rest) = Len(ed.undo) - 1 /\ top \in Lists(n)
  BY EditorFacts, RestIs
<1>2. more \in Seq(Lists(n)) /\ Len(more) = Len(ed.redo) + 1
  <2>1. ed.redo \in Seq(Lists(n)) /\ ed.clips \in Lists(n)
    BY EditorFacts
  <2> QED  BY <2>1, AppendProperties
<1>3. [ed EXCEPT !.undo = Rest(@), !.redo = Append(@, ed.clips), !.clips = Top(ed.undo)] = c
  BY EditorFacts DEF EditorRecord
<1>4. ed \in EditorRecord(n)
  BY EditorFacts
<1> HIDE DEF rest, more, top
<1>5. a \in EditorRecord(n) /\ a.undo = rest /\ a.surface = ed.surface
  BY <1>1, <1>4 DEF EditorRecord
<1> HIDE DEF a
<1>6. b \in EditorRecord(n) /\ b.undo = rest /\ b.redo = more /\ b.surface = ed.surface
  BY <1>2, <1>5 DEF EditorRecord
<1> HIDE DEF b
<1>7. c \in EditorRecord(n) /\ c.undo = rest /\ c.redo = more /\ c.surface = ed.surface
  BY <1>1, <1>6 DEF EditorRecord
<1> HIDE DEF c
<1>8. Len(rest) + Len(more) <= UndoDepth
  <2>1. /\ Len(ed.undo) \in Nat /\ Len(ed.redo) \in Nat /\ UndoDepth \in Nat
        /\ Len(ed.undo) + Len(ed.redo) <= UndoDepth
    BY EditorFacts, DepthsPositive
  <2> DEFINE u == Len(ed.undo)
             r == Len(ed.redo)
             x == Len(rest)
             y == Len(more)
  <2>2. u \in Nat /\ r \in Nat /\ u + r <= UndoDepth
    BY <2>1
  <2>3. x = u - 1 /\ y = r + 1
    BY <1>1, <1>2
  <2> HIDE DEF u, r, x, y
  <2>4. x + y <= UndoDepth /\ y + x <= UndoDepth
    BY <2>1, <2>2, <2>3
  <2> QED  BY <2>4 DEF x, y
<1>9. c \in Editors(n)
  BY <1>7, <1>8 DEF Editors
<1> QED  BY <1>3, <1>7, <1>9

LEMMA OwnRedo ==
  ASSUME NEW n \in Nat, NEW ed \in Editors(n), ed.redo # <<>>
  PROVE  LET e == [ed EXCEPT !.redo = Rest(@), !.undo = Append(@, ed.clips),
                             !.clips = Top(ed.redo)]
         IN e \in Editors(n) /\ e.surface = ed.surface
<1> DEFINE rest == Rest(ed.redo)
           more == Append(ed.undo, ed.clips)
           top == Top(ed.redo)
           a == [ed EXCEPT !.redo = rest]
           b == [a EXCEPT !.undo = more]
           c == [b EXCEPT !.clips = top]
<1>1. /\ rest \in Seq(Lists(n)) /\ Len(rest) = Len(ed.redo) - 1 /\ top \in Lists(n)
  BY EditorFacts, RestIs
<1>2. more \in Seq(Lists(n)) /\ Len(more) = Len(ed.undo) + 1
  <2>1. ed.undo \in Seq(Lists(n)) /\ ed.clips \in Lists(n)
    BY EditorFacts
  <2> QED  BY <2>1, AppendProperties
<1>3. [ed EXCEPT !.redo = Rest(@), !.undo = Append(@, ed.clips), !.clips = Top(ed.redo)] = c
  BY EditorFacts DEF EditorRecord
<1>4. ed \in EditorRecord(n)
  BY EditorFacts
<1> HIDE DEF rest, more, top
<1>5. a \in EditorRecord(n) /\ a.redo = rest /\ a.surface = ed.surface
  BY <1>1, <1>4 DEF EditorRecord
<1> HIDE DEF a
<1>6. b \in EditorRecord(n) /\ b.undo = more /\ b.redo = rest /\ b.surface = ed.surface
  BY <1>2, <1>5 DEF EditorRecord
<1> HIDE DEF b
<1>7. c \in EditorRecord(n) /\ c.undo = more /\ c.redo = rest /\ c.surface = ed.surface
  BY <1>1, <1>6 DEF EditorRecord
<1> HIDE DEF c
<1>8. Len(more) + Len(rest) <= UndoDepth
  <2>1. /\ Len(ed.undo) \in Nat /\ Len(ed.redo) \in Nat /\ UndoDepth \in Nat
        /\ Len(ed.undo) + Len(ed.redo) <= UndoDepth
    BY EditorFacts, DepthsPositive
  <2> DEFINE u == Len(ed.undo)
             r == Len(ed.redo)
             x == Len(rest)
             y == Len(more)
  <2>2. u \in Nat /\ r \in Nat /\ u + r <= UndoDepth
    BY <2>1
  <2>3. x = r - 1 /\ y = u + 1
    BY <1>1, <1>2
  <2> HIDE DEF u, r, x, y
  <2>4. x + y <= UndoDepth /\ y + x <= UndoDepth
    BY <2>1, <2>2, <2>3
  <2> QED  BY <2>4 DEF x, y
<1>9. c \in Editors(n)
  BY <1>7, <1>8 DEF Editors
<1> QED  BY <1>3, <1>7, <1>9

LEMMA InvFacts ==
  ASSUME TimelineInv
  PROVE  /\ edits \in Nat /\ MaxEdits \in Nat /\ edits <= MaxEdits
         /\ editor \in Editors(edits) /\ ai \in Stacks(edits) /\ InLine(editor, ai)
         /\ plan \in Nat /\ plan <= edits
         /\ editor.clips \in Lists(edits)
<1>1. MaxEdits \in Nat
  BY TimelineAssumption DEF TimelineAssumption
<1>2. editor \in Editors(edits) /\ edits \in Nat
  BY <1>1 DEF TimelineInv
<1>3. editor.clips \in Lists(edits)
  BY <1>2, EditorFacts
<1>4. plan \in Nat /\ plan <= edits /\ edits <= MaxEdits
  BY <1>1, <1>2 DEF TimelineInv
<1> QED  BY <1>1, <1>2, <1>3, <1>4 DEF TimelineInv

\* Between two edits only undo, redo and the selection change the editor.
LEMMA SameCount ==
  ASSUME TimelineInv, edits' = edits, plan' \in {0, plan},
         editor' \in Editors(edits), ai' \in Stacks(edits), InLine(editor', ai')
  PROVE  TimelineInv'
<1>1. plan' \in 0..edits
  BY InvFacts
<1>2. edits' \in 0..MaxEdits
  BY DEF TimelineInv
<1> QED  BY <1>1, <1>2 DEF TimelineInv

LEMMA NextCount ==
  ASSUME TimelineInv, edits < MaxEdits, edits' = edits + 1, plan' \in {plan, edits'},
         editor' \in Editors(edits + 1), ai' \in Stacks(edits + 1), InLine(editor', ai')
  PROVE  TimelineInv'
<1>1. edits + 1 \in 0..MaxEdits /\ edits + 1 \in Nat
  BY InvFacts
<1>2. plan' \in 0..(edits + 1)
  BY InvFacts
<1> QED  BY <1>1, <1>2 DEF TimelineInv

LEMMA SameSurface ==
  ASSUME NEW ed, NEW e, NEW h, InLine(ed, h), e.surface = ed.surface
  PROVE  InLine(e, h)
  BY DEF InLine

LEMMA ManualKeeps ==
  ASSUME TimelineInv, NEW ed \in Editors(edits + 1), ed.surface = editor.surface, Manual(ed)
  PROVE  TimelineInv'
<1>1. ai \in Stacks(edits + 1)
  <2>1. edits \in Nat /\ edits + 1 \in Nat /\ edits + 1 >= edits /\ ai \in Stacks(edits)
    BY InvFacts
  <2> QED  BY <2>1, StacksGrow
<1>2. InLine(ed, ai)
  BY InvFacts, SameSurface
<1>3. /\ edits < MaxEdits /\ edits' = edits + 1 /\ editor' = ed /\ ai' = ai /\ plan' = plan
  BY DEF Manual
<1> QED  BY <1>1, <1>2, <1>3, NextCount

\* A manual edit whose clips need no new number.
LEMMA ManualIn ==
  ASSUME TimelineInv, NEW ed \in Editors(edits), ed.surface = editor.surface, Manual(ed)
  PROVE  TimelineInv'
<1>1. edits \in Nat /\ edits + 1 \in Nat /\ edits + 1 >= edits
  BY InvFacts
<1>2. ed \in Editors(edits + 1)
  BY <1>1, EditorsGrow
<1> QED  BY <1>2, ManualKeeps

LEMMA CutAtKeeps ==
  ASSUME TimelineInv, NEW t \in Times, CutAt(t)  PROVE TimelineInv'
<1>1. Split(editor, t) \in Editors(edits) /\ Split(editor, t).surface = editor.surface
  BY InvFacts, CutPoints, SplitIs
<1> QED  BY <1>1, ManualIn DEF CutAt

LEMMA DeleteSelectedKeeps ==
  ASSUME TimelineInv, DeleteSelected  PROVE TimelineInv'
<1> DEFINE ed == Delete(editor, editor.selected)
<1>1. ed \in Editors(edits) /\ ed.surface = editor.surface
  BY InvFacts, DeleteIs
<1>2. Manual(ed)
  BY DEF DeleteSelected
<1> HIDE DEF ed
<1> QED  BY <1>1, <1>2, ManualIn

LEMMA CutRangeKeeps ==
  ASSUME TimelineInv, NEW t \in Times, NEW u \in Times, CutRange(t, u)  PROVE TimelineInv'
<1>0. t \in Int /\ u \in Int
  BY CutPoints
<1>1. DeleteRange(editor, t, u) \in Editors(edits)
      /\ DeleteRange(editor, t, u).surface = editor.surface
  BY <1>0, InvFacts, DeleteRangeIs
<1> QED  BY <1>1, ManualIn DEF CutRange

LEMMA ResizeKeeps ==
  ASSUME TimelineInv, NEW id, NEW t \in Times, NEW u \in Times, Resize(id, t, u)
  PROVE  TimelineInv'
<1>0. t \in Int /\ u \in Int
  BY CutPoints
<1>1. Updated(editor, id, t, u) \in Editors(edits)
      /\ Updated(editor, id, t, u).surface = editor.surface
  BY <1>0, InvFacts, UpdatedIs
<1> QED  BY <1>1, ManualIn DEF Resize

LEMMA DuplicateKeeps ==
  ASSUME TimelineInv, NEW i \in DOMAIN editor.clips, Duplicate(i)  PROVE TimelineInv'
<1> DEFINE cs == editor.clips
           c == cs[i]
           id == Append(c.id, edits + 2)
           end == Smaller(c.end + (c.end - c.start), Duration)
           c1 == [c EXCEPT !.id = id]
           c2 == [c1 EXCEPT !.start = c.end]
           copy == [c2 EXCEPT !.end = end]
           ed == [editor EXCEPT !.clips = Append(cs, copy)]
<1>1. edits \in Nat /\ editor \in Editors(edits) /\ cs \in Lists(edits) /\ Duration \in Int
  BY InvFacts, CutPoints
<1>2. i \in 1..Len(cs) /\ c \in ClipsOf(edits)
  BY <1>1, ListFacts
<1>3. c \in ClipRecord /\ c.start \in Int /\ c.end \in Int /\ c.id \in Seq(Nat)
  BY <1>1, <1>2, ClipFacts
<1>4. Manual(ed)
  BY <1>1, <1>3 DEF Duplicate, ClipRecord
<1>5. id \in Seq(Nat)
  BY <1>1, <1>3, AppendProperties
<1>6. end \in Int
  BY <1>1, <1>3 DEF Smaller
<1> HIDE DEF c, end
<1>7. copy \in ClipRecord /\ copy.id = id
  <2> HIDE DEF id
  <2>1. c1 \in ClipRecord /\ c1.id = id
    BY <1>3, <1>5 DEF ClipRecord
  <2> HIDE DEF c1
  <2>2. c2 \in ClipRecord /\ c2.id = id
    BY <1>3, <2>1 DEF ClipRecord
  <2> HIDE DEF c2
  <2> QED  BY <1>6, <2>2 DEF ClipRecord
<1> HIDE DEF copy
<1>8. Append(cs, copy) \in Lists(edits + 1)
  <2>1. copy.id = Append(cs[i].id, edits + 2)
    BY <1>7 DEF c
  <2> HIDE DEF cs
  <2> QED  BY <1>1, <1>2, <1>7, <2>1, CopiedList
<1>9. edits + 1 \in Nat /\ editor \in Editors(edits + 1)
  BY <1>1, EditorsGrow
<1>10. ed \in Editors(edits + 1) /\ ed.surface = editor.surface
  <2> DEFINE n == edits + 1
             more == Append(cs, copy)
  <2>1. n \in Nat /\ editor \in Editors(n) /\ more \in Lists(n) /\ ed = [editor EXCEPT !.clips = more]
    BY <1>8, <1>9
  <2> HIDE DEF n, more, ed
  <2>2. ed \in Editors(n) /\ ed.surface = editor.surface
    BY <2>1, ClipsIs
  <2> QED  BY <2>2 DEF n
<1> HIDE DEF ed
<1> QED  BY <1>4, <1>10, ManualKeeps

LEMMA ReorderKeeps ==
  ASSUME TimelineInv, NEW i \in DOMAIN editor.clips, NEW j \in DOMAIN editor.clips, Reorder(i, j)
  PROVE  TimelineInv'
<1> DEFINE cs == InsertAt(RemoveAt(editor.clips, i), j, editor.clips[i])
           ed == [editor EXCEPT !.clips = cs]
<1>1. edits \in Nat /\ editor \in Editors(edits) /\ editor.clips \in Lists(edits)
  BY InvFacts
<1>2. i \in 1..Len(editor.clips) /\ j \in 1..Len(editor.clips)
  BY <1>1, ListFacts
<1>3. cs \in Lists(edits)
  BY <1>1, <1>2, ReorderedList
<1>4. Manual(ed)
  BY DEF Reorder
<1> HIDE DEF cs
<1>5. ed \in Editors(edits) /\ ed.surface = editor.surface
  BY <1>1, <1>3, ClipsIs
<1> HIDE DEF ed
<1> QED  BY <1>4, <1>5, ManualIn

LEMMA SelectKeeps ==
  ASSUME TimelineInv, NEW id \in Ids(editor.clips), Select(id)  PROVE TimelineInv'
<1> DEFINE ed == [editor EXCEPT !.selected = id]
<1>1. edits \in Nat /\ editor \in Editors(edits) /\ id \in Seq(Nat)
  BY InvFacts, KnownIds DEF Known
<1>2. ed \in Editors(edits) /\ ed.surface = editor.surface
  BY <1>1, SelectedIs
<1>3. editor' = ed /\ ai' = ai /\ plan' = plan /\ edits' = edits
  BY DEF Select
<1> HIDE DEF ed
<1>4. InLine(ed, ai)
  BY <1>2, InvFacts, SameSurface
<1> QED  BY <1>2, <1>3, <1>4, InvFacts, SameCount

LEMMA AssistKeeps ==
  ASSUME TimelineInv, NEW tools \in Seq(ToolNames), Assist(tools), plan' \in {plan, edits'}
  PROVE  TimelineInv'
<1> DEFINE n == edits + 1
           x == Snapshot(editor)
           pushed == Append(Latest(ai.undo, AiDepth - 1), x)
<1>1. /\ edits \in Nat /\ n \in Nat /\ n \in Nat \ {0} /\ n >= edits
      /\ editor \in Editors(n) /\ ai \in Stacks(n) /\ InLine(editor, ai)
  <2>1. edits \in Nat /\ n \in Nat /\ n \in Nat \ {0} /\ n >= edits
    BY InvFacts
  <2> HIDE DEF n
  <2> QED  BY <2>1, InvFacts, EditorsGrow, StacksGrow
<1>2. edits < MaxEdits /\ edits' = n /\ editor' \in Dispatched(tools, editor, n)
  BY DEF Assist
<1>3. ai' = [undo |-> pushed, redo |-> <<>>]
  BY DEF Assist
<1> HIDE DEF n
<1>4. editor' \in Editors(n) /\ editor.surface \subseteq editor'.surface
  BY <1>1, <1>2, DispatchedKeeps
<1>5. x \in Snapshots(n) /\ x.surface = editor.surface
  BY <1>1, SnapshotIs
<1> HIDE DEF x
<1>6. ai.undo \in Seq(Snapshots(n)) /\ Leads(ai.undo, x.surface, TRUE)
  BY <1>1, <1>5, StackFacts DEF InLine
<1>7. pushed \in Seq(Snapshots(n)) /\ Len(pushed) \in 1..AiDepth
  BY <1>5, <1>6, DepthsPositive, PushIs
<1>8. Chained(pushed, TRUE) /\ pushed[Len(pushed)] = x
  BY <1>5, <1>6, DepthsPositive, PushChained
<1> HIDE DEF pushed
<1>9. Leads(pushed, editor'.surface, TRUE)
  BY <1>4, <1>5, <1>8 DEF Leads, Below
<1>10. <<>> \in Seq(Snapshots(n)) /\ Len(<<>>) = 0 /\ Leads(<<>>, editor'.surface, FALSE)
  BY DEF Leads, Chained
<1>11. ai' \in Stacks(n) /\ InLine(editor', ai')
  <2>1. Len(pushed) + 0 <= AiDepth
    BY <1>7, DepthsPositive
  <2> QED  BY <1>3, <1>7, <1>9, <1>10, <2>1 DEF Stacks, InLine
<1> QED  BY <1>2, <1>4, <1>11, NextCount DEF n

LEMMA OpenVideoKeeps ==
  ASSUME TimelineInv, NEW cs \in Found, OpenVideo(cs)  PROVE TimelineInv'
<1> DEFINE n == edits + 1
           ed == [clips |-> cs, selected |-> NoClip, undo |-> <<>>, redo |-> <<>>, surface |-> {}]
           h == [undo |-> <<>>, redo |-> <<>>]
<1>1. n \in Nat /\ cs \in Lists(n)
  BY InvFacts, FoundLists
<1>2. ed \in Editors(n) /\ h \in Stacks(n) /\ InLine(ed, h)
  <2>1. <<>> \in Seq(Lists(n)) /\ <<>> \in Seq(Snapshots(n)) /\ NoClip \in Seq(Nat) /\ Len(<<>>) = 0
    BY DEF NoClip
  <2>2. ed \in EditorRecord(n)
    BY <1>1, <2>1 DEF EditorRecord
  <2>3. Len(ed.undo) + Len(ed.redo) <= UndoDepth /\ Len(h.undo) + Len(h.redo) <= AiDepth
    BY <2>1, DepthsPositive
  <2>4. InLine(ed, h)
    BY DEF InLine, Leads, Chained
  <2> QED  BY <2>1, <2>2, <2>3, <2>4 DEF Editors, Stacks
<1>3. /\ edits < MaxEdits /\ edits' = n /\ editor' = ed /\ ai' = h /\ plan' = plan
  BY DEF OpenVideo
<1> HIDE DEF ed, h
<1> QED  BY <1>2, <1>3, NextCount

LEMMA UndoKeeps ==
  ASSUME TimelineInv, Undo  PROVE TimelineInv'
<1>1. editor \in Editors(edits) /\ ai \in Stacks(edits) /\ InLine(editor, ai) /\ edits \in Nat
  BY InvFacts
<1>2. edits' = edits /\ plan' = plan
  BY DEF Undo
<1>3. CASE TakeBack
  BY <1>1, <1>2, <1>3, TakeBackKeeps, SameCount
<1>4. CASE ~TakeBack
  <2> DEFINE e == [editor EXCEPT !.undo = Rest(@), !.redo = Append(@, editor.clips),
                                 !.clips = Top(editor.undo)]
  <2>1. editor.undo # <<>> /\ editor' = e /\ ai' = ai
    BY <1>4 DEF Undo
  <2>2. e \in Editors(edits) /\ e.surface = editor.surface
    BY <1>1, <2>1, OwnUndo
  <2> HIDE DEF e
  <2>3. InLine(e, ai)
    BY <1>1, <2>2, SameSurface
  <2> QED  BY <1>1, <1>2, <2>1, <2>2, <2>3, SameCount
<1> QED  BY <1>3, <1>4

LEMMA RedoKeeps ==
  ASSUME TimelineInv, Redo  PROVE TimelineInv'
<1>1. editor \in Editors(edits) /\ ai \in Stacks(edits) /\ InLine(editor, ai) /\ edits \in Nat
  BY InvFacts
<1>2. edits' = edits /\ plan' = plan
  BY DEF Redo
<1>3. CASE BringBack
  BY <1>1, <1>2, <1>3, BringBackKeeps, SameCount
<1>4. CASE ~BringBack
  <2> DEFINE e == [editor EXCEPT !.redo = Rest(@), !.undo = Append(@, editor.clips),
                                 !.clips = Top(editor.redo)]
  <2>1. editor.redo # <<>> /\ editor' = e /\ ai' = ai
    BY <1>4 DEF Redo
  <2>2. e \in Editors(edits) /\ e.surface = editor.surface
    BY <1>1, <2>1, OwnRedo
  <2> HIDE DEF e
  <2>3. InLine(e, ai)
    BY <1>1, <2>2, SameSurface
  <2> QED  BY <1>1, <1>2, <2>1, <2>2, <2>3, SameCount
<1> QED  BY <1>3, <1>4

LEMMA PlanRefusedKeeps ==
  ASSUME TimelineInv, PlanRefused  PROVE TimelineInv'
<1>1. editor \in Editors(edits) /\ ai \in Stacks(edits) /\ InLine(editor, ai) /\ edits \in Nat
  BY InvFacts
<1>2. edits' = edits /\ plan' = 0
  BY DEF PlanRefused
<1>3. CASE TakeBack
  BY <1>1, <1>2, <1>3, TakeBackKeeps, SameCount
<1>4. CASE editor' = editor /\ ai' = ai
  BY <1>1, <1>2, <1>4, SameCount
<1> QED  BY <1>3, <1>4 DEF PlanRefused

LEMMA PlanAcceptedKeeps ==
  ASSUME TimelineInv, PlanAccepted  PROVE TimelineInv'
<1>1. editor \in Editors(edits) /\ ai \in Stacks(edits) /\ InLine(editor, ai)
  BY InvFacts
<1> QED  BY <1>1, SameCount DEF PlanAccepted

LEMMA InitHolds == Init => TimelineInv
<1> SUFFICES ASSUME Init PROVE TimelineInv
  OBVIOUS
<1>1. PICK cs \in Found :
        editor = [clips |-> cs, selected |-> NoClip, undo |-> <<>>, redo |-> <<>>,
                  surface |-> {}]
  BY DEF Init
<1>2. cs \in Lists(0) /\ <<>> \in Seq(Lists(0)) /\ NoClip \in Seq(Nat)
  BY FoundLists DEF NoClip
<1>3. editor \in EditorRecord(0)
  BY <1>1, <1>2 DEF EditorRecord
<1>4. Len(editor.undo) + Len(editor.redo) <= UndoDepth
  BY <1>1, DepthsPositive
<1>5. edits = 0 /\ plan = 0 /\ ai = [undo |-> <<>>, redo |-> <<>>]
  BY DEF Init
<1>6. ai \in Stacks(0)
  BY <1>5, DepthsPositive DEF Stacks
<1>7. InLine(editor, ai)
  BY <1>1, <1>5 DEF InLine, Leads, Chained
<1>8. editor \in Editors(0)
  BY <1>3, <1>4 DEF Editors
<1>9. 0 \in 0..MaxEdits
  BY TimelineAssumption DEF TimelineAssumption
<1> QED  BY <1>5, <1>6, <1>7, <1>8, <1>9 DEF TimelineInv

LEMMA NextKeeps == TimelineInv /\ [Next]_vars => TimelineInv'
<1> SUFFICES ASSUME TimelineInv, [Next]_vars PROVE TimelineInv'
  OBVIOUS
<1>1. ASSUME NEW t \in Times, CutAt(t)  PROVE TimelineInv'
  BY <1>1, CutAtKeeps
<1>2. ASSUME NEW t \in Times, NEW u \in Times, CutRange(t, u)  PROVE TimelineInv'
  BY <1>2, CutRangeKeeps
<1>3. ASSUME NEW id \in Ids(editor.clips), NEW t \in Times, NEW u \in Times, Resize(id, t, u)
      PROVE  TimelineInv'
  BY <1>3, ResizeKeeps
<1>4. ASSUME NEW i \in DOMAIN editor.clips, Duplicate(i)  PROVE TimelineInv'
  BY <1>4, DuplicateKeeps
<1>5. ASSUME NEW i \in DOMAIN editor.clips, NEW j \in DOMAIN editor.clips, Reorder(i, j)
      PROVE  TimelineInv'
  BY <1>5, ReorderKeeps
<1>6. ASSUME NEW id \in Ids(editor.clips), Select(id)  PROVE TimelineInv'
  BY <1>6, SelectKeeps
<1>7. ASSUME NEW tools \in Batches(Direct), AssistantEdits(tools)  PROVE TimelineInv'
  BY <1>7, BatchesAre, AssistKeeps DEF AssistantEdits
<1>8. ASSUME NEW tools \in Batches(Tools), PlanApplied(tools)  PROVE TimelineInv'
  BY <1>8, BatchesAre, AssistKeeps DEF PlanApplied
<1>9. ASSUME NEW cs \in Found, OpenVideo(cs)  PROVE TimelineInv'
  BY <1>9, OpenVideoKeeps
<1>10. CASE DeleteSelected
  BY <1>10, DeleteSelectedKeeps
<1>11. CASE PlanAccepted
  BY <1>11, PlanAcceptedKeeps
<1>12. CASE PlanRefused
  BY <1>12, PlanRefusedKeeps
<1>13. CASE Undo
  BY <1>13, UndoKeeps
<1>14. CASE Redo
  BY <1>14, RedoKeeps
<1>15. CASE UNCHANGED vars
  BY <1>15 DEF TimelineInv, vars
<1> QED
  BY <1>1, <1>2, <1>3, <1>4, <1>5, <1>6, <1>7, <1>8, <1>9, <1>10, <1>11, <1>12, <1>13, <1>14,
     <1>15 DEF Next

\* The invariant holds in every reachable state.
LEMMA InvHolds == Spec => []TimelineInv
  BY InitHolds, NextKeeps, PTL DEF Spec

LEMMA ListIsClips ==
  ASSUME NEW n \in Nat, NEW cs \in Lists(n)
  PROVE  ClipList(cs) /\ Distinct(cs)
<1>1. ClipList(cs)
  BY ListFacts, ClipFacts DEF ClipList, ClipRecord
<1>2. Distinct(cs)
  BY ListFacts, NoTwins DEF Distinct
<1> QED  BY <1>1, <1>2

LEMMA ListsOf ==
  ASSUME NEW n \in Nat, NEW s \in Seq(Lists(n)), NEW k \in DOMAIN s
  PROVE  ClipList(s[k]) /\ Distinct(s[k])
<1>1. s[k] \in Lists(n)
  OBVIOUS
<1> QED  BY <1>1, ListIsClips

LEMMA SnapshotsOf ==
  ASSUME NEW n \in Nat, NEW s \in Seq(Snapshots(n)), NEW k \in DOMAIN s
  PROVE  /\ ClipList(s[k].clips) /\ Distinct(s[k].clips)
         /\ DOMAIN s[k] = {"clips", "surface"} /\ s[k].surface \subseteq 1..n
<1>1. s[k] \in Snapshots(n)
  OBVIOUS
<1>2. s[k].clips \in Lists(n)
  BY <1>1 DEF Snapshots
<1>3. DOMAIN s[k] = {"clips", "surface"} /\ s[k].surface \subseteq 1..n
  BY <1>1 DEF Snapshots
<1> QED  BY <1>2, <1>3, ListIsClips

\* Every list of clips, in the editor, in its histories and in the snapshots of
\* the assistant, is one of clips; a snapshot holds no histories; the plan that
\* awaits its answer is of an edit that was made (editorStore.ts).
THEOREM TimelineTypes == Spec => []TypeOK
<1>1. TimelineInv => TypeOK
  <2> SUFFICES ASSUME TimelineInv PROVE TypeOK
    OBVIOUS
  <2>1. edits \in Nat /\ editor \in Editors(edits) /\ ai \in Stacks(edits)
    BY InvFacts
  <2>2. ClipList(editor.clips)
    BY InvFacts, ListIsClips
  <2>3. /\ \A k \in DOMAIN editor.undo : ClipList(editor.undo[k])
        /\ \A k \in DOMAIN editor.redo : ClipList(editor.redo[k])
    BY <2>1, EditorFacts, ListsOf
  <2>4. 1..edits \subseteq Batch
    BY InvFacts DEF Batch
  <2>5. editor.surface \subseteq Batch
    BY <2>1, <2>4, EditorFacts
  <2>6. ASSUME NEW snapshot \in Elements(ai.undo) \union Elements(ai.redo)
        PROVE  /\ DOMAIN snapshot = {"clips", "surface"}
               /\ ClipList(snapshot.clips) /\ snapshot.surface \subseteq Batch
    <3>1. \/ \E k \in DOMAIN ai.undo : snapshot = ai.undo[k]
          \/ \E k \in DOMAIN ai.redo : snapshot = ai.redo[k]
      BY DEF Elements
    <3>2. ai.undo \in Seq(Snapshots(edits)) /\ ai.redo \in Seq(Snapshots(edits))
      BY <2>1, StackFacts
    <3>3. /\ DOMAIN snapshot = {"clips", "surface"}
          /\ ClipList(snapshot.clips) /\ snapshot.surface \subseteq 1..edits
      BY <2>1, <3>1, <3>2, SnapshotsOf
    <3> QED  BY <2>4, <3>3
  <2>7. plan \in 0..edits /\ edits \in 0..MaxEdits
    BY DEF TimelineInv
  <2> QED  BY <2>2, <2>3, <2>5, <2>6, <2>7 DEF TypeOK
<1> QED  BY <1>1, InvHolds, PTL

\* No two clips of a list share an id, whatever is split, copied, found anew,
\* undone and brought back (splitClipAtTime, duplicateClip, setSuggestions).
THEOREM TimelineUniqueIds == Spec => []UniqueIds
<1>1. TimelineInv => UniqueIds
  <2> SUFFICES ASSUME TimelineInv PROVE UniqueIds
    OBVIOUS
  <2>1. edits \in Nat /\ editor \in Editors(edits) /\ ai \in Stacks(edits)
    BY InvFacts
  <2>2. Distinct(editor.clips)
    BY InvFacts, ListIsClips
  <2>3. /\ \A k \in DOMAIN editor.undo : Distinct(editor.undo[k])
        /\ \A k \in DOMAIN editor.redo : Distinct(editor.redo[k])
    BY <2>1, EditorFacts, ListsOf
  <2>4. ai.undo \in Seq(Snapshots(edits)) /\ ai.redo \in Seq(Snapshots(edits))
    BY <2>1, StackFacts
  <2>5. /\ \A k \in DOMAIN ai.undo : Distinct(ai.undo[k].clips)
        /\ \A k \in DOMAIN ai.redo : Distinct(ai.redo[k].clips)
    BY <2>1, <2>4, SnapshotsOf
  <2> QED  BY <2>2, <2>3, <2>5 DEF UniqueIds
<1> QED  BY <1>1, InvHolds, PTL

\* Undo and redo together never hold more than the depth of one, although
\* undo() and redo() append without a cut.
THEOREM TimelineBounded == Spec => []HistoryBounded
<1>1. TimelineInv => HistoryBounded
  BY InvFacts, EditorFacts, StackFacts DEF HistoryBounded
<1> QED  BY <1>1, InvHolds, PTL

-----------------------------------------------------------------------------
(***************************************************************************)
(* One line of history.                                                    *)
(***************************************************************************)
Surfaces(s) == [k \in DOMAIN s |-> s[k].surface]

LEMMA SurfacesAre ==
  ASSUME NEW n \in Nat, NEW s \in Seq(Snapshots(n))
  PROVE  /\ Surfaces(s) \in Seq(SUBSET (1..n)) /\ Len(Surfaces(s)) = Len(s) /\ Len(s) \in Nat
         /\ \A k \in 1..Len(s) : Surfaces(s)[k] = s[k].surface
<1>1. Len(s) \in Nat /\ DOMAIN s = 1..Len(s) /\ \A k \in 1..Len(s) : s[k] \in Snapshots(n)
  OBVIOUS
<1>2. \A k \in 1..Len(s) : s[k].surface \in SUBSET (1..n)
  BY <1>1 DEF Snapshots
<1>3. Surfaces(s) \in [1..Len(s) -> SUBSET (1..n)]
      /\ \A k \in 1..Len(s) : Surfaces(s)[k] = s[k].surface
  BY <1>1, <1>2 DEF Surfaces
<1> QED  BY <1>1, <1>3, FunctionIsSeq

LEMMA ReversedIs ==
  ASSUME NEW A, NEW s \in Seq(A)
  PROVE  /\ Reverse(s) \in Seq(A) /\ Len(Reverse(s)) = Len(s)
         /\ \A k \in 1..Len(s) : Reverse(s)[k] = s[Len(s) - k + 1]
<1>1. Len(s) \in Nat /\ \A k \in 1..Len(s) : s[k] \in A
  OBVIOUS
<1> DEFINE N == Len(s)
           r == [i \in 1..N |-> s[(N - i) + 1]]
<1>2. Reverse(s) = r
  BY DEF Reverse
<1>3. \A k \in 1..N : N - k + 1 \in 1..N
  <2> HIDE DEF N
  <2>1. N \in Nat
    BY <1>1 DEF N
  <2> QED  BY <2>1
<1>4. r \in [1..N -> A] /\ \A k \in 1..N : r[k] = s[N - k + 1]
  BY <1>1, <1>3
<1> HIDE DEF r
<1>5. r \in Seq(A) /\ Len(r) = N
  BY <1>1, <1>4, FunctionIsSeq
<1> QED  BY <1>2, <1>4, <1>5

LEMMA LineIs ==
  ASSUME NEW n \in Nat, editor \in Editors(n), ai \in Stacks(n)
  PROVE  LET U == Len(ai.undo)
             R == Len(ai.redo)
         IN /\ Len(Line) = U + 1 + R
            /\ \A k \in 1..U : Line[k] = ai.undo[k].surface
            /\ Line[U + 1] = editor.surface
            /\ \A k \in 1..R : Line[U + 1 + k] = ai.redo[R - k + 1].surface
<1> DEFINE A == SUBSET (1..n)
           U == Len(ai.undo)
           R == Len(ai.redo)
           u == Surfaces(ai.undo)
           one == << editor.surface >>
           r == Reverse(Surfaces(ai.redo))
           b == u \o one
<1>1. u \in Seq(A) /\ Len(u) = U /\ U \in Nat /\ \A k \in 1..U : u[k] = ai.undo[k].surface
  BY StackFacts, SurfacesAre
<1>2. /\ r \in Seq(A) /\ Len(r) = R /\ R \in Nat
      /\ \A k \in 1..R : r[k] = ai.redo[R - k + 1].surface
  <2> DEFINE s == Surfaces(ai.redo)
  <2>1. s \in Seq(A) /\ Len(s) = R /\ R \in Nat /\ \A k \in 1..R : s[k] = ai.redo[k].surface
    BY StackFacts, SurfacesAre
  <2>2. r = Reverse(s)
    OBVIOUS
  <2> HIDE DEF s, r
  <2>3. r \in Seq(A) /\ Len(r) = R /\ \A k \in 1..R : r[k] = s[R - k + 1]
    BY <2>1, <2>2, ReversedIs
  <2>4. \A k \in 1..R : R - k + 1 \in 1..R
    <3> HIDE DEF R
    <3> QED  BY <2>1
  <2> QED  BY <2>1, <2>3, <2>4
<1>3. one \in Seq(A) /\ Len(one) = 1 /\ one[1] = editor.surface
  <2>1. editor.surface \in A
    BY EditorFacts
  <2> QED  BY <2>1
<1>4. Line = b \o r
  BY DEF Line, Surfaces
<1> HIDE DEF u, one, r, U, R
<1>5. /\ b \in Seq(A) /\ Len(b) = U + 1
      /\ \A k \in 1..(U + 1) : b[k] = IF k <= U THEN u[k] ELSE one[k - U]
  <2>1. /\ b \in Seq(A) /\ Len(b) = Len(u) + Len(one)
        /\ \A k \in 1..(Len(u) + Len(one)) : b[k] = IF k <= Len(u) THEN u[k] ELSE one[k - Len(u)]
    BY <1>1, <1>3, ConcatProperties
  <2> HIDE DEF b
  <2> QED  BY <1>1, <1>3, <2>1
<1> HIDE DEF b
<1>6. /\ Len(Line) = U + 1 + R
      /\ \A k \in 1..(U + 1 + R) : Line[k] = IF k <= U + 1 THEN b[k] ELSE r[k - (U + 1)]
  <2>1. /\ Len(b \o r) = Len(b) + Len(r)
        /\ \A k \in 1..(Len(b) + Len(r)) : (b \o r)[k] = IF k <= Len(b) THEN b[k] ELSE r[k - Len(b)]
    BY <1>2, <1>5, ConcatProperties
  <2>2. Len(b) + Len(r) = U + 1 + R
    BY <1>1, <1>2, <1>5
  <2> HIDE DEF Line
  <2> QED  BY <1>2, <1>4, <1>5, <2>1, <2>2
<1>7. ASSUME NEW k \in 1..U  PROVE Line[k] = ai.undo[k].surface
  <2>1. k \in 1..(U + 1) /\ k \in 1..(U + 1 + R) /\ k <= U + 1 /\ k <= U
    BY <1>1, <1>2
  <2> QED  BY <1>1, <1>5, <1>6, <2>1
<1>8. Line[U + 1] = editor.surface
  <2>1. U + 1 \in 1..(U + 1) /\ U + 1 \in 1..(U + 1 + R) /\ U + 1 <= U + 1 /\ ~(U + 1 <= U)
        /\ (U + 1) - U = 1
    BY <1>1, <1>2
  <2> QED  BY <1>3, <1>5, <1>6, <2>1
<1>9. ASSUME NEW k \in 1..R  PROVE Line[U + 1 + k] = ai.redo[R - k + 1].surface
  <2>1. U + 1 + k \in 1..(U + 1 + R) /\ ~(U + 1 + k <= U + 1) /\ (U + 1 + k) - (U + 1) = k
    BY <1>1, <1>2
  <2> QED  BY <1>2, <1>6, <2>1
<1> QED  BY <1>6, <1>7, <1>8, <1>9 DEF U, R

LEMMA InLineIsOneLine ==
  ASSUME NEW n \in Nat, editor \in Editors(n), ai \in Stacks(n), InLine(editor, ai)
  PROVE  OneLine
<1> DEFINE U == Len(ai.undo)
           R == Len(ai.redo)
<1>1. U \in Nat /\ R \in Nat
  BY StackFacts
<1>2. /\ Len(Line) = U + 1 + R
      /\ \A k \in 1..U : Line[k] = ai.undo[k].surface
      /\ Line[U + 1] = editor.surface
      /\ \A k \in 1..R : Line[U + 1 + k] = ai.redo[R - k + 1].surface
  BY LineIs
<1>3. /\ \A k \in 1..(U - 1) : ai.undo[k].surface \subseteq ai.undo[k + 1].surface
      /\ U > 0 => ai.undo[U].surface \subseteq editor.surface
      /\ \A k \in 1..(R - 1) : ai.redo[k + 1].surface \subseteq ai.redo[k].surface
      /\ R > 0 => editor.surface \subseteq ai.redo[R].surface
  <2>1. (U > 0 => ai.undo # <<>>) /\ (R > 0 => ai.redo # <<>>)
    OBVIOUS
  <2> QED  BY <2>1 DEF InLine, Leads, Chained, Below
<1> HIDE DEF U, R
<1>4. SUFFICES ASSUME NEW k \in 1..(U + R)  PROVE Line[k] \subseteq Line[k + 1]
  <2>1. Len(Line) - 1 = U + R
    BY <1>1, <1>2
  <2> QED  BY <2>1 DEF OneLine
<1>5. CASE k < U
  <2>1. k \in 1..U /\ k + 1 \in 1..U /\ k \in 1..(U - 1)
    BY <1>1, <1>5
  <2> QED  BY <1>2, <1>3, <2>1
<1>6. CASE k = U
  <2>1. k \in 1..U /\ U > 0
    BY <1>1, <1>6
  <2> QED  BY <1>2, <1>3, <1>6, <2>1
<1>7. CASE k = U + 1
  <2>1. 1 \in 1..R /\ R > 0 /\ R - 1 + 1 = R /\ k + 1 = U + 1 + 1
    BY <1>1, <1>7
  <2> QED  BY <1>2, <1>3, <1>7, <2>1
<1>8. CASE k > U + 1
  <2> DEFINE j == k - (U + 1)
             i == R - j
  <2>1. j \in 1..R /\ j + 1 \in 1..R /\ U + 1 + j = k /\ U + 1 + (j + 1) = k + 1
    BY <1>1, <1>8
  <2>2. i \in 1..(R - 1) /\ R - j + 1 = i + 1 /\ R - (j + 1) + 1 = i
    BY <1>1, <2>1
  <2> HIDE DEF i, j
  <2> QED  BY <1>2, <1>3, <2>1, <2>2
<1> QED  BY <1>1, <1>5, <1>6, <1>7, <1>8

\* The snapshots and the editor between them are one line of history through
\* batches, plans taken back, manual edits and any walk of undo and redo
\* (applyAiEdits, undoAiEdit, redoAiEdit).
THEOREM TimelineOneLine == Spec => []OneLine
<1>1. TimelineInv => OneLine
  BY InvFacts, InLineIsOneLine
<1> QED  BY <1>1, InvHolds, PTL

-----------------------------------------------------------------------------
(***************************************************************************)
(* "Delete & Close Gap" and the length of what it leaves of a clip.        *)
(***************************************************************************)
Span(c) == c.end - c.start

\* f computes Length.
Adding(f, cs) ==
  /\ f \in [0..Len(cs) -> Int]
  /\ f[0] = 0
  /\ \A k \in 1..Len(cs) : f[k] = f[k - 1] + Span(cs[k])
  /\ Length(cs) = f[Len(cs)]

LEMMA LengthIs ==
  ASSUME NEW n \in Nat, NEW cs \in Seq(ClipsOf(n))
  PROVE  \E f : Adding(f, cs)
<1> DEFINE sum[k \in 0..Len(cs)] == IF k = 0 THEN 0 ELSE sum[k - 1] + (cs[k].end - cs[k].start)
           step == [k \in 1..Len(cs) |-> [v \in Int |-> v + Span(cs[k])]]
<1>1. Length(cs) = sum[Len(cs)]
  BY DEF Length
<1>0. Len(cs) \in Nat /\ \A k \in 1..Len(cs) : Span(cs[k]) \in Int
  <2>1. Len(cs) \in Nat /\ \A k \in 1..Len(cs) : cs[k] \in ClipsOf(n)
    OBVIOUS
  <2>2. ASSUME NEW c \in ClipsOf(n)  PROVE Span(c) \in Int
    BY ClipFacts DEF Span
  <2> QED  BY <2>1, <2>2
<1>0a. sum = [k \in 0..Len(cs) |-> IF k = 0 THEN 0 ELSE sum[k - 1] + Span(cs[k])]
       \/ ~\E f : f = [k \in 0..Len(cs) |-> IF k = 0 THEN 0 ELSE f[k - 1] + Span(cs[k])]
  BY DEF Span
<1> HIDE DEF sum
<1>2. \A k \in 1..Len(cs), v \in Int : step[k][v] = v + Span(cs[k]) /\ step[k][v] \in Int
  BY <1>0
<1> HIDE DEF step
<1>3. PICK f : Runs(f, Len(cs), Int, 0, step)
  <2> DEFINE V == Int
  <2>1. 0 \in V /\ \A k \in 1..Len(cs), v \in V : step[k][v] \in V
    BY <1>2
  <2> HIDE DEF V
  <2>2. \E f : Runs(f, Len(cs), V, 0, step)
    BY <1>0, <2>1, Iterates
  <2> QED  BY <2>2 DEF V
<1>4. /\ f \in [0..Len(cs) -> Int] /\ f[0] = 0
      /\ \A k \in 1..Len(cs) : f[k] = f[k - 1] + Span(cs[k])
      /\ f = [k \in 0..Len(cs) |-> f[k]]
  <2>1. f \in [0..Len(cs) -> Int] /\ f[0] = 0
    BY <1>3 DEF Runs
  <2>2. ASSUME NEW k \in 1..Len(cs)  PROVE f[k] = f[k - 1] + Span(cs[k])
    <3>1. k - 1 \in 0..Len(cs)
      BY <1>0
    <3>2. f[k - 1] \in Int
      BY <2>1, <3>1
    <3>3. f[k] = step[k][f[k - 1]]
      BY <1>3 DEF Runs
    <3> QED  BY <1>2, <3>2, <3>3
  <2> QED  BY <2>1, <2>2
<1>5. f = [k \in 0..Len(cs) |-> IF k = 0 THEN 0 ELSE f[k - 1] + Span(cs[k])]
  <2>1. \A k \in 0..Len(cs) : k # 0 => k \in 1..Len(cs)
    BY <1>0
  <2> QED  BY <1>4, <2>1
<1>6. sum = [k \in 0..Len(cs) |-> IF k = 0 THEN 0 ELSE sum[k - 1] + Span(cs[k])]
  BY <1>5, <1>0a
<1>7. sum[0] = 0
  BY <1>0, <1>6
<1>8. ASSUME NEW k \in 1..Len(cs)  PROVE sum[k] = sum[k - 1] + Span(cs[k])
  <2>1. k \in 0..Len(cs) /\ k # 0
    BY <1>0
  <2> QED  BY <1>6, <2>1
<1>9. \A k \in 0..Len(cs) : sum[k] \in Int
  <2>1. ASSUME NEW k \in 1..Len(cs), sum[k - 1] \in Int  PROVE sum[k] \in Int
    BY <1>0, <1>8, <2>1
  <2> DEFINE V == Int
  <2>2. sum[0] \in V /\ \A k \in 1..Len(cs) : sum[k - 1] \in V => sum[k] \in V
    BY <1>7, <2>1
  <2> HIDE DEF V
  <2>3. \A k \in 0..Len(cs) : sum[k] \in V
    BY <1>0, <2>2, Carried
  <2> QED  BY <2>3 DEF V
<1>10. sum \in [0..Len(cs) -> Int]
  BY <1>6, <1>9
<1>11. Adding(sum, cs)
  BY <1>1, <1>7, <1>8, <1>10 DEF Adding
<1> QED  BY <1>11

LEMMA LengthOfNone ==
  ASSUME NEW n \in Nat, NEW cs \in Seq(ClipsOf(n)), Len(cs) = 0
  PROVE  Length(cs) = 0
  BY LengthIs DEF Adding

LEMMA LengthOfOne ==
  ASSUME NEW n \in Nat, NEW cs \in Seq(ClipsOf(n)), Len(cs) = 1
  PROVE  Length(cs) = Span(cs[1])
<1>1. PICK f : Adding(f, cs)
  BY LengthIs
<1>2. f[0] = 0 /\ f[1] = f[1 - 1] + Span(cs[1]) /\ Length(cs) = f[1] /\ f[1] \in Int
  BY <1>1 DEF Adding
<1>3. Span(cs[1]) \in Int
  <2>1. cs[1] \in ClipsOf(n)
    OBVIOUS
  <2> QED  BY <2>1, ClipFacts DEF Span
<1> QED  BY <1>2, <1>3

LEMMA LengthOfTwo ==
  ASSUME NEW n \in Nat, NEW cs \in Seq(ClipsOf(n)), Len(cs) = 2
  PROVE  Length(cs) = Span(cs[1]) + Span(cs[2])
<1>1. PICK f : Adding(f, cs)
  BY LengthIs
<1>2. /\ f[0] = 0 /\ f[1] = f[1 - 1] + Span(cs[1])
      /\ f[2] = f[2 - 1] + Span(cs[2]) /\ Length(cs) = f[2]
  BY <1>1 DEF Adding
<1>3. Span(cs[1]) \in Int /\ Span(cs[2]) \in Int
  <2>1. cs[1] \in ClipsOf(n) /\ cs[2] \in ClipsOf(n)
    <3>1. 1 \in 1..Len(cs) /\ 2 \in 1..Len(cs)
      OBVIOUS
    <3> QED  BY <3>1, ElementOfSeq
  <2> QED  BY <2>1, ClipFacts DEF Span
<1> QED  BY <1>2, <1>3

\* The clips of `whole` but those with an id in `gone`, with their lengths.
Left(cs, whole, gone) ==
  /\ \A i \in 1..Len(cs) : \E j \in 1..Len(whole) :
       /\ cs[i].id = whole[j].id /\ Span(cs[i]) = Span(whole[j])
       /\ whole[j].id \notin gone
  /\ \A j \in 1..Len(whole) :
       whole[j].id \notin gone => \E i \in 1..Len(cs) : cs[i].id = whole[j].id

LEMMA LeftAll ==
  ASSUME NEW cs, NEW gone, \A i \in 1..Len(cs) : cs[i].id \notin gone
  PROVE  Left(cs, cs, gone)
  BY DEF Left

LEMMA LeftOfLeft ==
  ASSUME NEW a, NEW b, NEW c, NEW g, NEW h, Left(a, b, g), Left(b, c, h)
  PROVE  Left(a, c, g \union h)
<1>1. ASSUME NEW i \in 1..Len(a)
      PROVE  \E j \in 1..Len(c) : /\ a[i].id = c[j].id /\ Span(a[i]) = Span(c[j])
                                  /\ c[j].id \notin g \union h
  <2>1. PICK k \in 1..Len(b) : a[i].id = b[k].id /\ Span(a[i]) = Span(b[k]) /\ b[k].id \notin g
    BY DEF Left
  <2>2. PICK j \in 1..Len(c) : b[k].id = c[j].id /\ Span(b[k]) = Span(c[j]) /\ c[j].id \notin h
    BY DEF Left
  <2> QED  BY <2>1, <2>2
<1>2. ASSUME NEW j \in 1..Len(c), c[j].id \notin g \union h
      PROVE  \E i \in 1..Len(a) : a[i].id = c[j].id
  <2>1. PICK k \in 1..Len(b) : b[k].id = c[j].id
    BY <1>2 DEF Left
  <2>2. PICK i \in 1..Len(a) : a[i].id = b[k].id
    BY <1>2, <2>1 DEF Left
  <2> QED  BY <2>1, <2>2
<1> QED  BY <1>1, <1>2 DEF Left

LEMMA ClosedLeft ==
  ASSUME NEW n \in Nat, NEW cs \in Lists(n), NEW id \in Ids(cs)
  PROVE  Left(Closed(cs, id), cs, {id})
<1> DEFINE gone == cs[Find(cs, id)]
           places == {i \in DOMAIN cs : cs[i].id # id}
           left == Kept(cs, places)
           by == gone.start - gone.end
           ds == [k \in DOMAIN left |-> IF left[k].start >= gone.end
                                        THEN Moved(left[k], by) ELSE left[k]]
<1>1. Closed(cs, id) = ds
  BY DEF Closed, Without
<1>2. cs \in Seq(ClipsOf(n)) /\ Len(cs) \in Nat /\ DOMAIN cs = 1..Len(cs)
  BY ListFacts
<1>3. PICK m : Picks(m, left, cs, places, Len(cs))
  BY <1>2, KeptPicks
<1>4. left \in Lists(n)
  BY KeptList
<1>5. gone \in ClipsOf(n)
  BY FindIs, ListFacts
<1>6. by \in Int
  BY <1>5, ClipFacts
<1>7. /\ m \in [1..Len(left) -> 1..Len(cs)]
      /\ \A i \in 1..Len(left) : cs[m[i]].id # id /\ left[i] = cs[m[i]]
      /\ \A k \in 1..Len(cs) : cs[k].id # id => \E i \in 1..Len(left) : m[i] = k
  BY <1>2, <1>3 DEF Picks
<1> HIDE DEF gone, by, left, places
<1>8. DOMAIN left = 1..Len(left) /\ Len(left) \in Nat /\ \A k \in 1..Len(left) : left[k] \in ClipsOf(n)
  BY <1>4, ListFacts
<1>9. ASSUME NEW k \in 1..Len(left)
      PROVE  ds[k].id = left[k].id /\ Span(ds[k]) = Span(left[k])
  <2>1. left[k] \in ClipsOf(n) /\ left[k].start \in Int /\ left[k].end \in Int
    BY <1>8, ClipFacts
  <2>2. ds[k] = IF left[k].start >= gone.end THEN Moved(left[k], by) ELSE left[k]
    BY <1>8
  <2> DEFINE c == left[k]
             d == Moved(c, by)
  <2>3. d.id = c.id /\ d.start = c.start + by /\ d.end = c.end + by
    BY <1>6, <2>1, MovedIs
  <2>4. Span(d) = Span(c)
    <3> HIDE DEF c, d
    <3> QED  BY <1>6, <2>1, <2>3 DEF Span, c
  <2>5. ds[k] = IF c.start >= gone.end THEN d ELSE c
    BY <2>2
  <2> HIDE DEF d, ds
  <2> QED  BY <2>3, <2>4, <2>5
<1>10. Len(ds) = Len(left)
  BY <1>8
<1> HIDE DEF ds
<1>11. ASSUME NEW i \in 1..Len(ds)
       PROVE  \E j \in 1..Len(cs) : /\ ds[i].id = cs[j].id /\ Span(ds[i]) = Span(cs[j])
                                    /\ cs[j].id \notin {id}
  <2>1. i \in 1..Len(left) /\ m[i] \in 1..Len(cs)
    BY <1>7, <1>10
  <2> QED  BY <1>7, <1>9, <2>1
<1>12. ASSUME NEW j \in 1..Len(cs), cs[j].id \notin {id}
       PROVE  \E i \in 1..Len(ds) : ds[i].id = cs[j].id
  <2>1. PICK i \in 1..Len(left) : m[i] = j
    BY <1>7, <1>12
  <2> QED  BY <1>7, <1>9, <1>10, <2>1
<1> QED  BY <1>1, <1>11, <1>12 DEF Left

LEMMA RippleLeft ==
  ASSUME NEW n \in Nat, NEW ed \in Editors(n), NEW id
  PROVE  Left(RippleDelete(ed, id).clips, ed.clips, {id})
<1>1. ed.clips \in Lists(n) /\ DOMAIN ed.clips = 1..Len(ed.clips)
  BY EditorFacts, ListFacts
<1>2. CASE id \in Ids(ed.clips)
  BY <1>1, <1>2, ClosedLeft, RippleDeleteIs
<1>3. CASE id \notin Ids(ed.clips)
  <2>1. \A i \in 1..Len(ed.clips) : ed.clips[i].id \notin {id}
    BY <1>1, <1>3 DEF Ids
  <2> QED  BY <1>3, <2>1, LeftAll, RippleDeleteIs
<1> QED  BY <1>2, <1>3

LEMMA EachDeletedLeft ==
  ASSUME NEW n \in Nat, NEW ed \in Editors(n), NEW cs, Len(cs) \in Nat
  PROVE  Left(EachDeleted(ed, cs).clips, ed.clips, {cs[k].id : k \in 1..Len(cs)})
<1>1. PICK f : Deleting(f, Editors(n), ed, cs)
  BY EachDeletedIs
<1> DEFINE gone(k) == {cs[j].id : j \in 1..k}
           S == {k \in 0..Len(cs) : Left(f[k].clips, ed.clips, gone(k))}
<1>2. 0 \in S
  <2>1. f[0] = ed /\ gone(0) = {}
    BY <1>1 DEF Deleting
  <2>2. Left(ed.clips, ed.clips, {})
    BY LeftAll
  <2>3. 0 \in 0..Len(cs)
    OBVIOUS
  <2> HIDE DEF gone
  <2>4. Left(f[0].clips, ed.clips, gone(0))
    BY <2>1, <2>2
  <2> QED  BY <2>3, <2>4
<1>3. ASSUME NEW k \in 1..Len(cs), k - 1 \in S  PROVE k \in S
  <2>1. f[k - 1] \in Editors(n) /\ f[k] = RippleDelete(f[k - 1], cs[k].id)
    BY <1>1, <1>3 DEF Deleting
  <2>2. Left(f[k].clips, f[k - 1].clips, {cs[k].id})
    BY <2>1, RippleLeft
  <2>3. Left(f[k - 1].clips, ed.clips, gone(k - 1))
    BY <1>3
  <2>4. {cs[k].id} \union gone(k - 1) = gone(k)
    BY <1>3
  <2> HIDE DEF gone
  <2>5. Left(f[k].clips, ed.clips, {cs[k].id} \union gone(k - 1))
    BY <2>2, <2>3, LeftOfLeft
  <2>6. Left(f[k].clips, ed.clips, gone(k))
    BY <2>4, <2>5
  <2>7. k \in 0..Len(cs)
    OBVIOUS
  <2> QED  BY <2>6, <2>7
<1> HIDE DEF S
<1>4. \A k \in 0..Len(cs) : k \in S
  BY <1>2, <1>3, Climb
<1>5. Left(f[Len(cs)].clips, ed.clips, gone(Len(cs)))
  <2>1. Len(cs) \in S
    BY <1>4
  <2> HIDE DEF gone
  <2> QED  BY <2>1 DEF S
<1> QED  BY <1>1, <1>5 DEF Deleting

\* After a cut a clip is there as it was, or in two halves.
Whole(ds, c) ==
  \E j \in 1..Len(ds) : /\ ds[j].id = c.id /\ ds[j].start = c.start /\ ds[j].end = c.end
                        /\ \A p \in 1..Len(ds) : PieceOf(ds[p].id, c.id) => p = j
Halved(ds, c, v) ==
  /\ c.start < v /\ v < c.end
  /\ \E j, l \in 1..Len(ds) :
       /\ j # l
       /\ ds[j].start = c.start /\ ds[j].end = v
       /\ ds[l].start = v /\ ds[l].end = c.end
       /\ PieceOf(ds[j].id, c.id) /\ PieceOf(ds[l].id, c.id)
       /\ \A p \in 1..Len(ds) : PieceOf(ds[p].id, c.id) => p \in {j, l}

LEMMA CutPieces ==
  ASSUME NEW n \in Nat, NEW cs \in Lists(n), NEW i \in 1..Len(cs), NEW t \in Int,
         NEW k \in 1..Len(cs), NEW p \in 1..(Len(cs) + 1), PieceOf(Cut(cs, i, t)[p].id, cs[k].id)
  PROVE  /\ k = i => p \in {i, i + 1}
         /\ k < i => p = k
         /\ k > i => p = k + 1
<1> DEFINE N == Len(cs)
           ds == Cut(cs, i, t)
           h == Halves(cs[i], t)
<1>1. N \in Nat /\ \A q \in 1..N : cs[q] \in ClipsOf(n) /\ cs[q].id \in Seq(Nat)
  BY ListFacts, ClipFacts
<1>2. h[1].id = Append(cs[i].id, 0) /\ h[2].id = Append(cs[i].id, 1)
  <2> HIDE DEF h
  <2>1. cs[i] \in ClipsOf(n)
    BY <1>1
  <2>2. HalvesOf(n, cs[i], t, h)
    BY <2>1, HalvesAre DEF h
  <2> QED  BY <2>2 DEF HalvesOf
<1>3. /\ p < i => ds[p] = cs[p]
      /\ p = i => ds[p] = h[1]
      /\ p = i + 1 => ds[p] = h[2]
      /\ p > i + 1 => ds[p] = cs[p - 1]
  BY CutIs
<1>4. PieceOf(ds[p].id, cs[k].id)
  OBVIOUS
<1> HIDE DEF ds, h
<1>5. CASE p < i
  <2>1. p \in 1..N /\ PieceOf(cs[p].id, cs[k].id)
    BY <1>1, <1>3, <1>4, <1>5
  <2>2. p = k
    BY <2>1, ListFacts
  <2> QED  BY <1>1, <1>5, <2>2
<1>6. CASE p > i + 1
  <2>1. p - 1 \in 1..N /\ PieceOf(cs[p - 1].id, cs[k].id)
    BY <1>1, <1>3, <1>4, <1>6
  <2>2. p - 1 = k
    BY <2>1, ListFacts
  <2> QED  BY <1>1, <1>6, <2>2
<1>7. CASE p \in {i, i + 1}
  <2>1. PICK x \in {0, 1} : ds[p].id = Append(cs[i].id, x)
    BY <1>1, <1>2, <1>3, <1>7
  <2>2. PieceOf(cs[i].id, cs[k].id) \/ PieceOf(cs[k].id, cs[i].id)
    BY <1>1, <1>4, <2>1, HalfRelatives
  <2>3. i = k
    BY <2>2, ListFacts
  <2> QED  BY <1>1, <1>7, <2>3
<1> QED
  <2>1. i \in Int /\ p \in Int
    BY <1>1
  <2> QED  BY <1>5, <1>6, <1>7, <2>1

LEMMA UncutWhole ==
  ASSUME NEW n \in Nat, NEW cs \in Lists(n), NEW k \in 1..Len(cs)
  PROVE  Whole(cs, cs[k])
  BY ListFacts DEF Whole

LEMMA CutWhole ==
  ASSUME NEW n \in Nat, NEW cs \in Lists(n), NEW i \in 1..Len(cs), NEW t \in Int,
         NEW k \in 1..Len(cs), k # i
  PROVE  Whole(Cut(cs, i, t), cs[k])
<1> DEFINE N == Len(cs)
           ds == Cut(cs, i, t)
           j == IF k < i THEN k ELSE k + 1
<1>1. N \in Nat /\ i \in Int /\ k \in Int
  BY ListFacts
<1>2. j \in 1..(N + 1) /\ (k < i => j < i) /\ (k > i => j > i + 1 /\ j - 1 = k)
      /\ (k < i => j = k) /\ (k < i \/ k > i)
  BY <1>1
<1> HIDE DEF j
<1>3. Len(ds) = N + 1 /\ ds[j] = cs[k]
  <2>1. Len(ds) = N + 1 /\ (j < i => ds[j] = cs[j]) /\ (j > i + 1 => ds[j] = cs[j - 1])
    BY <1>2, CutIs
  <2> QED  BY <1>2, <2>1
<1>4. ASSUME NEW p \in 1..(N + 1), PieceOf(ds[p].id, cs[k].id)  PROVE p = j
  <2>1. (k < i => p = k) /\ (k > i => p = k + 1)
    BY <1>4, CutPieces
  <2> QED  BY <1>1, <1>2, <2>1 DEF j
<1> HIDE DEF ds, N
<1>5. Whole(ds, cs[k])
  BY <1>2, <1>3, <1>4 DEF Whole
<1> QED  BY <1>5 DEF ds

LEMMA CutHalved ==
  ASSUME NEW n \in Nat, NEW cs \in Lists(n), NEW i \in 1..Len(cs), NEW t \in Int,
         cs[i].start < t, t < cs[i].end
  PROVE  Halved(Cut(cs, i, t), cs[i], t)
<1> DEFINE N == Len(cs)
           ds == Cut(cs, i, t)
           h == Halves(cs[i], t)
<1>1. N \in Nat /\ i \in Int /\ cs[i] \in ClipsOf(n) /\ cs[i].id \in Seq(Nat)
  BY ListFacts, ClipFacts
<1>2. /\ h[1].id = Append(cs[i].id, 0) /\ h[2].id = Append(cs[i].id, 1)
      /\ h[1].start = cs[i].start /\ h[1].end = t
      /\ h[2].start = t /\ h[2].end = cs[i].end
  <2> HIDE DEF h
  <2>1. cs[i] \in ClipsOf(n)
    BY <1>1
  <2>2. HalvesOf(n, cs[i], t, h)
    BY <2>1, HalvesAre DEF h
  <2> QED  BY <2>2 DEF HalvesOf
<1>3. i \in 1..(N + 1) /\ i + 1 \in 1..(N + 1) /\ i # i + 1
  BY <1>1
<1>4. Len(ds) = N + 1 /\ ds[i] = h[1] /\ ds[i + 1] = h[2]
  BY <1>3, CutIs
<1>5. PieceOf(h[1].id, cs[i].id) /\ PieceOf(h[2].id, cs[i].id)
  BY <1>1, <1>2, HalfRelatives
<1>6. ASSUME NEW p \in 1..(N + 1), PieceOf(ds[p].id, cs[i].id)  PROVE p \in {i, i + 1}
  BY <1>6, CutPieces
<1> HIDE DEF ds, h, N
<1> DEFINE j == i
           l == i + 1
<1>7. /\ j \in 1..Len(ds) /\ l \in 1..Len(ds) /\ j # l
      /\ ds[j].start = cs[i].start /\ ds[j].end = t
      /\ ds[l].start = t /\ ds[l].end = cs[i].end
      /\ PieceOf(ds[j].id, cs[i].id) /\ PieceOf(ds[l].id, cs[i].id)
      /\ \A p \in 1..Len(ds) : PieceOf(ds[p].id, cs[i].id) => p \in {j, l}
  BY <1>2, <1>3, <1>4, <1>5, <1>6
<1> HIDE DEF j, l
<1>8. Halved(ds, cs[i], t)
  BY <1>7 DEF Halved
<1> QED  BY <1>8 DEF ds

\* A range cuts one clip at most, at one of its ends: of what the first cut
\* splits the left half is selected, which ends where the range begins.
LEMMA RangeCuts ==
  ASSUME NEW n \in Nat, NEW ed \in Editors(n), NEW t \in Int, NEW u \in Int, t < u,
         NEW k \in 1..Len(ed.clips)
  PROVE  LET ds == Split(Split(ed, t), u).clips
         IN \/ Whole(ds, ed.clips[k])
            \/ \E v \in {t, u} : Halved(ds, ed.clips[k], v)
<1> DEFINE cs == ed.clips
           first == Split(ed, t)
           cut == Split(first, u)
           i == Target(ed)
<1>1. cs \in Lists(n) /\ first \in Editors(n) /\ first.clips \in Lists(n) /\ Margin \in Nat
  BY EditorFacts, SplitIs, TimelineAssumption DEF TimelineAssumption
<1>0. ASSUME NEW x \in Int, i \in 1..Len(cs), MaySplit(ed, x)
      PROVE  cs[i].start < x /\ x < cs[i].end
  <2> DEFINE a == cs[i].start
             b == cs[i].end
  <2>1. a \in Int /\ b \in Int
    BY <1>0, <1>1, ListFacts, ClipFacts
  <2>2. a + Margin < x /\ x < b - Margin
    BY <1>0 DEF MaySplit
  <2> HIDE DEF a, b
  <2>3. a < x /\ x < b
    BY <1>1, <2>1, <2>2
  <2> QED  BY <2>3 DEF a, b
<1>2. CASE MaySplit(ed, t)
  <2>1. i \in 1..Len(cs) /\ first.clips = Cut(cs, i, t) /\ first.selected = Append(cs[i].id, 0)
    BY <1>2, SplitIs
  <2>2. cs[i] \in ClipsOf(n) /\ cs[i].start \in Int /\ cs[i].end \in Int /\ cs[i].id \in Seq(Nat)
    BY <1>1, <2>1, ListFacts, ClipFacts
  <2>3. cs[i].start < t /\ t < cs[i].end
    BY <1>0, <1>2, <2>1
  <2> HIDE DEF i, first
  <2>4. Len(cs) \in Nat /\ Len(first.clips) = Len(cs) + 1 /\ i \in 1..Len(first.clips)
        /\ first.clips[i] = Halves(cs[i], t)[1]
    <3> HIDE DEF cs
    <3>1. Len(cs) \in Nat /\ Len(first.clips) = Len(cs) + 1
      BY <1>1, <2>1, CutIs, ListFacts
    <3>2. i \in 1..(Len(cs) + 1)
      BY <2>1, <3>1
    <3>3. first.clips[i] = Halves(cs[i], t)[1]
      BY <1>1, <2>1, <3>2, CutIs
    <3> QED  BY <3>1, <3>2, <3>3
  <2>5. first.clips[i].id = Append(cs[i].id, 0) /\ first.clips[i].end = t
    <3> DEFINE h == Halves(cs[i], t)
    <3>1. HalvesOf(n, cs[i], t, h) /\ first.clips[i] = h[1]
      BY <2>2, <2>4, HalvesAre
    <3> HIDE DEF h
    <3> QED  BY <3>1 DEF HalvesOf
  <2>6. Find(first.clips, first.selected) = i
    <3>1. first.selected \in Ids(first.clips)
      BY <1>1, <2>1, <2>4, <2>5, ListFacts DEF Ids
    <3> DEFINE q == Find(first.clips, first.selected)
    <3>2. q \in 1..Len(first.clips) /\ first.clips[q].id = first.clips[i].id
      BY <1>1, <2>1, <2>5, <3>1, FindIs
    <3> HIDE DEF q
    <3>3. q = i
      BY <1>1, <2>4, <3>2, NoTwins
    <3> QED  BY <3>3 DEF q
  <2>7. first.selected # NoClip
    <3>1. Len(first.selected) = Len(cs[i].id) + 1 /\ Len(cs[i].id) \in Nat
      BY <2>1, <2>2, AppendProperties
    <3>2. Len(NoClip) = 0
      BY DEF NoClip
    <3> QED  BY <3>1, <3>2
  <2>8. ~MaySplit(first, u)
    <3>1. Target(first) = i
      BY <2>6, <2>7 DEF Target
    <3> QED  BY <1>1, <2>5, <3>1 DEF MaySplit
  <2>9. cut.clips = Cut(cs, i, t)
    BY <1>1, <2>1, <2>8, SplitIs
  <2>10. CASE k = i
    BY <1>1, <2>1, <2>3, <2>9, <2>10, CutHalved DEF first
  <2>11. CASE k # i
    BY <1>1, <2>1, <2>9, <2>11, CutWhole DEF first
  <2> QED  BY <2>10, <2>11
<1>3. CASE ~MaySplit(ed, t) /\ MaySplit(ed, u)
  <2>0. first = ed
    BY <1>3, SplitIs
  <2>1. i \in 1..Len(cs) /\ cut.clips = Cut(cs, i, u)
    BY <1>3, <2>0, SplitIs
  <2>3. cs[i].start < u /\ u < cs[i].end
    BY <1>0, <1>3, <2>1
  <2> HIDE DEF i, first
  <2>4. CASE k = i
    BY <1>1, <2>1, <2>3, <2>4, CutHalved DEF first
  <2>5. CASE k # i
    BY <1>1, <2>1, <2>5, CutWhole DEF first
  <2> QED  BY <2>4, <2>5
<1>4. CASE ~MaySplit(ed, t) /\ ~MaySplit(ed, u)
  <2>1. cut = ed
    BY <1>4, SplitIs
  <2>2. Whole(cs, cs[k])
    BY <1>1, UncutWhole
  <2> QED  BY <2>1, <2>2
<1> QED  BY <1>2, <1>3, <1>4

\* The clips of a list are, in some order, those at these places of another.
Matches(rs, ds, P) ==
  /\ \A i \in 1..Len(rs) : \E p \in P : rs[i].id = ds[p].id /\ Span(rs[i]) = Span(ds[p])
  /\ \A p \in P : \E i \in 1..Len(rs) : rs[i].id = ds[p].id

LEMMA MatchNone ==
  ASSUME NEW n \in Nat, NEW rs \in Lists(n), NEW ds, Matches(rs, ds, {})
  PROVE  Length(rs) = 0
<1>1. rs \in Seq(ClipsOf(n)) /\ Len(rs) \in Nat
  BY ListFacts
<1>2. \A i \in 1..Len(rs) : FALSE
  BY DEF Matches
<1> DEFINE N == Len(rs)
<1>3. N \in Nat /\ \A i \in 1..N : FALSE
  BY <1>1, <1>2
<1> HIDE DEF N
<1>4. N = 0
  <2>1. ~(1 \in 1..N)
    BY <1>3
  <2> QED  BY <1>3, <2>1
<1>5. Len(rs) = 0
  BY <1>4 DEF N
<1> QED  BY <1>1, <1>5, LengthOfNone

LEMMA MatchOne ==
  ASSUME NEW n \in Nat, NEW rs \in Lists(n), NEW ds, NEW j, Matches(rs, ds, {j})
  PROVE  Length(rs) = Span(ds[j])
<1>1. rs \in Seq(ClipsOf(n)) /\ Len(rs) \in Nat
  BY ListFacts
<1>2. PICK i \in 1..Len(rs) : rs[i].id = ds[j].id
  BY DEF Matches
<1>3. \A q \in 1..Len(rs) : q = i
  BY <1>2, NoTwins DEF Matches
<1>4. Len(rs) = 1
  <2> DEFINE N == Len(rs)
  <2>1. N \in Nat /\ i \in 1..N /\ \A q \in 1..N : q = i
    BY <1>1, <1>3
  <2> HIDE DEF N
  <2>2. 1 \in 1..N /\ N \in 1..N
    BY <2>1
  <2>3. N = 1
    BY <2>1, <2>2
  <2> QED  BY <2>3 DEF N
<1>5. 1 \in 1..Len(rs)
  BY <1>4
<1>6. Span(rs[1]) = Span(ds[j])
  BY <1>5 DEF Matches
<1> QED  BY <1>1, <1>4, <1>6, LengthOfOne

LEMMA MatchTwo ==
  ASSUME NEW n \in Nat, NEW rs \in Lists(n), NEW ds \in Lists(n), NEW j \in 1..Len(ds),
         NEW l \in 1..Len(ds), j # l, Matches(rs, ds, {j, l})
  PROVE  Length(rs) = Span(ds[j]) + Span(ds[l])
<1>1. rs \in Seq(ClipsOf(n)) /\ Len(rs) \in Nat
  BY ListFacts
<1>2. ds[j].id # ds[l].id
  BY NoTwins
<1>3. PICK a \in 1..Len(rs) : rs[a].id = ds[j].id
  BY DEF Matches
<1>4. PICK b \in 1..Len(rs) : rs[b].id = ds[l].id
  BY DEF Matches
<1>5. a # b
  BY <1>2, <1>3, <1>4
<1>6. \A q \in 1..Len(rs) : q \in {a, b}
  BY <1>3, <1>4, NoTwins DEF Matches
<1>7. Len(rs) = 2 /\ ((a = 1 /\ b = 2) \/ (a = 2 /\ b = 1))
  <2> DEFINE N == Len(rs)
  <2>1. N \in Nat /\ a \in 1..N /\ b \in 1..N /\ a # b /\ \A q \in 1..N : q \in {a, b}
    BY <1>1, <1>5, <1>6
  <2> HIDE DEF N
  <2>2. N >= 2 /\ 1 \in {a, b} /\ 2 \in {a, b}
    <3>1. N >= 2
      BY <2>1
    <3>2. 1 \in 1..N /\ 2 \in 1..N
      BY <2>1, <3>1
    <3> QED  BY <2>1, <3>1, <3>2
  <2>3. ~(N >= 3)
    <3>1. SUFFICES ASSUME N >= 3 PROVE FALSE
      OBVIOUS
    <3>2. 3 \in 1..N
      BY <2>1, <3>1
    <3> QED  BY <2>1, <2>2, <3>2
  <2>4. N = 2 /\ ((a = 1 /\ b = 2) \/ (a = 2 /\ b = 1))
    BY <2>1, <2>2, <2>3
  <2> QED  BY <2>4 DEF N
<1>8. Span(rs[a]) = Span(ds[j]) /\ Span(rs[b]) = Span(ds[l])
  <2>1. PICK p \in {j, l} : rs[a].id = ds[p].id /\ Span(rs[a]) = Span(ds[p])
    BY DEF Matches
  <2>2. PICK q \in {j, l} : rs[b].id = ds[q].id /\ Span(rs[b]) = Span(ds[q])
    BY DEF Matches
  <2> QED  BY <1>2, <1>3, <1>4, <2>1, <2>2
<1>9. Length(rs) = Span(rs[1]) + Span(rs[2])
  BY <1>1, <1>7, LengthOfTwo
<1>10. Span(ds[j]) \in Int /\ Span(ds[l]) \in Int
  BY ListFacts, ClipFacts DEF Span
<1>11. CASE a = 1 /\ b = 2
  BY <1>8, <1>9, <1>11
<1>12. CASE a = 2 /\ b = 1
  BY <1>8, <1>9, <1>10, <1>12
<1> QED  BY <1>7, <1>11, <1>12

\* What remains of a clip: its pieces that are not deleted.
LEMMA RemainsMatch ==
  ASSUME NEW n \in Nat, NEW cs \in Lists(n), NEW ds \in Lists(n), NEW gone, NEW id,
         Left(cs, ds, gone)
  PROVE  /\ Remains(cs, id) \in Lists(n)
         /\ Matches(Remains(cs, id), ds,
                    {p \in 1..Len(ds) : PieceOf(ds[p].id, id) /\ ds[p].id \notin gone})
<1> DEFINE places == {i \in DOMAIN cs : PieceOf(cs[i].id, id)}
           rs == Kept(cs, places)
           P == {p \in 1..Len(ds) : PieceOf(ds[p].id, id) /\ ds[p].id \notin gone}
<1>1. cs \in Seq(ClipsOf(n)) /\ DOMAIN cs = 1..Len(cs)
  BY ListFacts
<1>2. PICK m : Picks(m, rs, cs, places, Len(cs))
  BY <1>1, KeptPicks
<1>3. rs \in Lists(n) /\ Remains(cs, id) = rs
  BY KeptList DEF Remains
<1>4. /\ m \in [1..Len(rs) -> 1..Len(cs)]
      /\ \A i \in 1..Len(rs) : PieceOf(cs[m[i]].id, id) /\ rs[i] = cs[m[i]]
      /\ \A k \in 1..Len(cs) : PieceOf(cs[k].id, id) => \E i \in 1..Len(rs) : m[i] = k
  BY <1>1, <1>2 DEF Picks
<1> HIDE DEF rs, places
<1>5. ASSUME NEW i \in 1..Len(rs)
      PROVE  \E p \in P : rs[i].id = ds[p].id /\ Span(rs[i]) = Span(ds[p])
  <2>1. m[i] \in 1..Len(cs) /\ PieceOf(cs[m[i]].id, id) /\ rs[i] = cs[m[i]]
    BY <1>4
  <2>2. PICK p \in 1..Len(ds) : /\ cs[m[i]].id = ds[p].id /\ Span(cs[m[i]]) = Span(ds[p])
                                /\ ds[p].id \notin gone
    BY <2>1 DEF Left
  <2>3. p \in P
    BY <2>1, <2>2
  <2> QED  BY <2>1, <2>2, <2>3
<1>6. ASSUME NEW p \in P  PROVE \E i \in 1..Len(rs) : rs[i].id = ds[p].id
  <2>1. PICK k \in 1..Len(cs) : cs[k].id = ds[p].id
    BY DEF Left
  <2>2. PICK i \in 1..Len(rs) : m[i] = k
    BY <1>4, <2>1
  <2> QED  BY <1>4, <2>1, <2>2
<1> HIDE DEF P
<1>7. Matches(rs, ds, P)
  BY <1>5, <1>6 DEF Matches
<1> QED  BY <1>3, <1>7 DEF P

LEMMA InsideIds ==
  ASSUME NEW n \in Nat, NEW cs \in Lists(n), NEW t \in Int, NEW u \in Int, NEW p \in 1..Len(cs)
  PROVE  cs[p].id \in {Inside(cs, t, u)[q].id : q \in 1..Len(Inside(cs, t, u))}
           <=> cs[p].start >= t /\ cs[p].end <= u + Slack
<1> DEFINE places == {i \in DOMAIN cs : cs[i].start >= t /\ cs[i].end <= u + Slack}
           rs == Kept(cs, places)
<1>1. cs \in Seq(ClipsOf(n)) /\ DOMAIN cs = 1..Len(cs)
  BY ListFacts
<1>2. PICK m : Picks(m, rs, cs, places, Len(cs))
  BY <1>1, KeptPicks
<1>3. Inside(cs, t, u) = rs
  BY DEF Inside
<1>4. /\ m \in [1..Len(rs) -> 1..Len(cs)]
      /\ \A q \in 1..Len(rs) : cs[m[q]].start >= t /\ cs[m[q]].end <= u + Slack /\ rs[q] = cs[m[q]]
      /\ cs[p].start >= t /\ cs[p].end <= u + Slack => \E q \in 1..Len(rs) : m[q] = p
  BY <1>1, <1>2 DEF Picks
<1> HIDE DEF rs, places
<1>5. ASSUME NEW q \in 1..Len(rs), rs[q].id = cs[p].id
      PROVE  cs[p].start >= t /\ cs[p].end <= u + Slack
  <2>1. m[q] \in 1..Len(cs) /\ cs[m[q]].id = cs[p].id
    BY <1>4, <1>5
  <2>2. m[q] = p
    BY <2>1, NoTwins
  <2> QED  BY <1>4, <2>2
<1>6. ASSUME cs[p].start >= t, cs[p].end <= u + Slack
      PROVE  \E q \in 1..Len(rs) : rs[q].id = cs[p].id
  BY <1>4, <1>6
<1> QED  BY <1>3, <1>5, <1>6

LEMMA OverlapIs ==
  ASSUME NEW c, c.start \in Int, c.end \in Int, NEW t \in Int, NEW u \in Int
  PROVE  /\ Overlap(c, t, u) \in Int /\ Overlap(c, t, u) >= 0
         /\ c.start >= t /\ c.end <= u => Overlap(c, t, u) >= c.end - c.start
         /\ c.start < t /\ c.end <= u => Overlap(c, t, u) >= c.end - t
         /\ c.start >= t /\ c.end > u => Overlap(c, t, u) >= u - c.start
<1> DEFINE s == c.start
           e == c.end
<1>1. Overlap(c, t, u) = Larger(0, Smaller(e, u) - Larger(s, t))
  BY DEF Overlap
<1> HIDE DEF s, e
<1>2. s \in Int /\ e \in Int
  BY DEF s, e
<1>3. /\ Overlap(c, t, u) \in Int /\ Overlap(c, t, u) >= 0
      /\ s >= t /\ e <= u => Overlap(c, t, u) >= e - s
      /\ s < t /\ e <= u => Overlap(c, t, u) >= e - t
      /\ s >= t /\ e > u => Overlap(c, t, u) >= u - s
  BY <1>1, <1>2 DEF Larger, Smaller
<1> QED  BY <1>3 DEF s, e

LEMMA RangeKeepsRest ==
  ASSUME NEW n \in Nat, NEW ed \in Editors(n), NEW t \in Int, NEW u \in Int, t < u,
         NEW k \in 1..Len(ed.clips)
  PROVE  LET c == ed.clips[k]
         IN Length(Remains(DeleteRange(ed, t, u).clips, c.id)) >= (c.end - c.start) - Overlap(c, t, u + Slack)
<1> DEFINE c == ed.clips[k]
           w == u + Slack
           cut == Split(Split(ed, t), u)
           ds == cut.clips
           inside == Inside(ds, t, u)
           final == EachDeleted(cut, inside)
           gone == {inside[q].id : q \in 1..Len(inside)}
           rs == Remains(final.clips, c.id)
           P == {p \in 1..Len(ds) : PieceOf(ds[p].id, c.id) /\ ds[p].id \notin gone}
<1>1. DeleteRange(ed, t, u) = final
  BY DEF DeleteRange
<1>0. w \in Int /\ u <= w /\ w = u + Slack
  BY TimelineAssumption DEF TimelineAssumption
<1>2. Whole(ds, c) \/ \E v \in {t, u} : Halved(ds, c, v)
  BY RangeCuts
<1>3. c \in ClipsOf(n) /\ c.start \in Int /\ c.end \in Int /\ c.id \in Seq(Nat)
  BY EditorFacts, ListFacts, ClipFacts
<1>4. cut \in Editors(n)
  BY SplitIs
<1> HIDE DEF cut, c
<1>5. ds \in Lists(n)
  BY <1>4, EditorFacts
<1>6. inside \in Lists(n) /\ Len(inside) \in Nat
  BY <1>5, KeptList, ListFacts DEF Inside
<1>7. \A p \in 1..Len(ds) : ds[p].id \in gone <=> ds[p].start >= t /\ ds[p].end <= w
  <2> HIDE DEF ds
  <2> QED  BY <1>5, InsideIds
<1> HIDE DEF inside
<1>8. final \in Editors(n) /\ Left(final.clips, ds, gone)
  <2>1. final \in Editors(n)
    BY <1>4, <1>6, EachDeletedKeeps
  <2>2. Left(EachDeleted(cut, inside).clips, cut.clips, {inside[q].id : q \in 1..Len(inside)})
    BY <1>4, <1>6, EachDeletedLeft
  <2> QED  BY <2>1, <2>2
<1> HIDE DEF final, gone, ds
<1>9. final.clips \in Lists(n)
  BY <1>8, EditorFacts
<1>10. rs \in Lists(n) /\ Matches(rs, ds, P)
  BY <1>5, <1>8, <1>9, RemainsMatch
<1> HIDE DEF w
<1>11. /\ Overlap(c, t, w) \in Int /\ Overlap(c, t, w) >= 0
       /\ c.start >= t /\ c.end <= w => Overlap(c, t, w) >= c.end - c.start
       /\ c.start < t /\ c.end <= w => Overlap(c, t, w) >= c.end - t
       /\ c.start >= t /\ c.end > w => Overlap(c, t, w) >= w - c.start
  BY <1>3, <1>0, OverlapIs
<1> HIDE DEF rs
<1>12. ASSUME Whole(ds, c)  PROVE Length(rs) >= (c.end - c.start) - Overlap(c, t, w)
  <2>1. PICK j \in 1..Len(ds) :
          /\ ds[j].id = c.id /\ ds[j].start = c.start /\ ds[j].end = c.end
          /\ \A p \in 1..Len(ds) : PieceOf(ds[p].id, c.id) => p = j
    BY <1>12 DEF Whole
  <2>2. PieceOf(ds[j].id, c.id)
    BY <1>3, <2>1, SameIsPiece
  <2>3. CASE ds[j].id \in gone
    <3>1. P = {}
      BY <2>1, <2>3
    <3>2. Length(rs) = 0
      BY <1>10, <3>1, MatchNone
    <3>3. c.start >= t /\ c.end <= w
      BY <1>7, <2>1, <2>3
    <3> QED  BY <1>3, <1>11, <3>2, <3>3
  <2>4. CASE ds[j].id \notin gone
    <3>1. P = {j}
      BY <2>1, <2>2, <2>4
    <3>2. Length(rs) = Span(ds[j])
      BY <1>10, <3>1, MatchOne
    <3>3. Length(rs) = c.end - c.start
      BY <2>1, <3>2 DEF Span
    <3> QED  BY <1>3, <1>11, <3>3
  <2> QED  BY <2>3, <2>4
<1>13. ASSUME NEW v \in {t, u}, Halved(ds, c, v)
       PROVE  Length(rs) >= (c.end - c.start) - Overlap(c, t, w)
  <2>1. PICK j, l \in 1..Len(ds) :
          /\ j # l
          /\ ds[j].start = c.start /\ ds[j].end = v
          /\ ds[l].start = v /\ ds[l].end = c.end
          /\ PieceOf(ds[j].id, c.id) /\ PieceOf(ds[l].id, c.id)
          /\ \A p \in 1..Len(ds) : PieceOf(ds[p].id, c.id) => p \in {j, l}
    BY <1>13 DEF Halved
  <2>2. v \in Int /\ c.start < v /\ v < c.end
    BY <1>13 DEF Halved
  <2>3. Span(ds[j]) = v - c.start /\ Span(ds[l]) = c.end - v
    BY <2>1 DEF Span
  <2>4. (ds[j].id \in gone <=> c.start >= t /\ v <= w) /\ (ds[l].id \in gone <=> v >= t /\ c.end <= w)
    BY <1>7, <2>1
  <2>5. CASE ds[j].id \in gone /\ ds[l].id \notin gone
    <3>1. P = {l}
      BY <2>1, <2>5
    <3>2. Length(rs) = Span(ds[l])
      BY <1>10, <3>1, MatchOne
    <3>3. v >= t /\ v <= w /\ c.start >= t /\ c.end > w
      BY <1>3, <1>0, <2>2, <2>4, <2>5
    <3> QED  BY <1>3, <1>11, <1>0, <2>2, <2>3, <3>2, <3>3
  <2>6. CASE ds[j].id \notin gone /\ ds[l].id \in gone
    <3>1. P = {j}
      BY <2>1, <2>6
    <3>2. Length(rs) = Span(ds[j])
      BY <1>10, <3>1, MatchOne
    <3>3. v >= t /\ c.start < t /\ c.end <= w
      BY <1>3, <1>0, <2>2, <2>4, <2>6
    <3> QED  BY <1>3, <1>11, <1>0, <2>2, <2>3, <3>2, <3>3
  <2>7. CASE ds[j].id \notin gone /\ ds[l].id \notin gone
    <3>1. P = {j, l}
      BY <2>1, <2>7
    <3>2. Length(rs) = Span(ds[j]) + Span(ds[l])
      BY <1>5, <1>10, <2>1, <3>1, MatchTwo
    <3>3. Length(rs) = c.end - c.start
      <4> DEFINE a == c.start
                 b == c.end
      <4>0. a \in Int /\ b \in Int
        BY <1>3
      <4> HIDE DEF a, b
      <4>2. (v - a) + (b - v) = b - a
        BY <2>2, <4>0
      <4>1. (v - c.start) + (c.end - v) = c.end - c.start
        BY <4>2 DEF a, b
      <4> QED  BY <2>3, <3>2, <4>1
    <3> QED  BY <1>3, <1>11, <3>3
  <2>8. CASE ds[j].id \in gone /\ ds[l].id \in gone
    <3>1. P = {}
      BY <2>1, <2>8
    <3>2. Length(rs) = 0
      BY <1>10, <3>1, MatchNone
    <3>3. c.start >= t /\ c.end <= w
      BY <2>4, <2>8
    <3> QED  BY <1>3, <1>11, <3>2, <3>3
  <2> QED  BY <2>5, <2>6, <2>7, <2>8
<1>14. Length(rs) >= (c.end - c.start) - Overlap(c, t, w)
  BY <1>2, <1>12, <1>13
<1> QED  BY <1>1, <1>14 DEF c, rs, w

\* "Delete & Close Gap" leaves of every clip what was not selected of it, but
\* for the hundredth of a second by which a clip may end after the selection,
\* for all lists of clips, all cuts and all selections (handleDeleteSelection).
THEOREM TimelineKeepsRest == Spec => KeepsRest
<1> DEFINE KeepsIt == \A t, u \in Times : CutRange(t, u) =>
                      \A i \in DOMAIN editor.clips :
                        LET c == editor.clips[i]
                        IN Length(Remains(editor'.clips, c.id))
                             >= (c.end - c.start) - Overlap(c, t, u + Slack)
<1>1. TimelineInv /\ [Next]_vars => [KeepsIt]_vars
  <2> SUFFICES ASSUME TimelineInv, NEW t \in Times, NEW u \in Times, CutRange(t, u),
                      NEW i \in DOMAIN editor.clips
               PROVE  LET c == editor.clips[i]
                      IN Length(Remains(editor'.clips, c.id))
                           >= (c.end - c.start) - Overlap(c, t, u + Slack)
    OBVIOUS
  <2>1. t \in Int /\ u \in Int /\ t < u /\ editor' = DeleteRange(editor, t, u)
    BY CutPoints DEF CutRange, Manual
  <2>2. edits \in Nat /\ editor \in Editors(edits) /\ i \in 1..Len(editor.clips)
    BY InvFacts, ListFacts
  <2> QED  BY <2>1, <2>2, RangeKeepsRest
<1> QED  BY <1>1, InvHolds, PTL DEF Spec, KeepsRest

=============================================================================
