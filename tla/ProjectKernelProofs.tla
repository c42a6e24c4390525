------------------------ MODULE ProjectKernelProofs -------------------------
(***************************************************************************)
(* What ProjectKernel.tla keeps for every number of handlers and commands, *)
(* every size of the ring and of the snapshot map, and every length of the *)
(* log.                                                                    *)
(***************************************************************************)
EXTENDS ProjectKernel, FiniteSetTheorems, SequenceTheorems, TLAPS

(***************************************************************************)
(* The stacks: what Latest and Rest return.                                *)
(***************************************************************************)
LEMMA LatestFacts ==
  ASSUME NEW S, NEW s \in Seq(S), NEW n \in Nat \ {0}
  PROVE  /\ Latest(s, n) \in Seq(S)
         /\ Len(s) <= n => Latest(s, n) = s
         /\ Len(s) > n => /\ Len(Latest(s, n)) = n
                          /\ \A i \in 1..n : Latest(s, n)[i] = s[Len(s) - n + i]
<1>1. CASE Len(s) <= n
  BY <1>1 DEF Latest
<1>2. CASE Len(s) > n
  <2>1. Latest(s, n) = SubSeq(s, Len(s) - n + 1, Len(s))
    BY <1>2 DEF Latest
  <2>2. QED
    BY <1>2, <2>1, SubSeqProperties
<1>3. QED
  BY <1>1, <1>2

LEMMA RestFacts ==
  ASSUME NEW S, NEW s \in Seq(S), s # <<>>
  PROVE  /\ Rest(s) \in Seq(S)
         /\ Len(Rest(s)) = Len(s) - 1
         /\ \A i \in 1..Len(s) - 1 : Rest(s)[i] = s[i]
         /\ Top(s) \in S
<1>1. Len(s) \in Nat /\ Len(s) > 0
  BY EmptySeq
<1>2. \A i \in 1..Len(s) : s[i] \in S
  BY ElementOfSeq
<1> DEFINE n == Len(s) - 1
<1>3. 1 \in Int /\ n \in Int /\ \A i \in 1..n : s[i] \in S
  BY <1>1, <1>2
<1> HIDE DEF n
<1>4. /\ SubSeq(s, 1, n) \in Seq(S)
      /\ Len(SubSeq(s, 1, n)) = IF 1 <= n THEN n - 1 + 1 ELSE 0
      /\ \A i \in 1..n - 1 + 1 : SubSeq(s, 1, n)[i] = s[1 + i - 1]
  BY <1>3, SubSeqProperties
<1>5. Rest(s) = SubSeq(s, 1, n)
  BY DEF Rest, n
<1>6. n \in Nat /\ n - 1 + 1 = n /\ \A i \in 1..n : 1 + i - 1 = i
  BY <1>1 DEF n
<1>7. Rest(s) \in Seq(S) /\ Len(Rest(s)) = n
  BY <1>4, <1>5, <1>6
<1>8. \A i \in 1..n : Rest(s)[i] = s[i]
  BY <1>4, <1>5, <1>6, Zenon
<1>9. Top(s) \in S
  BY <1>1, <1>2 DEF Top
<1>10. QED
  BY <1>7, <1>8, <1>9 DEF n

(***************************************************************************)
(* The snapshot map: it only ever drops revisions and adds the one being   *)
(* made.                                                                   *)
(***************************************************************************)
SnapsGrow(new, m) ==
  \A r \in DOMAIN new :
    /\ r = revision + 1 \/ r \in DOMAIN snaps
    /\ new[r] = IF r = revision + 1 THEN m ELSE snaps[r]

LEMMA RememberFacts ==
  ASSUME NEW m PROVE SnapsGrow(Remember(m), m)
  BY DEF SnapsGrow, Remember

(***************************************************************************)
(* The invariant.  RingInv: an id in the ring stands at the revision the   *)
(* ring says, and an id that is about to be applied is not in the ring.    *)
(* WindowInv: an id of the last RingSize events is in the ring.  SnapInv:  *)
(* a snapshot is the composition its revision had, and a project without a *)
(* composition was created without one.                                    *)
(***************************************************************************)
RingInv ==
  /\ \A c \in DOMAIN recent : log[recent[c]].command = c
  /\ \A h \in Handlers : pc[h] = "apply" =>
       /\ Base(h) <= revision
       /\ Base(h) = revision => ~Repeated(h)

WindowInv ==
  \A i \in 1..Len(log) : i + RingSize > revision =>
    log[i].command \in DOMAIN recent /\ i <= recent[log[i].command]

SnapInv ==
  /\ \A r \in DOMAIN snaps : snaps[r] = ManifestAt(r)
  /\ manifest = NoManifest => initial = NoManifest

KernelInv == TypeOK /\ LogChained /\ RingInv /\ SnapInv

LEMMA InitInv == Init => KernelInv /\ AcksTrue /\ WindowInv /\ AppliedOncePerWindow
<1> SUFFICES ASSUME Init PROVE KernelInv /\ AcksTrue /\ WindowInv /\ AppliedOncePerWindow
  OBVIOUS
<1> USE KernelAssumption DEF KernelAssumption, Init, NoAnswer, Manifests
<1>1. DOMAIN snaps \subseteq 0..revision /\ \A r \in DOMAIN snaps : snaps[r] \in Manifests
  OBVIOUS
<1>2. undo \in Seq(0..revision) /\ redo \in Seq(0..revision)
  OBVIOUS
<1>3. TypeOK
  BY <1>1, <1>2 DEF TypeOK
<1>4. LogChained
  BY DEF LogChained, ManifestAt
<1>5. RingInv
  BY DEF RingInv
<1>6. SnapInv
  BY DEF SnapInv, ManifestAt
<1>7. AcksTrue /\ WindowInv /\ AppliedOncePerWindow
  BY DEF AcksTrue, WindowInv, AppliedOncePerWindow
<1>8. QED
  BY <1>3, <1>4, <1>5, <1>6, <1>7 DEF KernelInv

(***************************************************************************)
(* Every accepted command commits one composition m: its own, the head's,  *)
(* or one it restores.                                                     *)
(***************************************************************************)
Committed(h, m) ==
  /\ Current(h) /\ Command(h) \in Commands
  /\ m \in Manifests \union {NoManifest}
  /\ m = NoManifest => initial = NoManifest
  /\ \E op \in Ops : Commit(h, m, op)
  /\ SnapsGrow(snaps', m) /\ \A r \in DOMAIN snaps' : snaps'[r] \in Manifests
  /\ undo' \in Seq(0..revision') /\ redo' \in Seq(0..revision')

LEMMA WiderSeq ==
  ASSUME NEW n \in Nat, NEW s \in Seq(0..n) PROVE s \in Seq(0..n + 1)
<1>1. \A i \in 1..Len(s) : s[i] \in 0..n + 1
  BY ElementOfSeq
<1>2. QED
  BY <1>1

LEMMA RestoredFacts ==
  ASSUME KernelInv, NEW r \in Nat, Restorable(r)
  PROVE  /\ Restored(r) \in Manifests \union {NoManifest}
         /\ Restored(r) = NoManifest => initial = NoManifest
         /\ Restored(r) = ManifestAt(r)
         /\ SnapsGrow(SnapsAfter(r), Restored(r))
         /\ \A q \in DOMAIN SnapsAfter(r) : SnapsAfter(r)[q] \in Manifests
<1> USE KernelAssumption DEF KernelAssumption, KernelInv
<1>1. CASE r \in DOMAIN snaps
  <2>1. Restored(r) = snaps[r] /\ SnapsAfter(r) = Remember(snaps[r])
    BY <1>1 DEF Restored, SnapsAfter
  <2>2. snaps[r] \in Manifests /\ snaps[r] = ManifestAt(r)
    BY <1>1 DEF TypeOK, SnapInv
  <2>3. SnapsGrow(Remember(snaps[r]), snaps[r])
    BY RememberFacts
  <2>4. \A q \in DOMAIN Remember(snaps[r]) : Remember(snaps[r])[q] \in Manifests
    BY <2>2, <2>3 DEF SnapsGrow, TypeOK
  <2>5. QED
    BY <2>1, <2>2, <2>3, <2>4
<1>2. CASE r \notin DOMAIN snaps
  <2>1. r = 0 /\ manifest = NoManifest /\ Restored(r) = NoManifest /\ SnapsAfter(r) = snaps
    BY <1>2 DEF Restorable, Restored, SnapsAfter
  <2>2. \A q \in DOMAIN snaps : q # revision + 1 /\ snaps[q] \in Manifests
    BY DEF TypeOK
  <2>3. QED
    BY <2>1, <2>2 DEF SnapInv, ManifestAt, SnapsGrow
<1>3. QED
  BY <1>1, <1>2

LEMMA OpsAre ==
  ASSUME NEW r \in Nat
  PROVE  /\ Op("edit", 0) \in Ops /\ Op("note", 0) \in Ops
         /\ Op("undo", r) \in Ops /\ Op("redo", r) \in Ops /\ Op("revert", r) \in Ops
  BY DEF Op, Ops

LEMMA ApplyCommits ==
  ASSUME KernelInv, NEW h \in Handlers, Apply(h)
  PROVE  \E m : Committed(h, m)
<1> USE KernelAssumption DEF KernelAssumption
<1>a. /\ revision \in Nat /\ manifest \in Manifests \union {NoManifest}
      /\ undo \in Seq(0..revision) /\ redo \in Seq(0..revision)
      /\ \A r \in DOMAIN snaps : snaps[r] \in Manifests
      /\ \A r \in DOMAIN snaps : r # revision + 1
  BY DEF KernelInv, TypeOK
<1>b. /\ undo \in Seq(0..revision + 1) /\ redo \in Seq(0..revision + 1)
      /\ Append(undo, revision) \in Seq(0..revision + 1)
      /\ Append(redo, revision) \in Seq(0..revision + 1)
      /\ << >> \in Seq(0..revision + 1)
  BY <1>a, WiderSeq
<1>c. Latest(Append(undo, revision), MaxSnaps) \in Seq(0..revision + 1)
  BY <1>b, LatestFacts
<1>1. CASE ApplyEdit(h)
  <2>1. \A r \in DOMAIN Remember(Command(h)) : Remember(Command(h))[r] \in Manifests
    BY <1>1, <1>a, RememberFacts DEF SnapsGrow, ApplyEdit, Manifests
  <2>2. Committed(h, Command(h))
    BY <1>1, <1>b, <1>c, <2>1, RememberFacts, OpsAre
       DEF ApplyEdit, Committed, Commands, Manifests, Commit
  <2>3. QED
    BY <2>2
<1>2. CASE ApplyNote(h)
  <2>1. SnapsGrow(snaps, manifest)
    BY <1>a DEF SnapsGrow
  <2>2. Committed(h, manifest)
    BY <1>2, <1>a, <1>b, <2>1, OpsAre DEF ApplyNote, Committed, Commands, Commit, KernelInv, SnapInv
  <2>3. QED
    BY <2>2
<1>3. CASE ApplyUndo(h)
  <2>1. undo # <<>> /\ Restorable(Top(undo))
    BY <1>3 DEF ApplyUndo, Poppable
  <2>2. Top(undo) \in 0..revision
    BY <2>1, <1>a, RestFacts
  <2>3. Rest(undo) \in Seq(0..revision + 1)
    BY <2>1, <1>b, RestFacts
  <2>4. Committed(h, Restored(Top(undo)))
    BY <1>3, <1>a, <1>b, <2>1, <2>2, <2>3, RestoredFacts, OpsAre
       DEF ApplyUndo, Committed, Commands, Commit
  <2>5. QED
    BY <2>4
<1>4. CASE ApplyRedo(h)
  <2>1. redo # <<>> /\ Restorable(Top(redo))
    BY <1>4 DEF ApplyRedo, Poppable
  <2>2. Top(redo) \in 0..revision
    BY <2>1, <1>a, RestFacts
  <2>3. Rest(redo) \in Seq(0..revision + 1)
    BY <2>1, <1>b, RestFacts
  <2>4. Committed(h, Restored(Top(redo)))
    BY <1>4, <1>a, <1>b, <2>1, <2>2, <2>3, RestoredFacts, OpsAre
       DEF ApplyRedo, Committed, Commands, Commit
  <2>5. QED
    BY <2>4
<1>5. CASE ApplyRevert(h)
  <2>1. req[h].target \in Nat /\ Restorable(req[h].target)
    BY <1>5 DEF ApplyRevert, KernelInv, TypeOK
  <2>2. Committed(h, Restored(req[h].target))
    BY <1>5, <1>b, <1>c, <2>1, RestoredFacts, OpsAre DEF ApplyRevert, Committed, Commands, Commit
  <2>3. QED
    BY <2>2
<1>6. QED
  BY <1>1, <1>2, <1>3, <1>4, <1>5 DEF Apply

(***************************************************************************)
(* What a commit does to the log and to the ring.                          *)
(***************************************************************************)
Logged(h, m) ==
  /\ revision \in Nat /\ Len(log) = revision
  /\ revision' = revision + 1 /\ manifest' = m /\ initial' = initial
  /\ Len(log') = revision + 1
  /\ \A i \in 1..revision : log'[i] = log[i]
  /\ log'[revision + 1].command = Command(h) /\ log'[revision + 1].base = revision
  /\ log'[revision + 1].prev = manifest /\ log'[revision + 1].next = m
  /\ \A r \in 0..revision + 1 :
       ManifestAt(r)' = IF r = revision + 1 THEN m ELSE ManifestAt(r)

LEMMA CommitLog ==
  ASSUME KernelInv, NEW h \in Handlers, NEW m, Committed(h, m)
  PROVE  Logged(h, m)
<1>0. PICK op \in Ops : Commit(h, m, op)
  BY DEF Committed
<1> DEFINE e == [command |-> Command(h), base |-> Base(h), prev |-> manifest, next |-> m,
                 op |-> op]
<1>1. /\ revision \in Nat /\ Len(log) = revision /\ Base(h) = revision
      /\ revision' = revision + 1 /\ manifest' = m /\ initial' = initial
      /\ log' = Append(log, e)
      /\ log \in Seq([command : Commands, base : Nat, prev : Manifests \union {NoManifest},
                       next : Manifests \union {NoManifest}, op : Ops])
  BY <1>0 DEF KernelInv, TypeOK, LogChained, Committed, Current, Commit
<1>2. /\ Len(log') = revision + 1
      /\ \A i \in 1..revision : log'[i] = log[i]
      /\ log'[revision + 1] = e
  BY <1>1
<1>3. log'[revision + 1].next = m
  BY <1>2
<1>4. ASSUME NEW r \in 0..revision + 1
      PROVE  ManifestAt(r)' = IF r = revision + 1 THEN m ELSE ManifestAt(r)
  <2>1. CASE r = 0
    BY <1>1, <2>1 DEF ManifestAt
  <2>2. CASE r \in 1..revision
    <3>1. log'[r].next = log[r].next /\ r # 0 /\ r # revision + 1
      BY <1>1, <1>2, <2>2
    <3>2. QED
      BY <3>1 DEF ManifestAt
  <2>3. CASE r = revision + 1
    <3>1. log'[r].next = m /\ r # 0
      BY <1>1, <1>3, <2>3
    <3>2. QED
      BY <2>3, <3>1 DEF ManifestAt
  <2>4. QED
    BY <1>1, <2>1, <2>2, <2>3
<1>5. QED
  BY <1>1, <1>2, <1>4 DEF Logged

LEMMA CommitRing ==
  ASSUME KernelInv, NEW h \in Handlers, NEW m, Committed(h, m)
  PROVE  /\ DOMAIN recent' \subseteq DOMAIN recent \union {Command(h)}
         /\ \A c \in DOMAIN recent' :
              recent'[c] = IF c = Command(h) THEN revision + 1 ELSE recent[c]
  BY DEF Committed, Commit, RecentAfter

LEMMA CommitType ==
  ASSUME KernelInv, NEW h \in Handlers, NEW m, Committed(h, m)
  PROVE  TypeOK'
<1> USE KernelAssumption DEF KernelAssumption
<1>1. /\ revision \in Nat /\ revision' = revision + 1
      /\ Command(h) \in Commands /\ Base(h) \in Nat
      /\ manifest \in Manifests \union {NoManifest} /\ m \in Manifests \union {NoManifest}
  BY DEF KernelInv, TypeOK, Committed, Commit, Current
<1>2. /\ revision' \in Nat /\ manifest' \in Manifests \union {NoManifest}
      /\ initial' \in {Start, NoManifest} /\ status' \in {"active", "deleted"}
  BY <1>1 DEF KernelInv, TypeOK, Committed, Commit
<1>3. DOMAIN snaps' \subseteq 0..revision' /\ \A r \in DOMAIN snaps' : snaps'[r] \in Manifests
  <2>1. DOMAIN snaps \subseteq 0..revision
    BY DEF KernelInv, TypeOK
  <2>2. QED
    BY <1>1, <2>1 DEF Committed, SnapsGrow
<1>4. undo' \in Seq(0..revision') /\ redo' \in Seq(0..revision')
  BY DEF Committed
<1>5. DOMAIN recent' \subseteq Commands /\ \A c \in DOMAIN recent' : recent'[c] \in 1..revision'
  <2>1. DOMAIN recent \subseteq Commands /\ \A c \in DOMAIN recent : recent[c] \in 1..revision
    BY DEF KernelInv, TypeOK
  <2>2. QED
    BY <1>1, <2>1, CommitRing
<1>6. log' \in Seq([command : Commands, base : Nat, prev : Manifests \union {NoManifest},
                    next : Manifests \union {NoManifest}, op : Ops])
  <2>0. PICK op \in Ops : Commit(h, m, op)
    BY DEF Committed
  <2>1. log \in Seq([command : Commands, base : Nat, prev : Manifests \union {NoManifest},
                     next : Manifests \union {NoManifest}, op : Ops])
    BY DEF KernelInv, TypeOK
  <2>2. [command |-> Command(h), base |-> Base(h), prev |-> manifest, next |-> m, op |-> op]
          \in [command : Commands, base : Nat, prev : Manifests \union {NoManifest},
              next : Manifests \union {NoManifest}, op : Ops]
    BY <1>1
  <2>3. QED
    BY <2>0, <2>1, <2>2 DEF Commit
<1>7. /\ pc' \in [Handlers -> {"idle", "read", "apply"}]
      /\ req' \in [Handlers -> [command : Commands \union {NoCommand}, base : Nat, target : Nat]]
      /\ answer' \in [Handlers -> [kind : {"none", "ack", "refused", "conflict"}, revision : Nat,
                                   manifest : Manifests \union {NoManifest}]]
  <2>1. /\ pc' = [pc EXCEPT ![h] = "idle"] /\ req' = req
        /\ answer' = [answer EXCEPT ![h] = [kind |-> "ack", revision |-> revision + 1,
                                            manifest |-> m]]
    BY DEF Committed, Commit, Answers
  <2>2. /\ pc \in [Handlers -> {"idle", "read", "apply"}]
        /\ req \in [Handlers -> [command : Commands \union {NoCommand}, base : Nat,
                                  target : Nat]]
        /\ answer \in [Handlers -> [kind : {"none", "ack", "refused", "conflict"},
                                     revision : Nat,
                                     manifest : Manifests \union {NoManifest}]]
    BY DEF KernelInv, TypeOK
  <2>3. QED
    BY <1>1, <2>1, <2>2
<1>8. QED
  BY <1>2, <1>3, <1>4, <1>5, <1>6, <1>7 DEF TypeOK

LEMMA CommitKeeps ==
  ASSUME KernelInv, NEW h \in Handlers, NEW m, Committed(h, m)
  PROVE  LogChained' /\ RingInv' /\ SnapInv'
<1>a. Logged(h, m)
  BY CommitLog
<1>1. LogChained'
  <2>1. \A i \in 1..revision : log[i].base = i - 1 /\ log[i].prev = ManifestAt(i - 1)
    BY DEF KernelInv, LogChained
  <2>2. manifest = ManifestAt(revision)
    BY DEF KernelInv, LogChained
  <2>3. \A i \in 1..revision : log'[i].base = i - 1 /\ log'[i].prev = ManifestAt(i - 1)'
    BY <1>a, <2>1 DEF Logged
  <2>4. ASSUME NEW i \in 1..revision + 1
        PROVE  log'[i].base = i - 1 /\ log'[i].prev = ManifestAt(i - 1)'
    <3>1. CASE i \in 1..revision
      BY <2>3, <3>1
    <3>2. CASE i = revision + 1
      <4>1. log'[i].base = revision /\ log'[i].prev = ManifestAt(revision)
        BY <1>a, <2>2, <3>2 DEF Logged
      <4>2. i - 1 = revision /\ i - 1 \in 0..revision + 1 /\ i - 1 # revision + 1
        BY <1>a, <3>2 DEF Logged
      <4>3. ManifestAt(i - 1)' = ManifestAt(i - 1)
        BY <1>a, <4>2 DEF Logged
      <4>4. QED
        BY <4>1, <4>2, <4>3
    <3>3. QED
      BY <1>a, <3>1, <3>2 DEF Logged
  <2>5. ASSUME NEW r, r = revision + 1
        PROVE  ManifestAt(r)' = m
    BY <1>a, <2>5 DEF Logged
  <2>6. Len(log') = revision' /\ manifest' = ManifestAt(revision)'
    BY <1>a, <2>5 DEF Logged, ManifestAt
  <2>7. QED
    BY <1>a, <2>4, <2>6 DEF LogChained, Logged
<1>2. RingInv'
  <2>1. \A c \in DOMAIN recent' : log'[recent'[c]].command = c
    <3> SUFFICES ASSUME NEW c \in DOMAIN recent' PROVE log'[recent'[c]].command = c
      OBVIOUS
    <3>1. CASE c = Command(h)
      BY <1>a, <3>1, CommitRing DEF Logged
    <3>2. CASE c # Command(h)
      BY <1>a, <3>2, CommitRing DEF Logged, KernelInv, RingInv, TypeOK
    <3>3. QED
      BY <3>1, <3>2
  <2>2. \A g \in Handlers : pc'[g] = "apply" => req'[g].base <= revision
    BY DEF KernelInv, TypeOK, RingInv, Committed, Commit, Answers, Base
  <2>3. \A g \in Handlers : pc'[g] = "apply" => req'[g].base \in Nat
    BY DEF KernelInv, TypeOK, Committed, Commit, Answers
  <2>4. QED
    BY <1>a, <2>1, <2>2, <2>3 DEF Logged, RingInv, Base, Repeated, Command
<1>3. SnapInv'
  <2>1. \A r \in DOMAIN snaps : r \in 0..revision /\ snaps[r] = ManifestAt(r)
    BY DEF KernelInv, TypeOK, SnapInv
  <2>2. \A r \in DOMAIN snaps' : snaps'[r] = ManifestAt(r)'
    BY <1>a, <2>1 DEF Logged, Committed, SnapsGrow
  <2>3. QED
    BY <1>a, <2>2 DEF Logged, SnapInv, Committed
<1>4. QED
  BY <1>1, <1>2, <1>3

LEMMA CommitAcks ==
  ASSUME KernelInv, AcksTrue, NEW h \in Handlers, NEW m, Committed(h, m)
  PROVE  AcksTrue'
<1>a. Logged(h, m)
  BY CommitLog
<1>1. SUFFICES ASSUME NEW g \in Handlers, answer'[g].kind = "ack"
               PROVE  /\ answer'[g].revision \in 1..Len(log')
                      /\ answer'[g].manifest = ManifestAt(answer[g].revision)'
                      /\ \E i \in 1..answer'[g].revision : log'[i].command = req'[g].command
  BY DEF AcksTrue, Command
<1>b. req' = req
  BY DEF Committed, Commit, Answers
<1>2. CASE g = h
  <2>1. answer'[g].revision = revision + 1 /\ answer'[g].manifest = m
    BY <1>2 DEF KernelInv, TypeOK, Committed, Commit, Answers
  <2>2. revision + 1 \in 0..revision + 1 /\ revision + 1 \in 1..Len(log')
    BY <1>a DEF Logged
  <2>3. ASSUME NEW r, r = revision + 1 PROVE ManifestAt(r)' = m
    BY <1>a, <2>3 DEF Logged
  <2>4. ManifestAt(answer[g].revision)' = m
    BY <2>1, <2>3 DEF ManifestAt
  <2>5. log'[revision + 1].command = req'[g].command
    BY <1>a, <1>b, <1>2 DEF Logged, Command
  <2>6. QED
    BY <2>1, <2>2, <2>4, <2>5, <1>a DEF Logged
<1>3. CASE g # h
  <2>1. answer'[g] = answer[g]
    BY <1>3 DEF KernelInv, TypeOK, Committed, Commit, Answers
  <2>2. PICK r \in 1..revision : r = answer[g].revision
    BY <1>a, <1>1, <2>1 DEF AcksTrue, Logged
  <2>3. answer[g].manifest = ManifestAt(r)
    BY <1>1, <2>1, <2>2 DEF AcksTrue
  <2>4. ManifestAt(r)' = ManifestAt(r)
    BY <1>a, <2>2 DEF Logged
  <2>5. ManifestAt(answer[g].revision)' = ManifestAt(r)'
    BY <2>1, <2>2 DEF ManifestAt
  <2>6. \E i \in 1..r : log[i].command = Command(g)
    BY <1>1, <2>1, <2>2 DEF AcksTrue
  <2>7. \E i \in 1..r : log'[i].command = req'[g].command
    BY <1>a, <1>b, <2>2, <2>6 DEF Logged, Command
  <2>8. QED
    BY <1>a, <2>1, <2>2, <2>3, <2>4, <2>5, <2>7 DEF Logged
<1>4. QED
  BY <1>2, <1>3

(***************************************************************************)
(* The ring as a window.  An id leaves the ring only when RingSize younger *)
(* ones are in it; those stand at different later revisions, so it is at   *)
(* least RingSize events old.                                              *)
(***************************************************************************)
LEMMA YoungerFew ==
  ASSUME NEW D, NEW n \in Nat, NEW f \in [D -> 1..n], NEW k \in 1..n,
         \A c, d \in D : f[c] = f[d] => c = d
  PROVE  /\ Cardinality({e \in D : f[e] > k}) \in Nat
         /\ Cardinality({e \in D : f[e] > k}) <= n - k
<1> DEFINE Y == {e \in D : f[e] > k}
           g == [e \in Y |-> f[e]]
<1>1. g \in Injection(Y, k + 1..n)
  BY DEF Injection, IsInjective
<1>2. IsFiniteSet(k + 1..n) /\ Cardinality(k + 1..n) = n - k
  BY FS_Interval
<1>3. Cardinality(Y) <= Cardinality(k + 1..n) /\ IsFiniteSet(Y)
  BY <1>1, <1>2, FS_Injection
<1> HIDE DEF Y
<1>5. Cardinality(Y) \in Nat
  BY <1>3, FS_CardinalityType
<1>4. QED
  BY <1>2, <1>3, <1>5 DEF Y

LEMMA CommitWindow ==
  ASSUME KernelInv, WindowInv, AppliedOncePerWindow,
         NEW h \in Handlers, NEW m, Committed(h, m)
  PROVE  WindowInv' /\ AppliedOncePerWindow'
<1> USE KernelAssumption DEF KernelAssumption
<1> DEFINE c    == Command(h)
           all  == DOMAIN recent \union {c}
           made == [d \in all |-> IF d = c THEN revision + 1 ELSE recent[d]]
<1>a. Logged(h, m)
  BY CommitLog
<1>b. c \notin DOMAIN recent
  BY DEF Committed, Current, KernelInv, RingInv, Repeated
<1>c. made \in [all -> 1..revision + 1]
  BY DEF KernelInv, TypeOK
<1>d. \A d, e \in all : made[d] = made[e] => d = e
  <2>1. \A d \in DOMAIN recent : /\ made[d] = recent[d] /\ recent[d] # revision + 1
                               /\ log[recent[d]].command = d
    BY <1>b DEF KernelInv, TypeOK, RingInv
  <2>2. made[c] = revision + 1
    OBVIOUS
  <2> HIDE DEF made, c
  <2>3. QED
    BY <2>1, <2>2
<1>e. recent' = [d \in {d \in all : Cardinality({e \in all : made[e] > made[d]}) < RingSize}
                   |-> made[d]]
  BY DEF Committed, Commit, RecentAfter
<1>f. revision \in Nat /\ Len(log) = revision
  BY <1>a DEF Logged
<1> HIDE DEF made
<1>1. ASSUME NEW d \in all, NEW i \in 1..revision + 1, i <= made[d], i + RingSize > revision + 1
      PROVE  d \in DOMAIN recent' /\ i <= recent'[d]
  <2>1. /\ Cardinality({e \in all : made[e] > made[d]}) \in Nat
        /\ Cardinality({e \in all : made[e] > made[d]}) <= (revision + 1) - made[d]
    <3>1. made[d] \in 1..revision + 1 /\ revision + 1 \in Nat
      BY <1>c, <1>f
    <3> HIDE DEF all
    <3>2. QED
      BY <1>c, <1>d, <3>1, YoungerFew
  <2>2. (revision + 1) - made[d] < RingSize
    BY <1>1, <1>c, <1>f
  <2>3. made[d] \in Nat /\ Cardinality({e \in all : made[e] > made[d]}) < RingSize
    BY <2>1, <2>2, <1>1, <1>c, <1>f
  <2>4. d \in DOMAIN recent' /\ recent'[d] = made[d]
    BY <2>3, <1>e
  <2>5. QED
    BY <2>4, <1>1
<1>2. WindowInv'
  <2>1. SUFFICES ASSUME NEW i \in 1..revision + 1, i + RingSize > revision + 1
                 PROVE  log'[i].command \in DOMAIN recent' /\ i <= recent'[log'[i].command]
    BY <1>a DEF WindowInv, Logged
  <2>2. CASE i = revision + 1
    <3>1. log'[i].command = c
      BY <1>a, <2>2 DEF Logged
    <3>2. made[c] = revision + 1
      BY DEF made
    <3>3. QED
      BY <1>1, <1>f, <2>1, <2>2, <3>1, <3>2
  <2>3. CASE i \in 1..revision
    <3>1. log'[i].command = log[i].command
      BY <1>a, <2>3 DEF Logged
    <3>2. log[i].command \in DOMAIN recent /\ i <= recent[log[i].command]
      BY <1>f, <2>1, <2>3 DEF WindowInv
    <3>3. made[log[i].command] = recent[log[i].command]
      BY <1>b, <3>2 DEF made
    <3>4. QED
      BY <1>1, <2>1, <3>1, <3>2, <3>3
  <2>4. QED
    BY <1>f, <2>2, <2>3
<1>3. AppliedOncePerWindow'
  <2>1. SUFFICES ASSUME NEW i \in 1..revision + 1, NEW j \in 1..revision + 1,
                        i < j, log'[i].command = log'[j].command
                 PROVE  j - i > RingSize
    BY <1>a DEF AppliedOncePerWindow, Logged
  <2>2. i \in 1..revision /\ log'[i] = log[i]
    BY <1>a, <1>f, <2>1 DEF Logged
  <2>3. CASE j \in 1..revision
    BY <1>a, <2>1, <2>2, <2>3 DEF AppliedOncePerWindow, Logged
  <2>4. CASE j = revision + 1
    <3>1. log[i].command = c
      BY <1>a, <2>1, <2>2, <2>4 DEF Logged
    <3>2. ~(i + RingSize > revision)
      BY <1>b, <1>f, <2>2, <3>1 DEF WindowInv
    <3>3. QED
      BY <1>f, <2>2, <2>4, <3>2
  <2>5. QED
    BY <1>f, <2>3, <2>4
<1>4. QED
  BY <1>2, <1>3

(***************************************************************************)
(* The other steps leave the head (but its status) and the log alone.      *)
(***************************************************************************)
HeadSame == UNCHANGED <<revision, manifest, snaps, undo, redo, recent, log, initial>>

HandlersTyped ==
  /\ pc \in [Handlers -> {"idle", "read", "apply"}]
  /\ req \in [Handlers -> [command : Commands \union {NoCommand}, base : Nat, target : Nat]]
  /\ answer \in [Handlers -> [kind : {"none", "ack", "refused", "conflict"}, revision : Nat,
                              manifest : Manifests \union {NoManifest}]]

ApplyChecked ==
  \A h \in Handlers : pc[h] = "apply" =>
    /\ Base(h) <= revision
    /\ Base(h) = revision => ~Repeated(h)

\* What a step of one handler does to the handlers' part of the invariant.
HandlersKept == HandlersTyped' /\ ApplyChecked' /\ AcksTrue'

LEMMA RejectKeeps ==
  ASSUME KernelInv, AcksTrue, NEW h \in Handlers, NEW k \in {"refused", "conflict"},
         Rejects(h, k)
  PROVE  HeadSame /\ HandlersKept
<1>1. HeadSame /\ req' = req
  BY DEF HeadSame, Rejects, Answers, headVars, logVars
<1>2. HandlersTyped'
  BY DEF HandlersTyped, KernelInv, TypeOK, Rejects, Answers
<1>3. ApplyChecked'
  BY <1>1 DEF ApplyChecked, HeadSame, KernelInv, TypeOK, RingInv, Rejects, Answers, Base,
              Repeated, Command
<1>4. AcksTrue'
  BY <1>1 DEF AcksTrue, HeadSame, KernelInv, TypeOK, Rejects, Answers, Command, ManifestAt
<1>5. QED
  BY <1>1, <1>2, <1>3, <1>4 DEF HandlersKept

LEMMA SubmitKeeps ==
  ASSUME KernelInv, AcksTrue, NEW h \in Handlers, Submit(h)
  PROVE  HeadSame /\ HandlersKept
<1> USE KernelAssumption DEF KernelAssumption
<1>1. HeadSame
  BY DEF HeadSame, Submit, headVars, logVars
<1>2. PICK c \in Commands, base \in 0..revision, target \in Nat :
        req' = [req EXCEPT ![h] = [command |-> c, base |-> base, target |-> target]]
  <2>1. PICK c \in Commands, base \in 0..revision :
          \E target \in IF c \in Reverts THEN 0..revision ELSE {0} :
            req' = [req EXCEPT ![h] = [command |-> c, base |-> base, target |-> target]]
    BY Zenon DEF Submit
  <2>2. \A target \in IF c \in Reverts THEN 0..revision ELSE {0} : target \in Nat
    BY DEF KernelInv, TypeOK
  <2>3. QED
    BY <2>1, <2>2
<1>3. base \in Nat
  BY DEF KernelInv, TypeOK
<1>4. HandlersTyped'
  BY <1>2, <1>3 DEF HandlersTyped, KernelInv, TypeOK, Submit, NoAnswer
<1>5. ApplyChecked'
  BY <1>1, <1>2 DEF ApplyChecked, HeadSame, KernelInv, TypeOK, RingInv, Submit, Base,
                    Repeated, Command
<1>6. AcksTrue'
  <2>1. SUFFICES ASSUME NEW g \in Handlers, answer'[g].kind = "ack"
                 PROVE  g # h /\ answer'[g] = answer[g] /\ req'[g] = req[g]
    BY <1>1 DEF AcksTrue, HeadSame, Command, ManifestAt
  <2>2. answer'[h].kind = "none"
    BY DEF Submit, NoAnswer, KernelInv, TypeOK
  <2>3. g # h
    BY <2>1, <2>2
  <2>4. QED
    BY <2>3, <1>2 DEF Submit, KernelInv, TypeOK
<1>7. QED
  BY <1>1, <1>4, <1>5, <1>6 DEF HandlersKept

LEMMA JudgeKeeps ==
  ASSUME KernelInv, AcksTrue, NEW h \in Handlers, Judge(h)
  PROVE  HeadSame /\ HandlersKept
<1>1. CASE Rejects(h, "refused") \/ Rejects(h, "conflict")
  BY <1>1, RejectKeeps
<1>2. CASE Repeated(h) /\ AckAgain(h) /\ UNCHANGED <<headVars, logVars>>
  <2>1. HeadSame /\ req' = req
    BY <1>2 DEF HeadSame, headVars, logVars, AckAgain, Answers
  <2>2. HandlersTyped'
    BY <1>2 DEF HandlersTyped, KernelInv, TypeOK, AckAgain, Answers
  <2>3. ApplyChecked'
    BY <1>2, <2>1 DEF ApplyChecked, HeadSame, KernelInv, TypeOK, RingInv, AckAgain, Answers,
                      Base, Repeated, Command
  <2>4. /\ recent[Command(h)] \in 1..revision /\ log[recent[Command(h)]].command = Command(h)
        /\ revision \in 1..Len(log) /\ manifest = ManifestAt(revision)
    BY <1>2 DEF KernelInv, TypeOK, RingInv, LogChained, Repeated
  <2>5. answer' = [answer EXCEPT ![h] =
                     [kind |-> "ack", revision |-> revision, manifest |-> manifest]]
    BY <1>2 DEF AckAgain, Answers
  <2>6. AcksTrue'
    <3>1. SUFFICES ASSUME NEW g \in Handlers, answer'[g].kind = "ack"
                   PROVE  /\ answer'[g].revision \in 1..Len(log)
                          /\ answer'[g].manifest = ManifestAt(answer'[g].revision)
                          /\ \E i \in 1..answer'[g].revision : log[i].command = Command(g)
      BY <2>1 DEF AcksTrue, HeadSame, Command, ManifestAt
    <3>2. CASE g = h
      BY <2>4, <2>5, <3>2 DEF KernelInv, TypeOK
    <3>3. CASE g # h
      BY <2>5, <3>1, <3>3 DEF AcksTrue, KernelInv, TypeOK
    <3>4. QED
      BY <3>2, <3>3
  <2>7. QED
    BY <2>1, <2>2, <2>3, <2>6 DEF HandlersKept
<1>3. CASE /\ ~Repeated(h) /\ Base(h) = revision
           /\ pc' = [pc EXCEPT ![h] = "apply"]
           /\ UNCHANGED <<headVars, logVars, req, answer>>
  <2>1. HeadSame /\ req' = req /\ answer' = answer
    BY <1>3 DEF HeadSame, headVars, logVars
  <2>2. HandlersTyped'
    BY <1>3 DEF HandlersTyped, KernelInv, TypeOK
  <2>3. ApplyChecked'
    BY <1>3, <2>1 DEF ApplyChecked, HeadSame, KernelInv, TypeOK, RingInv, Base, Repeated,
                      Command
  <2>4. AcksTrue'
    BY <2>1 DEF AcksTrue, HeadSame, Command, ManifestAt
  <2>5. QED
    BY <2>1, <2>2, <2>3, <2>4 DEF HandlersKept
<1>4. QED
  BY <1>1, <1>2, <1>3 DEF Judge

LEMMA QuietStep ==
  ASSUME KernelInv, AcksTrue, [Next]_vars, ~ \E h \in Handlers : Apply(h)
  PROVE  HeadSame /\ HandlersKept /\ status' \in {"active", "deleted"}
<1>1. CASE \E h \in Handlers : Submit(h)
  BY <1>1, SubmitKeeps DEF Submit, headVars, KernelInv, TypeOK
<1>2. CASE \E h \in Handlers : Judge(h)
  BY <1>2, JudgeKeeps DEF Judge, Rejects, headVars, KernelInv, TypeOK
<1>3. CASE \E h \in Handlers : ApplyFails(h)
  BY <1>3, RejectKeeps DEF ApplyFails, Rejects, headVars, KernelInv, TypeOK
<1>4. ASSUME NEW h \in Handlers, Lose(h)
      PROVE  HeadSame /\ HandlersKept /\ status' = status
  <2>1. HeadSame /\ req' = req /\ answer' = answer /\ status' = status
    BY <1>4 DEF Lose, HeadSame, headVars, logVars
  <2>2. HandlersTyped' /\ ApplyChecked' /\ AcksTrue'
    BY <1>4, <2>1 DEF Lose, HandlersTyped, ApplyChecked, AcksTrue, HeadSame, KernelInv, TypeOK,
                      RingInv, Base, Repeated, Command, ManifestAt
  <2>3. QED
    BY <2>1, <2>2 DEF HandlersKept
<1>5. ASSUME SoftDelete \/ UNCHANGED vars
      PROVE  HeadSame /\ HandlersKept /\ status' \in {"deleted", status}
  <2>1. /\ HeadSame /\ pc' = pc /\ req' = req /\ answer' = answer
        /\ status' \in {"deleted", status}
    BY <1>5 DEF SoftDelete, vars, HeadSame, headVars, logVars, handlerVars
  <2>2. HandlersTyped' /\ ApplyChecked' /\ AcksTrue'
    BY <2>1 DEF HandlersTyped, ApplyChecked, AcksTrue, HeadSame, KernelInv, TypeOK, RingInv,
                Base, Repeated, Command, ManifestAt
  <2>3. QED
    BY <2>1, <2>2 DEF HandlersKept
<1>6. QED
  BY <1>1, <1>2, <1>3, <1>4, <1>5 DEF Next, KernelInv, TypeOK

LEMMA QuietKeeps ==
  ASSUME KernelInv, HeadSame, HandlersKept, status' \in {"active", "deleted"}
  PROVE  KernelInv' /\ (WindowInv => WindowInv')
         /\ (AppliedOncePerWindow => AppliedOncePerWindow')
<1>1. TypeOK'
  BY DEF KernelInv, TypeOK, HeadSame, HandlersKept, HandlersTyped
<1>2. LogChained' /\ SnapInv'
  BY DEF KernelInv, LogChained, SnapInv, HeadSame, ManifestAt
<1>3. RingInv'
  BY DEF KernelInv, RingInv, HeadSame, HandlersKept, ApplyChecked, Base, Repeated, Command
<1>4. (WindowInv => WindowInv') /\ (AppliedOncePerWindow => AppliedOncePerWindow')
  BY DEF WindowInv, AppliedOncePerWindow, HeadSame
<1>5. QED
  BY <1>1, <1>2, <1>3, <1>4 DEF KernelInv

LEMMA NextKeeps ==
  ASSUME KernelInv, AcksTrue, WindowInv, AppliedOncePerWindow, [Next]_vars
  PROVE  KernelInv' /\ AcksTrue' /\ WindowInv' /\ AppliedOncePerWindow'
<1>1. CASE \E h \in Handlers : Apply(h)
  <2>1. PICK h \in Handlers : Apply(h)
    BY <1>1
  <2>2. PICK m : Committed(h, m)
    BY <2>1, ApplyCommits
  <2>3. QED
    BY <2>2, CommitType, CommitKeeps, CommitAcks, CommitWindow DEF KernelInv
<1>2. CASE ~ \E h \in Handlers : Apply(h)
  <2>1. HeadSame /\ HandlersKept /\ status' \in {"active", "deleted"}
    BY <1>2, QuietStep
  <2>2. QED
    BY <2>1, QuietKeeps DEF HandlersKept
<1>3. QED
  BY <1>1, <1>2

(***************************************************************************)
(* The theorems.                                                           *)
(***************************************************************************)
LEMMA Invariance == Spec => [](KernelInv /\ AcksTrue /\ WindowInv /\ AppliedOncePerWindow)
<1>1. Init => KernelInv /\ AcksTrue /\ WindowInv /\ AppliedOncePerWindow
  BY InitInv
<1>2. /\ KernelInv /\ AcksTrue /\ WindowInv /\ AppliedOncePerWindow /\ [Next]_vars
      => (KernelInv /\ AcksTrue /\ WindowInv /\ AppliedOncePerWindow)'
  BY NextKeeps
<1>3. QED
  BY <1>1, <1>2, PTL DEF Spec

\* Every variable keeps its type: the head document, its stacks of revisions that
\* exist, the ring, the log and the handlers.
THEOREM KernelTypes == Spec => []TypeOK
<1>1. KernelInv => TypeOK
  BY DEF KernelInv
<1>2. QED
  BY <1>1, Invariance, PTL

\* No update is lost: accept_command's second check inside the transaction keeps
\* the log a chain, whatever happened since its first read.
THEOREM NoLostUpdate == Spec => []LogChained
<1>1. KernelInv => LogChained
  BY DEF KernelInv
<1>2. QED
  BY <1>1, Invariance, PTL

\* An acknowledgement, first or repeated, is true of the log.
THEOREM AcksAreTrue == Spec => []AcksTrue
BY Invariance, PTL

\* The ring of recent command ids is a window of RingSize events, for every size.
THEOREM RingIsWindow == Spec => []AppliedOncePerWindow
BY Invariance, PTL

(***************************************************************************)
(* The refinement of EditHistory.  A stack of revisions is mapped to a     *)
(* stack of compositions element by element, which commutes with what the  *)
(* commands do to a stack.                                                 *)
(***************************************************************************)
MapSeq(f, s) == [i \in 1..Len(s) |-> f[s[i]]]

LEMMA MapLen ==
  ASSUME NEW f, NEW s, Len(s) \in Nat
  PROVE  /\ Len(MapSeq(f, s)) = Len(s)
         /\ \A i \in 1..Len(s) : MapSeq(f, s)[i] = f[s[i]]
BY DEF MapSeq

LEMMA MapType ==
  ASSUME NEW S, NEW f, NEW s \in Seq(S)
  PROVE  MapSeq(f, s) \in Seq({f[y] : y \in S})
BY ElementOfSeq, LenProperties DEF MapSeq

LEMMA MapAppend ==
  ASSUME NEW S, NEW f, NEW s \in Seq(S), NEW x \in S
  PROVE  MapSeq(f, Append(s, x)) = Append(MapSeq(f, s), f[x])
<1> DEFINE T == {f[y] : y \in S}
           a == Append(s, x)
           b == Append(MapSeq(f, s), f[x])
<1>a. f[x] \in T
  OBVIOUS
<1>1. a \in Seq(S) /\ Len(a) = Len(s) + 1 /\ Len(s) \in Nat
  OBVIOUS
<1>2. /\ MapSeq(f, s) \in Seq(T) /\ Len(MapSeq(f, s)) = Len(s)
      /\ \A i \in 1..Len(s) : MapSeq(f, s)[i] = f[s[i]]
  BY MapLen, MapType
<1>3. /\ MapSeq(f, a) \in Seq(T) /\ Len(MapSeq(f, a)) = Len(a)
      /\ \A i \in 1..Len(a) : MapSeq(f, a)[i] = f[a[i]]
  <2> HIDE DEF a
  <2>1. MapSeq(f, a) \in Seq(T)
    BY <1>1, MapType
  <2>2. QED
    BY <1>1, <2>1, MapLen
<1>4. b \in Seq(T) /\ Len(b) = Len(s) + 1
  <2> HIDE DEF T
  <2>1. QED
    BY <1>a, <1>2
<1>5. ASSUME NEW i \in 1..Len(a) PROVE f[a[i]] = b[i]
  <2>1. CASE i = Len(s) + 1
    BY <1>1, <1>2, <2>1
  <2>2. CASE i \in 1..Len(s)
    BY <1>1, <1>2, <2>2
  <2>3. i \in 1..Len(s) \/ i = Len(s) + 1
    BY <1>1
  <2>4. QED
    BY <2>1, <2>2, <2>3
<1>6. QED
  <2> HIDE DEF a, b
  <2>1. MapSeq(f, a) = b
    BY <1>1, <1>3, <1>4, <1>5, SeqEqual
  <2>2. QED
    BY <2>1 DEF a, b

LEMMA MapLatest ==
  ASSUME NEW S, NEW f, NEW s \in Seq(S), NEW n \in Nat \ {0}
  PROVE  MapSeq(f, Latest(s, n)) = Latest(MapSeq(f, s), n)
<1> DEFINE T == {f[y] : y \in S}
           a == Latest(s, n)
           b == Latest(MapSeq(f, s), n)
<1>1. /\ MapSeq(f, s) \in Seq(T) /\ Len(MapSeq(f, s)) = Len(s) /\ Len(s) \in Nat
      /\ \A i \in 1..Len(s) : MapSeq(f, s)[i] = f[s[i]]
  BY MapLen, MapType
<1>2. /\ a \in Seq(S)
      /\ Len(s) <= n => a = s
      /\ Len(s) > n => Len(a) = n /\ \A i \in 1..n : a[i] = s[Len(s) - n + i]
  BY LatestFacts
<1>3. /\ b \in Seq(T)
      /\ Len(s) <= n => b = MapSeq(f, s)
      /\ Len(s) > n => Len(b) = n /\ \A i \in 1..n : b[i] = MapSeq(f, s)[Len(s) - n + i]
  <2> DEFINE t == MapSeq(f, s)
  <2> HIDE DEF t
  <2>1. t \in Seq(T) /\ Len(t) = Len(s)
    BY <1>1 DEF t
  <2>2. /\ Latest(t, n) \in Seq(T)
        /\ Len(t) <= n => Latest(t, n) = t
        /\ Len(t) > n => /\ Len(Latest(t, n)) = n
                         /\ \A i \in 1..n : Latest(t, n)[i] = t[Len(t) - n + i]
    BY <2>1, LatestFacts
  <2>3. QED
    BY <2>1, <2>2 DEF t
<1>4. CASE Len(s) <= n
  BY <1>2, <1>3, <1>4
<1>5. CASE Len(s) > n
  <2> HIDE DEF a, b
  <2>1. /\ MapSeq(f, a) \in Seq(T) /\ Len(MapSeq(f, a)) = Len(a)
        /\ \A i \in 1..Len(a) : MapSeq(f, a)[i] = f[a[i]]
    BY <1>2, MapLen, MapType
  <2>2. ASSUME NEW i \in 1..n PROVE MapSeq(f, a)[i] = b[i]
    <3>1. Len(s) - n + i \in 1..Len(s)
      BY <1>1, <1>5
    <3>2. QED
      BY <1>1, <1>2, <1>3, <1>5, <2>1, <3>1
  <2>3. MapSeq(f, a) = b
    BY <1>2, <1>3, <1>5, <2>1, <2>2, SeqEqual
  <2>4. QED
    BY <2>3 DEF a, b
<1>6. QED
  BY <1>1, <1>4, <1>5

LEMMA MapRest ==
  ASSUME NEW S, NEW f, NEW s \in Seq(S), s # <<>>
  PROVE  /\ MapSeq(f, s) # <<>>
         /\ MapSeq(f, Rest(s)) = Rest(MapSeq(f, s))
         /\ Top(MapSeq(f, s)) = f[Top(s)]
<1> DEFINE T == {f[y] : y \in S}
           t == MapSeq(f, s)
<1>1. Len(s) \in Nat \ {0}
  BY EmptySeq
<1>2. /\ t \in Seq(T) /\ Len(t) = Len(s)
      /\ \A i \in 1..Len(s) : t[i] = f[s[i]]
  BY MapLen, MapType
<1> HIDE DEF t
<1>3. t # <<>>
  BY <1>1, <1>2
<1>4. Rest(s) \in Seq(S) /\ Len(Rest(s)) = Len(s) - 1
      /\ \A i \in 1..Len(s) - 1 : Rest(s)[i] = s[i]
  BY RestFacts
<1>5. Rest(t) \in Seq(T) /\ Len(Rest(t)) = Len(s) - 1
      /\ \A i \in 1..Len(s) - 1 : Rest(t)[i] = t[i]
  BY <1>2, <1>3, RestFacts
<1>6. /\ MapSeq(f, Rest(s)) \in Seq(T) /\ Len(MapSeq(f, Rest(s))) = Len(Rest(s))
      /\ \A i \in 1..Len(Rest(s)) : MapSeq(f, Rest(s))[i] = f[Rest(s)[i]]
  <2>1. Len(Rest(s)) \in Nat
    BY <1>1, <1>4
  <2>2. MapSeq(f, Rest(s)) \in Seq(T)
    BY <1>4, MapType
  <2>3. QED
    BY <2>1, <2>2, MapLen
<1>7. MapSeq(f, Rest(s)) = Rest(t)
  BY <1>1, <1>2, <1>4, <1>5, <1>6, SeqEqual
<1>8. Top(t) = f[Top(s)]
  BY <1>1, <1>2 DEF Top
<1>9. QED
  BY <1>3, <1>7, <1>8 DEF t

Past   == [i \in 1..Len(undo) |-> ManifestAt(undo[i])]
Future == [i \in 1..Len(redo) |-> ManifestAt(redo[i])]

\* The compositions of the revisions made so far.
Compositions == [r \in 0..revision |-> ManifestAt(r)]

LEMMA PastIsMap ==
  ASSUME KernelInv
  PROVE  /\ Past = MapSeq(Compositions, undo) /\ Future = MapSeq(Compositions, redo)
         /\ undo \in Seq(0..revision) /\ redo \in Seq(0..revision)
         /\ Compositions[revision] = manifest
<1>1. undo \in Seq(0..revision) /\ redo \in Seq(0..revision) /\ revision \in Nat
  BY DEF KernelInv, TypeOK
<1>2. /\ \A i \in 1..Len(undo) : undo[i] \in 0..revision
      /\ \A i \in 1..Len(redo) : redo[i] \in 0..revision
  BY <1>1, ElementOfSeq
<1>3. Past = MapSeq(Compositions, undo) /\ Future = MapSeq(Compositions, redo)
  BY <1>2 DEF Past, Future, MapSeq, Compositions
<1>5. Compositions[revision] = manifest
  BY <1>1 DEF Compositions, KernelInv, LogChained
<1>6. QED
  BY <1>1, <1>3, <1>5

\* After a commit the stacks still stand for compositions the log had before it.
LEMMA PastAfter ==
  ASSUME KernelInv, NEW h \in Handlers, NEW m, Committed(h, m),
         undo' \in Seq(0..revision), redo' \in Seq(0..revision)
  PROVE  Past' = MapSeq(Compositions, undo') /\ Future' = MapSeq(Compositions, redo')
<1>1. Logged(h, m)
  BY CommitLog
<1>2. \A r \in 0..revision : ManifestAt(r)' = Compositions[r]
  BY <1>1 DEF Logged, Compositions
<1>3. \A r \in 0..revision :
        Compositions[r] = IF r = 0 THEN initial' ELSE log'[r].next
  BY <1>2 DEF ManifestAt
<1>4. /\ \A i \in 1..Len(undo') : undo'[i] \in 0..revision
      /\ \A i \in 1..Len(redo') : redo'[i] \in 0..revision
  BY ElementOfSeq
<1>5. Past' = [i \in 1..Len(undo') |-> Compositions[undo'[i]]]
  BY <1>3, <1>4 DEF Past, ManifestAt
<1>6. Future' = [i \in 1..Len(redo') |-> Compositions[redo'[i]]]
  BY <1>3, <1>4 DEF Future, ManifestAt
<1>7. QED
  BY <1>5, <1>6 DEF MapSeq

\* A commit adds one version, and its op is the latest.
LEMMA VersionsAfter ==
  ASSUME KernelInv, NEW h \in Handlers, NEW m, Committed(h, m)
  PROVE  /\ Versions' = Append(Versions, m)
         /\ \A r \in 0..revision : r + 1 \in DOMAIN Versions /\ Versions[r + 1] = Compositions[r]
         /\ \A op \in Ops : Commit(h, m, op) => LastOp' = op
<1> DEFINE T == {ManifestAt(r) : r \in 0..revision} \union {m}
           V == Versions
           W == Versions'
<1>1. Logged(h, m) /\ revision \in Nat /\ revision' = revision + 1
  BY CommitLog DEF Logged
<1>2. /\ V = [i \in 1..(revision + 1) |-> ManifestAt(i - 1)]
      /\ W = [i \in 1..(revision + 2) |-> ManifestAt(i - 1)']
  BY <1>1 DEF Versions
<1>3. \A r \in 0..(revision + 1) :
        ManifestAt(r)' = IF r = revision + 1 THEN m ELSE ManifestAt(r)
  BY <1>1 DEF Logged
<1>4. V \in Seq(T) /\ Len(V) = revision + 1 /\ m \in T
  BY <1>1, <1>2
<1>5. W = Append(V, m)
  <2>1. W \in Seq(T) /\ Len(W) = revision + 2
    BY <1>1, <1>2, <1>3
  <2>2. /\ Append(V, m) \in Seq(T) /\ Len(Append(V, m)) = revision + 2
        /\ \A i \in 1..(revision + 2) :
             Append(V, m)[i] = IF i = revision + 2 THEN m ELSE V[i]
    <3> HIDE DEF T, V
    <3> QED  BY <1>1, <1>4
  <2>3. \A i \in 1..(revision + 2) : W[i] = IF i = revision + 2 THEN m ELSE V[i]
    BY <1>1, <1>2, <1>3
  <2> HIDE DEF T, V, W
  <2> QED  BY <1>1, <2>1, <2>2, <2>3, SeqEqual
<1>6. \A r \in 0..revision : r + 1 \in DOMAIN V /\ V[r + 1] = Compositions[r]
  BY <1>1, <1>2 DEF Compositions
<1>7. ASSUME NEW op \in Ops, Commit(h, m, op)  PROVE LastOp' = op
  <2> DEFINE e == [command |-> Command(h), base |-> Base(h), prev |-> manifest, next |-> m,
                   op |-> op]
  <2>1. /\ log \in Seq([command : Commands, base : Nat, prev : Manifests \union {NoManifest},
                         next : Manifests \union {NoManifest}, op : Ops])
        /\ log' = Append(log, e)
    BY <1>7 DEF KernelInv, TypeOK, Commit
  <2>2. log' # <<>> /\ Len(log') = Len(log) + 1 /\ log'[Len(log) + 1] = e
    BY <2>1
  <2>3. Top(log').op = op
    BY <2>1, <2>2 DEF Top
  <2> QED  BY <2>2, <2>3 DEF LastOp
<1> QED  BY <1>5, <1>6, <1>7

LEMMA ApplyIsHistory ==
  ASSUME KernelInv, NEW h \in Handlers, Apply(h)
  PROVE  History!HistoryNext \/ UNCHANGED History!historyVars
<1> USE KernelAssumption DEF KernelAssumption
<1> DEFINE C == Compositions
<1>a. PICK m : Committed(h, m)
  BY ApplyCommits
<1>c. /\ Past = MapSeq(C, undo) /\ Future = MapSeq(C, redo)
      /\ undo \in Seq(0..revision) /\ redo \in Seq(0..revision)
      /\ C[revision] = manifest /\ revision \in 0..revision
  BY PastIsMap DEF KernelInv, TypeOK
<1>d. status = "active" /\ status' = "active"
  BY <1>a DEF Committed, Current, Commit
<1>v. /\ Versions' = Append(Versions, manifest')
      /\ \A r \in 0..revision : r + 1 \in DOMAIN Versions /\ Versions[r + 1] = C[r]
      /\ \A op \in Ops : Commit(h, m, op) => LastOp' = op
  BY <1>a, VersionsAfter DEF Committed, Commit
<1>r. ASSUME NEW to \in 0..revision, Restorable(to)
      PROVE  Restored(to) = C[to]
  <2>1. to \in Nat
    BY DEF KernelInv, TypeOK
  <2>2. Restored(to) = ManifestAt(to)
    BY <1>r, <2>1, RestoredFacts
  <2> QED
    BY <2>2 DEF Compositions
<1> HIDE DEF C
<1>e. /\ Append(undo, revision) \in Seq(0..revision) /\ Append(redo, revision) \in Seq(0..revision)
      /\ << >> \in Seq(0..revision)
  BY <1>c
<1>m. ASSUME NEW s \in Seq(0..revision)
      PROVE  /\ MapSeq(C, Append(s, revision)) = Append(MapSeq(C, s), C[revision])
             /\ s # <<>> => /\ MapSeq(C, s) # <<>>
                            /\ MapSeq(C, Rest(s)) = Rest(MapSeq(C, s))
                            /\ Top(MapSeq(C, s)) = C[Top(s)]
  <2> DEFINE R == 0..revision
  <2>1. s \in Seq(R) /\ revision \in R
    BY <1>c
  <2> HIDE DEF R
  <2>2. MapSeq(C, Append(s, revision)) = Append(MapSeq(C, s), C[revision])
    BY <2>1, MapAppend
  <2>3. s # <<>> => /\ MapSeq(C, s) # <<>>
                   /\ MapSeq(C, Rest(s)) = Rest(MapSeq(C, s))
                   /\ Top(MapSeq(C, s)) = C[Top(s)]
    BY <2>1, MapRest
  <2>4. QED
    BY <2>2, <2>3
<1>f. MapSeq(C, Append(undo, revision)) = Append(Past, manifest)
  BY <1>c, <1>m
<1>g. MapSeq(C, Append(redo, revision)) = Append(Future, manifest)
  BY <1>c, <1>m
<1>h. /\ Latest(Append(undo, revision), MaxSnaps) \in Seq(0..revision)
      /\ MapSeq(C, Latest(Append(undo, revision), MaxSnaps)) = Latest(Append(Past, manifest), MaxSnaps)
  <2>1. Latest(Append(undo, revision), MaxSnaps) \in Seq(0..revision)
    BY <1>e, LatestFacts
  <2>2. MapSeq(C, Latest(Append(undo, revision), MaxSnaps))
          = Latest(MapSeq(C, Append(undo, revision)), MaxSnaps)
    <3> DEFINE R == 0..revision
               u == Append(undo, revision)
    <3>1. u \in Seq(R) /\ MaxSnaps \in Nat \ {0}
      BY <1>e
    <3> HIDE DEF R, u
    <3>2. MapSeq(C, Latest(u, MaxSnaps)) = Latest(MapSeq(C, u), MaxSnaps)
      BY <3>1, MapLatest
    <3>3. QED
      BY <3>2 DEF u
  <2>3. QED
    BY <2>1, <2>2, <1>f
<1>w. ASSUME NEW what, NEW to \in Nat, Op(what, to) \in Ops, Commit(h, manifest', Op(what, to))
      PROVE  LastOp'.what = what /\ LastOp'.to = to
  <2>1. LastOp' = Op(what, to)
    <3>1. m = manifest'
      BY <1>a DEF Committed, Commit
    <3> QED  BY <1>v, <1>w, <3>1
  <2> QED  BY <2>1 DEF Op
<1>b. ASSUME undo' = Latest(Append(undo, revision), MaxSnaps), redo' = <<>>
      PROVE  History!Branch
  <2>1. Past' = Latest(Append(Past, manifest), MaxSnaps) /\ Future' = MapSeq(C, <<>>)
    BY <1>a, <1>b, <1>e, <1>h, PastAfter DEF C
  <2>2. Future' = <<>>
    BY <2>1 DEF MapSeq
  <2> QED  BY <2>1, <2>2 DEF History!Branch, History!Latest, Latest, Past, Future
<1>k. ASSUME NEW to \in 0..revision, Restorable(to), manifest' = Restored(to), LastOp'.to = to
      PROVE  History!Returns
  BY <1>k, <1>r, <1>v DEF History!Returns
<1>1. CASE ApplyEdit(h)
  <2>1. LastOp'.what = "edit"
    <3>1. Commit(h, manifest', Op("edit", 0))
      BY <1>1 DEF ApplyEdit, Commit
    <3> QED  BY <1>w, <3>1, OpsAre
  <2>2. History!Compose
    BY <1>1, <1>b, <2>1 DEF ApplyEdit, History!Compose
  <2>3. QED
    BY <2>2, <1>d, <1>v DEF History!HistoryNext, History!Edit
<1>2. CASE ApplyNote(h)
  <2>1. undo' = undo /\ redo' = redo /\ manifest' = manifest
    BY <1>2 DEF ApplyNote, Commit
  <2>2. Past' = Past /\ Future' = Future
    BY <1>a, <1>c, <2>1, PastAfter DEF C
  <2>3. LastOp'.what = "note"
    <3>1. Commit(h, manifest', Op("note", 0))
      BY <1>2 DEF ApplyNote, Commit
    <3> QED  BY <1>w, <3>1, OpsAre
  <2>4. History!Note
    BY <2>1, <2>2, <2>3 DEF History!Note, Past, Future
  <2>5. QED
    BY <2>4, <1>d, <1>v DEF History!HistoryNext, History!Edit
<1>3. CASE ApplyUndo(h)
  <2>1. /\ undo # <<>> /\ undo' = Rest(undo) /\ redo' = Append(redo, revision)
        /\ Restorable(Top(undo)) /\ manifest' = Restored(Top(undo))
        /\ Commit(h, manifest', Op("undo", Top(undo)))
    BY <1>3 DEF ApplyUndo, Poppable, Commit
  <2>2. /\ Rest(undo) \in Seq(0..revision) /\ Top(undo) \in 0..revision /\ Top(undo) \in Nat
    <3>1. Rest(undo) \in Seq(0..revision) /\ Top(undo) \in 0..revision
      BY <1>c, <2>1, RestFacts
    <3> QED  BY <3>1
  <2>3. Past # <<>> /\ MapSeq(C, Rest(undo)) = Rest(Past) /\ Top(Past) = C[Top(undo)]
    BY <1>c, <1>m, <2>1
  <2>4. manifest' = Top(Past)
    BY <1>r, <2>1, <2>2, <2>3
  <2>5. Past' = Rest(Past) /\ Future' = Append(Future, manifest)
    BY <1>a, <1>e, <1>g, <2>1, <2>2, <2>3, PastAfter DEF C
  <2>6. LastOp'.what = "undo" /\ LastOp'.to = Top(undo)
    BY <1>w, <2>1, <2>2, OpsAre
  <2>7. History!Returns
    BY <1>k, <2>1, <2>2, <2>6
  <2>8. History!Undo
    BY <2>3, <2>4, <2>5, <2>6, <2>7
       DEF History!Undo, History!Top, History!Rest, Top, Rest, Past, Future
  <2>9. QED
    BY <2>8, <1>d, <1>v DEF History!HistoryNext, History!Edit
<1>4. CASE ApplyRedo(h)
  <2>1. /\ redo # <<>> /\ redo' = Rest(redo) /\ undo' = Append(undo, revision)
        /\ Restorable(Top(redo)) /\ manifest' = Restored(Top(redo))
        /\ Commit(h, manifest', Op("redo", Top(redo)))
    BY <1>4 DEF ApplyRedo, Poppable, Commit
  <2>2. /\ Rest(redo) \in Seq(0..revision) /\ Top(redo) \in 0..revision /\ Top(redo) \in Nat
    <3>1. Rest(redo) \in Seq(0..revision) /\ Top(redo) \in 0..revision
      BY <1>c, <2>1, RestFacts
    <3> QED  BY <3>1
  <2>3. Future # <<>> /\ MapSeq(C, Rest(redo)) = Rest(Future) /\ Top(Future) = C[Top(redo)]
    BY <1>c, <1>m, <2>1
  <2>4. manifest' = Top(Future)
    BY <1>r, <2>1, <2>2, <2>3
  <2>5. Future' = Rest(Future) /\ Past' = Append(Past, manifest)
    BY <1>a, <1>e, <1>f, <2>1, <2>2, <2>3, PastAfter DEF C
  <2>6. LastOp'.what = "redo" /\ LastOp'.to = Top(redo)
    BY <1>w, <2>1, <2>2, OpsAre
  <2>7. History!Returns
    BY <1>k, <2>1, <2>2, <2>6
  <2>8. History!Redo
    BY <2>3, <2>4, <2>5, <2>6, <2>7
       DEF History!Redo, History!Top, History!Rest, Top, Rest, Past, Future
  <2>9. QED
    BY <2>8, <1>d, <1>v DEF History!HistoryNext, History!Edit
<1>5. CASE ApplyRevert(h)
  <2> DEFINE target == req[h].target
  <2>1. /\ Restorable(target) /\ manifest' = Restored(target)
        /\ Commit(h, manifest', Op("revert", target))
        /\ undo' = Latest(Append(undo, revision), MaxSnaps) /\ redo' = <<>>
    BY <1>5 DEF ApplyRevert, Commit
  <2>2. target \in 0..revision /\ target \in Nat
    BY <2>1 DEF Restorable, KernelInv, TypeOK
  <2> HIDE DEF target
  <2>3. LastOp'.what = "revert" /\ LastOp'.to = target
    BY <1>w, <2>1, <2>2, OpsAre
  <2>4. History!Returns
    BY <1>k, <2>1, <2>2, <2>3
  <2>5. History!Revert
    BY <1>b, <2>1, <2>3, <2>4 DEF History!Revert
  <2>6. QED
    BY <2>5, <1>d, <1>v DEF History!HistoryNext, History!Edit
<1>6. QED
  BY <1>1, <1>2, <1>3, <1>4, <1>5 DEF Apply

LEMMA QuietIsHistory ==
  ASSUME KernelInv, AcksTrue, [Next]_vars, ~ \E h \in Handlers : Apply(h)
  PROVE  History!HistoryNext \/ UNCHANGED History!historyVars
<1>1. HeadSame
  BY QuietStep
<1>2. /\ Past' = Past /\ Future' = Future /\ manifest' = manifest
      /\ Versions' = Versions /\ LastOp' = LastOp
  BY <1>1 DEF HeadSame, Past, Future, ManifestAt, Versions, LastOp
<1>3. status' = status \/ status' = "deleted"
  BY DEF Next, Submit, Judge, ApplyFails, Lose, SoftDelete, Rejects, vars, headVars
<1>4. CASE status' = status
  BY <1>2, <1>4 DEF History!historyVars, Past, Future
<1>5. CASE status' = "deleted"
  BY <1>2, <1>5 DEF History!HistoryNext, History!Close, Past, Future
<1>6. QED
  BY <1>3, <1>4, <1>5

\* The kernel implements the editing history, for every size of its stacks, its
\* ring and its snapshot map: an undo or redo it grants leads to the composition
\* that was there, a revert to the composition of the revision it names, and a
\* deleted project is edited no more.
THEOREM KernelIsHistory == Spec => IsHistory
<1>1. Init => History!HistoryInit
  BY DEF Init, History!HistoryInit, History!NoOp, Past, Future, Versions, LastOp, ManifestAt, Op
<1>2. KernelInv /\ AcksTrue /\ [Next]_vars => [History!HistoryNext]_History!historyVars
  BY ApplyIsHistory, QuietIsHistory
<1>3. QED
  BY <1>1, <1>2, Invariance, PTL DEF Spec, IsHistory, History!HistorySpec

=============================================================================
