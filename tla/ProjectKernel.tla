--------------------------- MODULE ProjectKernel ----------------------------
(***************************************************************************)
(* The studio project kernel: one project, the handlers that accept        *)
(* commands for it, and the store.                                         *)
(*                                                                         *)
(* accept_command reads the head document, answers repeated and stale      *)
(* commands from what it read, and leaves the rest to one Firestore        *)
(* transaction, which checks the revision again.  Between the read and the *)
(* transaction anything may happen: other commands, a deletion, the death  *)
(* of the handler.  The answer may be lost, and a client may send the same *)
(* command again at any time, with the revision it knows by then.          *)
(*                                                                         *)
(* A composition (render manifest) is named by the command that proposes   *)
(* it, and its hash is the composition itself.  Titles, assets, transcript *)
(* chunks, actors and timestamps are left out, and so is the media graph   *)
(* pointer, which no command reads.  The ring of recent ids is a list of   *)
(* different ids in the order of the revisions that added them: the model  *)
(* keeps that revision for each id in place of its position.               *)
(***************************************************************************)
EXTENDS Sequences, Integers, FiniteSets

CONSTANTS
  Handlers,     \* command requests that can be executing at one time
  Edits,        \* ids of commands that propose a composition of their own
  Notes,        \* ids of commands that change metadata only (title, asset, ...)
  Undos, Redos, \* ids of undo and redo commands
  Reverts,      \* ids of commands that return to a numbered revision
  Start,        \* the composition a project may be created with
  NoManifest,   \* no composition yet
  NoCommand,    \* nothing asked
  RingSize,     \* MAX_RECENT_COMMAND_IDS
  MaxSnaps,     \* MAX_REVISION_SNAPSHOTS
  MaxRevision   \* bound: commands are submitted while the project is younger

Commands  == Edits \union Notes \union Undos \union Redos \union Reverts
Manifests == Edits \union {Start}

ASSUME KernelAssumption ==
  /\ NoManifest \notin Manifests
  /\ NoCommand \notin Commands
  /\ RingSize \in Nat \ {0} /\ MaxSnaps \in Nat \ {0} /\ MaxRevision \in Nat

VARIABLES
  \* the head document
  revision, manifest, snaps, undo, redo, recent, status,
  \* the events; initial is the composition revision 0 had
  log, initial,
  \* the handlers: program counter, request, last answer
  pc, req, answer

headVars    == <<revision, manifest, snaps, undo, redo, recent, status>>
logVars     == <<log, initial>>
handlerVars == <<pc, req, answer>>
vars == <<headVars, logVars, handlerVars>>

NoAnswer == [kind |-> "none", revision |-> 0, manifest |-> NoManifest]

Init ==
  /\ initial \in {Start, NoManifest}
  /\ revision = 0 /\ manifest = initial /\ status = "active"
  /\ snaps = [r \in IF initial = NoManifest THEN {} ELSE {0} |-> initial]
  /\ undo = <<>> /\ redo = <<>> /\ recent = [c \in {} |-> 0]
  /\ log = <<>>
  /\ pc = [h \in Handlers |-> "idle"]
  /\ req = [h \in Handlers |-> [command |-> NoCommand, base |-> 0, target |-> 0]]
  /\ answer = [h \in Handlers |-> NoAnswer]

-----------------------------------------------------------------------------
\* The latest n elements of s.
Latest(s, n) == IF Len(s) <= n THEN s ELSE SubSeq(s, Len(s) - n + 1, Len(s))
Top(s)  == s[Len(s)]
Rest(s) == SubSeq(s, 1, Len(s) - 1)

\* _remember_snapshot for the revision being made: the oldest ones make room.
Remember(m) ==
  LET all  == DOMAIN snaps \union {revision + 1}
      kept == {r \in all : Cardinality({q \in all : q > r}) < MaxSnaps}
  IN [r \in kept |-> IF r = revision + 1 THEN m ELSE snaps[r]]

\* _restore_revision: what it restores for a revision, if it can.
Restorable(r) == r \in DOMAIN snaps \/ (r = 0 /\ manifest = NoManifest)
Restored(r)   == IF r \in DOMAIN snaps THEN snaps[r] ELSE NoManifest
\* Mutant of SnapsAfter: "no composition" is remembered like any other.
SnapsAfterAlways(r) == Remember(Restored(r))

SnapsAfter(r) == IF r \in DOMAIN snaps THEN Remember(snaps[r]) ELSE snaps

\* Can the stack s be popped and its top restored?
Poppable(s) == s # <<>> /\ Restorable(Top(s))

Answers(h, kind, r, m) ==
  /\ pc' = [pc EXCEPT ![h] = "idle"]
  /\ answer' = [answer EXCEPT ![h] = [kind |-> kind, revision |-> r, manifest |-> m]]
  /\ UNCHANGED req

Rejects(h, reason) ==
  /\ Answers(h, reason, 0, NoManifest)
  /\ UNCHANGED <<headVars, logVars>>

-----------------------------------------------------------------------------
\* A client sends a command built on a revision it has seen; perhaps again.
Submit(h) ==
  /\ pc[h] = "idle" /\ revision < MaxRevision
  /\ pc' = [pc EXCEPT ![h] = "read"]
  /\ answer' = [answer EXCEPT ![h] = NoAnswer]
  /\ \E c \in Commands, base \in 0..revision :
       \E target \in IF c \in Reverts THEN 0..revision ELSE {0} :
         req' = [req EXCEPT ![h] = [command |-> c, base |-> base, target |-> target]]
  /\ UNCHANGED <<headVars, logVars>>

Command(h) == req[h].command
Base(h)    == req[h].base

Repeated(h) == Command(h) \in DOMAIN recent

\* Mutant of AckAgain: the revision after the client's base, with today's composition.
AckAgainFromBase(h) == Answers(h, "ack", Base(h) + 1, manifest)

\* A repeated command is acknowledged with the head as it is now.
AckAgain(h) == Answers(h, "ack", revision, manifest)

\* From one read of the head: refuse, acknowledge again, or go on.  A command
\* can be invalid by itself, and a claimed hash can differ from the head's.
Judge(h) ==
  /\ pc[h] = "read"
  /\ \/ status = "deleted" /\ Rejects(h, "refused")
     \/ /\ status = "active" /\ Repeated(h)
        /\ AckAgain(h)
        /\ UNCHANGED <<headVars, logVars>>
     \/ status = "active" /\ ~Repeated(h) /\ Rejects(h, "refused")
     \/ /\ status = "active" /\ ~Repeated(h)
        /\ Base(h) # revision \/ manifest # NoManifest
        /\ Rejects(h, "conflict")
     \/ /\ status = "active" /\ ~Repeated(h) /\ Base(h) = revision
        /\ pc' = [pc EXCEPT ![h] = "apply"]
        /\ UNCHANGED <<headVars, logVars, req, answer>>

-----------------------------------------------------------------------------
(***************************************************************************)
(* The transaction.  It commits a new head and one event, or nothing.      *)
(***************************************************************************)
\* Mutant of Current: no second look at the revision.
CurrentUnchecked(h) == pc[h] = "apply" /\ status = "active"

Current(h) == pc[h] = "apply" /\ status = "active" /\ Base(h) = revision

\* Mutant of RecentAfter: the ids are not remembered.
RecentForgotten(c) == recent

\* The id becomes the youngest; the oldest ones make room.
RecentAfter(c) ==
  LET all  == DOMAIN recent \union {c}
      made == [d \in all |-> IF d = c THEN revision + 1 ELSE recent[d]]
      kept == {d \in all : Cardinality({e \in all : made[e] > made[d]}) < RingSize}
  IN [d \in kept |-> made[d]]

\* The op of an event.  The source calls an undo and a redo a revert to the
\* revision on top of the stack; the model keeps which of them it was.
Op(what, to) == [what |-> what, to |-> to]

Commit(h, m, op) ==
  /\ revision' = revision + 1
  /\ manifest' = m
  /\ recent' = RecentAfter(Command(h))
  /\ log' = Append(log, [command |-> Command(h), base |-> Base(h),
                         prev |-> manifest, next |-> m, op |-> op])
  /\ Answers(h, "ack", revision + 1, m)
  /\ UNCHANGED <<status, initial>>

\* A capability that mutates the project, or an import with a composition.
ApplyEdit(h) ==
  /\ Current(h) /\ Command(h) \in Edits
  /\ Commit(h, Command(h), Op("edit", 0))
  /\ snaps' = Remember(Command(h))
  /\ undo' = Latest(Append(undo, revision), MaxSnaps)
  /\ redo' = <<>>

\* A command that leaves the composition alone still makes a revision.
ApplyNote(h) ==
  /\ Current(h) /\ Command(h) \in Notes
  /\ Commit(h, manifest, Op("note", 0))
  /\ UNCHANGED <<snaps, undo, redo>>

ApplyUndo(h) ==
  /\ Current(h) /\ Command(h) \in Undos
  /\ Poppable(undo)
  /\ Commit(h, Restored(Top(undo)), Op("undo", Top(undo)))
  /\ snaps' = SnapsAfter(Top(undo))
  /\ undo' = Rest(undo)
  /\ redo' = Append(redo, revision)

ApplyRedo(h) ==
  /\ Current(h) /\ Command(h) \in Redos
  /\ Poppable(redo)
  /\ Commit(h, Restored(Top(redo)), Op("redo", Top(redo)))
  /\ snaps' = SnapsAfter(Top(redo))
  /\ redo' = Rest(redo)
  /\ undo' = Append(undo, revision)

\* Mutant of ApplyRevert: what was there before the revision wanted was made.
RevertBefore(h) ==
  /\ Current(h) /\ Command(h) \in Reverts
  /\ Restorable(req[h].target) /\ Restorable(req[h].target - 1)
  /\ Commit(h, Restored(req[h].target - 1), Op("revert", req[h].target))
  /\ snaps' = SnapsAfter(req[h].target - 1)
  /\ undo' = Latest(Append(undo, revision), MaxSnaps)
  /\ redo' = <<>>

ApplyRevert(h) ==
  /\ Current(h) /\ Command(h) \in Reverts
  /\ Restorable(req[h].target)
  /\ Commit(h, Restored(req[h].target), Op("revert", req[h].target))
  /\ snaps' = SnapsAfter(req[h].target)
  /\ undo' = Latest(Append(undo, revision), MaxSnaps)
  /\ redo' = <<>>

\* Nothing to undo or redo, or no snapshot of the revision wanted.
Impossible(h) ==
  \/ Command(h) \in Undos /\ ~Poppable(undo)
  \/ Command(h) \in Redos /\ ~Poppable(redo)
  \/ Command(h) \in Reverts /\ ~Restorable(req[h].target)

ApplyFails(h) ==
  \/ pc[h] = "apply" /\ status = "deleted" /\ Rejects(h, "refused")
  \/ /\ pc[h] = "apply" /\ status = "active" /\ Base(h) # revision
     /\ Rejects(h, "conflict")
  \/ Current(h) /\ Impossible(h) /\ Rejects(h, "refused")

\* The handler, or the connection to it, dies.
Lose(h) ==
  /\ pc[h] # "idle"
  /\ pc' = [pc EXCEPT ![h] = "idle"]
  /\ UNCHANGED <<headVars, logVars, req, answer>>

\* The owner deletes the project: a plain update, outside any transaction.
SoftDelete ==
  /\ status' = "deleted"
  /\ UNCHANGED <<revision, manifest, snaps, undo, redo, recent, logVars, handlerVars>>

Apply(h) ==
  ApplyEdit(h) \/ ApplyNote(h) \/ ApplyUndo(h) \/ ApplyRedo(h) \/ ApplyRevert(h)

Next ==
  \/ \E h \in Handlers :
       Submit(h) \/ Judge(h) \/ Apply(h) \/ ApplyFails(h) \/ Lose(h)
  \/ SoftDelete

Spec == Init /\ [][Next]_vars

-----------------------------------------------------------------------------
(***************************************************************************)
(* Properties that hold.                                                   *)
(***************************************************************************)
\* The composition revision r had, by the log.
ManifestAt(r) == IF r = 0 THEN initial ELSE log[r].next

Ops == [what : {"edit", "note", "undo", "redo", "revert"}, to : Nat]

TypeOK ==
  /\ revision \in Nat
  /\ manifest \in Manifests \union {NoManifest} /\ initial \in {Start, NoManifest}
  /\ status \in {"active", "deleted"}
  /\ DOMAIN snaps \subseteq 0..revision
  /\ \A r \in DOMAIN snaps : snaps[r] \in Manifests
  /\ undo \in Seq(0..revision) /\ redo \in Seq(0..revision)
  /\ DOMAIN recent \subseteq Commands
  /\ \A c \in DOMAIN recent : recent[c] \in 1..revision
  /\ log \in Seq([command : Commands, base : Nat, prev : Manifests \union {NoManifest},
                  next : Manifests \union {NoManifest}, op : Ops])
  /\ pc \in [Handlers -> {"idle", "read", "apply"}]
  /\ req \in [Handlers -> [command : Commands \union {NoCommand}, base : Nat, target : Nat]]
  /\ answer \in [Handlers -> [kind : {"none", "ack", "refused", "conflict"}, revision : Nat,
                              manifest : Manifests \union {NoManifest}]]

\* No lost update: every event is numbered by its place, was built on exactly the
\* revision before it, and starts from the composition that one ended with; the
\* head is the end of the log (project_kernel.py:573-578 and 709-741).
LogChained ==
  /\ Len(log) = revision /\ manifest = ManifestAt(revision)
  /\ \A i \in 1..Len(log) : log[i].base = i - 1 /\ log[i].prev = ManifestAt(i - 1)

\* A client that is told "accepted" can believe the revision and composition it
\* is told, however many commands raced it: they belong together, and its command
\* is in the log at or before that revision.
AcksTrue ==
  \A h \in Handlers : answer[h].kind = "ack" =>
    /\ answer[h].revision \in 1..Len(log)
    /\ answer[h].manifest = ManifestAt(answer[h].revision)
    /\ \E i \in 1..answer[h].revision : log[i].command = Command(h)

\* The ring of recent ids is a window: a command sent again, rebased or not, is
\* applied again only after RingSize other events.
AppliedOncePerWindow ==
  \A i, j \in 1..Len(log) :
    i < j /\ log[i].command = log[j].command => j - i > RingSize

\* The composition of every revision so far, and what the latest event was.
Versions == [i \in 1..(revision + 1) |-> ManifestAt(i - 1)]
LastOp   == IF log = <<>> THEN Op("none", 0) ELSE Top(log).op

\* The project behaves as an editing history: an undo or redo that is granted
\* restores exactly what was there before, and a revert exactly what the revision
\* it names had, whichever revisions metadata commands, other undos and evicted
\* snapshots have put in between; the event says truly which revision that was;
\* and a deleted project is never edited again.
History == INSTANCE EditHistory
             WITH Depth   <- MaxSnaps,
                  current <- manifest,
                  past    <- [i \in 1..Len(undo) |-> ManifestAt(undo[i])],
                  future  <- [i \in 1..Len(redo) |-> ManifestAt(redo[i])],
                  made    <- Versions,
                  last    <- LastOp,
                  live    <- status = "active"

IsHistory == History!HistorySpec
=============================================================================
