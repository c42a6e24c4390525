------------------------------ MODULE Timeline ------------------------------
(***************************************************************************)
(* The clips of the editor and its two undo histories: the clip operations *)
(* of stores/editorStore.ts, the assistant's batches of tools, and a plan  *)
(* of the assistant that is applied at once and taken back when the        *)
(* project refuses it (AIPanel.tsx).                                       *)
(*                                                                         *)
(* A manual operation keeps the list of clips before it; the assistant     *)
(* keeps a snapshot of the clips and of most, not all, of what else it can *)
(* change.  Undo takes the assistant's last batch back first.  Every edit  *)
(* has a number; `surface` holds the numbers of the batches whose changes  *)
(* to the rest of what a snapshot keeps are in effect.  Times are in units *)
(* of which Margin is a second, Least a tenth and Slack a hundredth of     *)
(* one; the source points of a clip, rolling trim, slide, and what no      *)
(* snapshot keeps (colour, masks, ducking, groups, mattes) are left out.   *)
(***************************************************************************)
EXTENDS Integers, Sequences, FiniteSets, SequencesExt

CONSTANTS
  Duration,   \* of the video
  Margin,     \* what a split must leave on either side
  Least,      \* the shortest clip a trim leaves
  Slack,      \* by how much a clip may end after a range it counts as within
  UndoDepth,  \* lists of clips kept for undo (50)
  AiDepth,    \* snapshots kept for undo (_MAX_AI_STACK)
  Times,      \* bound: where the user and the assistant cut
  Steps,      \* bound: by how much it trims and slips
  Tools,      \* bound: the tools of a plan, which the user confirms
  Direct,     \* bound: tools used without a confirmation
  MaxBatch,   \* bound: tools in one batch
  MaxEdits,   \* bound: edits made
  MaxPresses  \* bound: presses of undo and redo

ToolNames == {"split", "delete", "select", "rippleTrim", "slip", "rippleDelete",
              "silences", "surface"}

ASSUME TimelineAssumption ==
  /\ Duration \in Nat \ {0} /\ Margin \in Nat /\ Least \in Nat /\ Slack \in Nat
  /\ UndoDepth \in Nat \ {0} /\ AiDepth \in Nat \ {0}
  /\ Times \subseteq 0..Duration /\ Steps \subseteq Nat /\ Tools \subseteq ToolNames
  /\ Direct \subseteq ToolNames
  /\ MaxBatch \in Nat /\ MaxEdits \in Nat /\ MaxPresses \in Nat

VARIABLES
  editor,  \* clips, selection, undo and redo lists, and the rest of the editor
  ai,      \* the assistant's snapshots for undo and for redo
  plan,    \* the plan applied and not yet answered by the project, 0 if none
  edits,   \* edits made so far
  presses  \* presses of undo and redo so far

vars == <<editor, ai, plan, edits, presses>>

Deltas == Steps \union {-d : d \in Steps}

NoClip == <<>>

\* A clip's id grows with its history: a split appends 0 or 1, a copy the
\* number of its edit; the clips that edit n makes anew get fresh ids.
Fresh(n, i) == <<n + 1, i + 1>>
Clip(id, start, end) == [id |-> id, start |-> start, end |-> end]

Larger(a, b)  == IF a > b THEN a ELSE b
Smaller(a, b) == IF a < b THEN a ELSE b
\* Math.max(low, Math.min(high, t))
Within(t, low, high) == Larger(low, Smaller(high, t))

Latest(s, n) == SubSeq(s, Larger(1, Len(s) - n + 1), Len(s))
Top(s)  == s[Len(s)]
Rest(s) == SubSeq(s, 1, Len(s) - 1)

Ids(cs) == {cs[i].id : i \in DOMAIN cs}
\* The first clip with an id, 0 if there is none.
Find(cs, id) == IF id \in Ids(cs)
                THEN CHOOSE i \in DOMAIN cs : cs[i].id = id /\ \A j \in 1..(i - 1) : cs[j].id # id
                ELSE 0

\* Array.sort by start, which is stable.
ByStart(cs) ==
  LET before(j, i) == \/ cs[j].start < cs[i].start
                      \/ cs[j].start = cs[i].start /\ j < i
      place(i) == 1 + Cardinality({j \in DOMAIN cs : before(j, i)})
  IN [p \in DOMAIN cs |-> cs[CHOOSE i \in DOMAIN cs : place(i) = p]]

Moved(c, by) == [c EXCEPT !.start = @ + by, !.end = @ + by]

\* Array.filter: the elements at these places, in their order.
Kept(s, places) ==
  LET kept[k \in 0..Len(s)] ==
        IF k = 0 THEN <<>>
        ELSE IF k \in places THEN Append(kept[k - 1], s[k]) ELSE kept[k - 1]
  IN kept[Len(s)]

-----------------------------------------------------------------------------
(***************************************************************************)
(* Operations on the list of clips.                                        *)
(***************************************************************************)
\* rippleTrim: the clips that begin later move by what was trimmed.
TrimmedOut(cs, id, by) ==
  LET s == ByStart(cs)
      i == Find(s, id)
      end == Larger(s[i].start + Least, Smaller(Duration, s[i].end + by))
      d == end - s[i].end
  IN [k \in DOMAIN s |-> IF k = i THEN [s[i] EXCEPT !.end = end]
                         ELSE IF k > i THEN Moved(s[k], d) ELSE s[k]]

TrimmedIn(cs, id, by) ==
  LET s == ByStart(cs)
      i == Find(s, id)
      start == Within(s[i].start + by, 0, s[i].end - Least)
      d == start - s[i].start
  IN [k \in DOMAIN s |-> IF k = i THEN [s[i] EXCEPT !.start = start]
                         ELSE IF k > i THEN Moved(s[k], -d) ELSE s[k]]

Without(cs, id) == Kept(cs, {i \in DOMAIN cs : cs[i].id # id})

\* rippleDelete: what begins after the clip closes the gap.
Closed(cs, id) ==
  LET gone == cs[Find(cs, id)]
      left == Without(cs, id)
  IN [k \in DOMAIN left |-> IF left[k].start >= gone.end
                            THEN Moved(left[k], gone.start - gone.end) ELSE left[k]]

\* Mutant of Halves: the left half keeps the id of the clip.
HalvesKeepingId(c, t) == << [c EXCEPT !.end = t],
                            [c EXCEPT !.id = Append(@, 1), !.start = t] >>

Halves(c, t) == << [c EXCEPT !.id = Append(@, 0), !.end = t],
                   [c EXCEPT !.id = Append(@, 1), !.start = t] >>

-----------------------------------------------------------------------------
(***************************************************************************)
(* Operations on the editor.                                               *)
(***************************************************************************)
\* Mutant of Pushed: the lists to be redone survive a new edit.
PushedKeepingRedo(ed, cs) ==
  [ed EXCEPT !.undo = Append(Latest(@, UndoDepth - 1), ed.clips), !.clips = cs]

\* A new list of clips, the old one kept for undo.
Pushed(ed, cs) ==
  [ed EXCEPT !.undo = Append(Latest(@, UndoDepth - 1), ed.clips), !.redo = <<>>, !.clips = cs]

Deselected(ed, id) == [ed EXCEPT !.selected = IF @ = id THEN NoClip ELSE @]

\* The selected clip, or the first if none is selected; 0 also when the
\* selection is of a clip that is gone.
Target(ed) == IF ed.selected # NoClip THEN Find(ed.clips, ed.selected)
              ELSE IF ed.clips = <<>> THEN 0 ELSE 1

MaySplit(ed, t) ==
  /\ Target(ed) # 0
  /\ ed.clips[Target(ed)].start + Margin < t
  /\ t < ed.clips[Target(ed)].end - Margin

\* splitClipAtTime: of a split the left half is selected.
Split(ed, t) ==
  IF MaySplit(ed, t)
  THEN LET i == Target(ed)
           halves == Halves(ed.clips[i], t)
       IN [Pushed(ed, SubSeq(ed.clips, 1, i - 1) \o halves
                      \o SubSeq(ed.clips, i + 1, Len(ed.clips)))
             EXCEPT !.selected = halves[1].id]
  ELSE ed

Delete(ed, id) == Deselected(Pushed(ed, Without(ed.clips, id)), id)

RippleDelete(ed, id) ==
  IF id \in Ids(ed.clips) THEN Deselected(Pushed(ed, Closed(ed.clips, id)), id) ELSE ed

\* updateClip: nothing is kept for undo.
Updated(ed, id, start, end) ==
  [ed EXCEPT !.clips = [k \in DOMAIN @ |-> IF @[k].id = id
                          THEN [@[k] EXCEPT !.start = start, !.end = end] ELSE @[k]]]

\* Mutant of Inside: what begins before the end of the range counts.
Touching(cs, start, end) ==
  Kept(cs, {i \in DOMAIN cs : cs[i].start >= start /\ cs[i].start < end})

Inside(cs, start, end) ==
  Kept(cs, {i \in DOMAIN cs : cs[i].start >= start /\ cs[i].end <= end + Slack})

\* One clip after the other, each by its id.
EachDeleted(ed, cs) ==
  LET after[k \in 0..Len(cs)] ==
        IF k = 0 THEN ed ELSE RippleDelete(after[k - 1], cs[k].id)
  IN after[Len(cs)]

\* "Delete & Close Gap": the clips are cut at both ends of the selected words
\* and what lies between is deleted, each clip found before the first goes.
DeleteRange(ed, start, end) ==
  LET cut == Split(Split(ed, start), end)
  IN EachDeleted(cut, Inside(cut.clips, start, end))

-----------------------------------------------------------------------------
(***************************************************************************)
(* The assistant.  `old` is the store as a batch found it: what a tool     *)
(* reads of it is not what the tools before it in the batch have made.     *)
(***************************************************************************)
Known(old) == Ids(old.clips)

\* SPLIT_CLIP and BLADE_SPLIT; AUTO_SPLIT_SCENES is one call for each marker.
Splits(ed) == {Split(ed, t) : t \in Times}

\* DELETE_CLIP, EXTRACT and LIFT: a clip that is named, or the selected one.
Deletes(ed, old) ==
  {Delete(ed, id) : id \in Known(old) \union ({old.selected} \ {NoClip})}

\* SELECT_CLIP, POINTER_SELECT and CLIP_RANGE_MARK.
Selects(ed, old) == {[ed EXCEPT !.selected = id] : id \in Known(old)}

\* RIPPLE_TRIM, SLIP_CLIP and RIPPLE_DELETE.  A slip moves the source points
\* of a clip, which are left out.
RippleTrims(ed) ==
  {Pushed(ed, TrimmedOut(ed.clips, id, d)) : id \in Ids(ed.clips), d \in Deltas}
  \union {Pushed(ed, TrimmedIn(ed.clips, id, d)) : id \in Ids(ed.clips), d \in Deltas}

Slips(ed, old) == IF Known(old) = {} THEN {} ELSE {Pushed(ed, ed.clips)}

RippleDeletes(ed, old) == {RippleDelete(ed, id) : id \in Known(old)}

\* REMOVE_SILENCES: a silence within the video leaves the two clips around
\* it, if they are a fifth of the video.  Nothing is kept in `undo`.
Gaps == {gap \in Times \X Times : /\ 0 < gap[1] /\ gap[1] < gap[2] /\ gap[2] < Duration
                                 /\ 5 * (gap[1] + Duration - gap[2]) >= Duration}

Silences(ed, n) ==
  {[ed EXCEPT !.clips = << Clip(Fresh(n, 1), 0, gap[1]), Clip(Fresh(n, 2), gap[2], Duration) >>,
              !.surface = @ \union {n}] : gap \in Gaps}

\* The editors a call may leave; a call without effect leaves the editor.
\* "surface" is any tool that changes something else a snapshot holds
\* (captions, elements, marks, filters, export settings, source points).
Called(tool, ed, old, n) ==
  {ed} \union
  CASE tool = "split"        -> Splits(ed)
    [] tool = "delete"       -> Deletes(ed, old)
    [] tool = "select"       -> Selects(ed, old)
    [] tool = "rippleTrim"   -> RippleTrims(ed)
    [] tool = "slip"         -> Slips(ed, old)
    [] tool = "rippleDelete" -> RippleDeletes(ed, old)
    [] tool = "silences"     -> Silences(ed, n)
    [] tool = "surface"      -> {[ed EXCEPT !.surface = @ \union {n}]}

\* dispatchAIActions
Dispatched(tools, ed, n) ==
  LET after[k \in 0..Len(tools)] ==
        IF k = 0 THEN {ed} ELSE UNION {Called(tools[k], e, ed, n) : e \in after[k - 1]}
  IN after[Len(tools)]

\* Mutant of Snapshot: the whole editor is kept, its histories included.
SnapshotOfAll(ed) == ed

Snapshot(ed) == [clips |-> ed.clips, surface |-> ed.surface]
Restored(ed, snapshot) == [ed EXCEPT !.clips = snapshot.clips, !.surface = snapshot.surface]

-----------------------------------------------------------------------------
\* The analysis has found up to two clips.
Found == {<<>>, << Clip(Fresh(0, 1), 0, Duration) >>}
         \union {<< Clip(Fresh(0, 1), 0, t), Clip(Fresh(0, 2), t, Duration) >> :
                   t \in Times \ {0, Duration}}

Init ==
  /\ \E cs \in Found :
       editor = [clips |-> cs, selected |-> NoClip, undo |-> <<>>, redo |-> <<>>,
                 surface |-> {}]
  /\ ai = [undo |-> <<>>, redo |-> <<>>]
  /\ plan = 0
  /\ edits = 0 /\ presses = 0

\* An edit by the user, the next in number.
Manual(changed) ==
  /\ edits < MaxEdits /\ edits' = edits + 1
  /\ editor' = changed
  /\ UNCHANGED <<ai, plan, presses>>

CutAt(t) == MaySplit(editor, t) /\ Manual(Split(editor, t))

DeleteSelected == editor.selected # NoClip /\ Manual(Delete(editor, editor.selected))

CutRange(start, end) == start < end /\ Manual(DeleteRange(editor, start, end))

\* The trim slider and the handles of a clip.
Resize(id, start, end) == start <= end /\ Manual(Updated(editor, id, start, end))

\* duplicateClip: the copy begins where the clip ends; nothing is kept for
\* undo.
Duplicate(i) ==
  LET c == editor.clips[i]
      copy == [c EXCEPT !.id = Append(@, edits + 2), !.start = c.end,
                        !.end = Smaller(c.end + (c.end - c.start), Duration)]
  IN c.end < Duration /\ Manual([editor EXCEPT !.clips = Append(@, copy)])

\* Dragging a clip to another place in the list.
Reorder(i, j) == i # j /\ Manual([editor EXCEPT !.clips = InsertAt(RemoveAt(@, i), j, @[i])])

Select(id) ==
  /\ editor' = [editor EXCEPT !.selected = id]
  /\ UNCHANGED <<ai, plan, edits, presses>>

\* Mutant of Assist: what was taken back can still be brought back.
AssistKeepingRedo(tools) ==
  /\ edits < MaxEdits /\ edits' = edits + 1
  /\ editor' \in Dispatched(tools, editor, edits')
  /\ ai' = [ai EXCEPT !.undo = Append(Latest(@, AiDepth - 1), Snapshot(editor))]
  /\ UNCHANGED presses

\* A batch of tools, with a snapshot of what was before it.
Assist(tools) ==
  /\ edits < MaxEdits /\ edits' = edits + 1
  /\ editor' \in Dispatched(tools, editor, edits')
  /\ ai' = [undo |-> Append(Latest(ai.undo, AiDepth - 1), Snapshot(editor)), redo |-> <<>>]
  /\ UNCHANGED presses

\* A pre-flight fix, or a batch of the chat that changes nothing of the
\* project: applied at once, also while a plan waits for its answer.
AssistantEdits(tools) == Assist(tools) /\ UNCHANGED plan

\* confirmPendingEditPlan: the plan is applied, then the project is asked.
PlanApplied(tools) == plan = 0 /\ Assist(tools) /\ plan' = edits'

PlanAccepted == plan # 0 /\ plan' = 0 /\ UNCHANGED <<editor, ai, edits, presses>>

\* undoAiEdit and redoAiEdit
TakeBack ==
  /\ ai.undo # <<>>
  /\ editor' = Restored(editor, Top(ai.undo))
  /\ ai' = [undo |-> Rest(ai.undo),
            redo |-> Append(Latest(ai.redo, AiDepth - 1), Snapshot(editor))]

BringBack ==
  /\ ai.redo # <<>>
  /\ editor' = Restored(editor, Top(ai.redo))
  /\ ai' = [undo |-> Append(Latest(ai.undo, AiDepth - 1), Snapshot(editor)),
            redo |-> Rest(ai.redo)]

\* The project refuses the plan: the last batch is taken back, if any.
PlanRefused ==
  /\ plan # 0 /\ plan' = 0
  /\ IF ai.undo # <<>> THEN TakeBack ELSE UNCHANGED <<editor, ai>>
  /\ UNCHANGED <<edits, presses>>

\* The undo button and Ctrl+Z: the assistant's batches first.
Undo ==
  /\ presses < MaxPresses /\ presses' = presses + 1
  /\ IF ai.undo # <<>> THEN TakeBack
     ELSE /\ editor.undo # <<>>
          /\ editor' = [editor EXCEPT !.undo = Rest(@), !.redo = Append(@, editor.clips),
                                      !.clips = Top(editor.undo)]
          /\ UNCHANGED ai
  /\ UNCHANGED <<plan, edits>>

Redo ==
  /\ presses < MaxPresses /\ presses' = presses + 1
  /\ IF ai.redo # <<>> THEN BringBack
     ELSE /\ editor.redo # <<>>
          /\ editor' = [editor EXCEPT !.redo = Rest(@), !.undo = Append(@, editor.clips),
                                      !.clips = Top(editor.redo)]
          /\ UNCHANGED ai
  /\ UNCHANGED <<plan, edits>>

\* setSourceFile and setSourceUrl drop everything of the video before, then
\* its clips are found.
OpenVideo(cs) ==
  /\ edits < MaxEdits /\ edits' = edits + 1
  /\ editor' = [clips |-> cs, selected |-> NoClip, undo |-> <<>>, redo |-> <<>>,
                surface |-> {}]
  /\ ai' = [undo |-> <<>>, redo |-> <<>>]
  /\ UNCHANGED <<plan, presses>>

Batches(tools) == UNION {[1..k -> tools] : k \in 1..MaxBatch}

Next ==
  \/ \E t \in Times : CutAt(t)
  \/ \E t, u \in Times : CutRange(t, u)
  \/ \E id \in Ids(editor.clips), t, u \in Times : Resize(id, t, u)
  \/ \E i, j \in DOMAIN editor.clips : Duplicate(i) \/ Reorder(i, j)
  \/ \E id \in Ids(editor.clips) : Select(id)
  \/ \E tools \in Batches(Direct) : AssistantEdits(tools)
  \/ \E tools \in Batches(Tools) : PlanApplied(tools)
  \/ \E cs \in Found : OpenVideo(cs)
  \/ DeleteSelected \/ PlanAccepted \/ PlanRefused \/ Undo \/ Redo

Spec == Init /\ [][Next]_vars

-----------------------------------------------------------------------------
(***************************************************************************)
(* Properties.                                                             *)
(***************************************************************************)
ClipList(cs) == \A i \in DOMAIN cs : DOMAIN cs[i] = {"id", "start", "end"}
Elements(s) == {s[k] : k \in DOMAIN s}
Batch == 1..MaxEdits

\* Clips are clips, a snapshot holds no histories, and the rest is what
\* batches have left.
TypeOK ==
  /\ ClipList(editor.clips)
  /\ \A k \in DOMAIN editor.undo : ClipList(editor.undo[k])
  /\ \A k \in DOMAIN editor.redo : ClipList(editor.redo[k])
  /\ \A snapshot \in Elements(ai.undo) \union Elements(ai.redo) :
       /\ DOMAIN snapshot = {"clips", "surface"}
       /\ ClipList(snapshot.clips) /\ snapshot.surface \subseteq Batch
  /\ editor.surface \subseteq Batch
  /\ plan \in 0..edits /\ edits \in 0..MaxEdits

Distinct(cs) == \A i, j \in DOMAIN cs : cs[i].id = cs[j].id => i = j

\* No two clips of a list have the same id, in the editor and in what undo
\* and redo bring back: every operation finds its clip by id, and a second
\* clip with the id would be edited and deleted along with the first
\* (splitClipAtTime, duplicateClip, setSuggestions).
UniqueIds ==
  /\ Distinct(editor.clips)
  /\ \A k \in DOMAIN editor.undo : Distinct(editor.undo[k])
  /\ \A k \in DOMAIN editor.redo : Distinct(editor.redo[k])
  /\ \A k \in DOMAIN ai.undo : Distinct(ai.undo[k].clips)
  /\ \A k \in DOMAIN ai.redo : Distinct(ai.redo[k].clips)

\* Undo and redo together never hold more than the depth of one: undo() and
\* redo() append without a cut, and are bounded only because every edit
\* drops what could be redone.
HistoryBounded ==
  /\ Len(editor.undo) + Len(editor.redo) <= UndoDepth
  /\ Len(ai.undo) + Len(ai.redo) <= AiDepth

\* The snapshots and the editor between them are one line of history, oldest
\* first: each has what the one before it had.  Undo and redo walk it, across
\* plans that are refused and manual edits in between, and neither ever
\* brings back a batch of a line that a later batch has abandoned
\* (applyAiEdits, undoAiEdit, redoAiEdit).
Line == [k \in DOMAIN ai.undo |-> ai.undo[k].surface] \o << editor.surface >>
        \o Reverse([k \in DOMAIN ai.redo |-> ai.redo[k].surface])

OneLine == \A k \in 1..(Len(Line) - 1) : Line[k] \subseteq Line[k + 1]

Length(cs) ==
  LET sum[k \in 0..Len(cs)] == IF k = 0 THEN 0 ELSE sum[k - 1] + (cs[k].end - cs[k].start)
  IN sum[Len(cs)]

\* A clip, or a piece that splits have made of it.
PieceOf(id, whole) ==
  /\ Len(whole) <= Len(id)
  /\ \A k \in 1..Len(whole) : id[k] = whole[k]
  /\ \A k \in (Len(whole) + 1)..Len(id) : id[k] \in {0, 1}

\* What is left of a clip: itself, or the pieces it was cut into.
Remains(cs, id) == Kept(cs, {i \in DOMAIN cs : PieceOf(cs[i].id, id)})

Overlap(c, t, u) == Larger(0, Smaller(c.end, u) - Larger(c.start, t))

\* "Delete & Close Gap" takes nothing out of a clip but what was selected of
\* it, and after the selection at most the hundredth of a second by which a
\* clip may end late, whatever is selected on the timeline and however the
\* clips lie (handleDeleteSelection cuts, searches and deletes by the store
\* it finds).
KeepsRest ==
  [][\A t, u \in Times : CutRange(t, u) =>
       \A i \in DOMAIN editor.clips :
         LET c == editor.clips[i]
         IN Length(Remains(editor'.clips, c.id)) >= (c.end - c.start) - Overlap(c, t, u + Slack)]_vars

=============================================================================
