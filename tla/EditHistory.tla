---------------------------- MODULE EditHistory -----------------------------
(***************************************************************************)
(* What a studio project promises its editor, and nothing of snapshots,    *)
(* stacks of revisions or handlers: a current composition, the ones undo   *)
(* goes back to and redo forward to, and the numbered versions the project *)
(* has had, one for each operation, to any of which a revert may return.   *)
(* ProjectKernel.tla implements this specification.                        *)
(*                                                                         *)
(* The history does not promise that an undo or a revert is ever granted:  *)
(* the kernel refuses some that an editor would expect (those without a    *)
(* snapshot).                                                              *)
(***************************************************************************)
EXTENDS Sequences, Integers

CONSTANT Depth      \* compositions the past holds

VARIABLES current,  \* the composition
          past,     \* what undo goes back to, latest last
          future,   \* what redo goes forward to, latest last
          made,     \* the version each operation left; the first was there before
          last,     \* the latest operation, and the version it says it returns to
          live      \* is the project still there?

historyVars == <<current, past, future, made, last, live>>

\* The latest n elements of s.
Latest(s, n) == IF Len(s) <= n THEN s ELSE SubSeq(s, Len(s) - n + 1, Len(s))

Top(s) == s[Len(s)]
Rest(s) == SubSeq(s, 1, Len(s) - 1)

NoOp == [what |-> "none", to |-> 0]

HistoryInit == /\ past = <<>> /\ future = <<>>
               /\ made = <<current>> /\ last = NoOp
               /\ live = TRUE

\* What is composed now can be undone, and nothing can be redone.
Branch == /\ past' = Latest(Append(past, current), Depth)
          /\ future' = <<>>

\* The composition is again that of the version the operation names; versions
\* are numbered from 0.
Returns == /\ last'.to + 1 \in DOMAIN made
           /\ current' = made[last'.to + 1]

\* The editor composes something new: current' is free.
Compose == last'.what = "edit" /\ Branch

\* A new version with the same composition.
Note == last'.what = "note" /\ UNCHANGED <<current, past, future>>

Undo == /\ last'.what = "undo" /\ Returns
        /\ past # <<>>
        /\ current' = Top(past)
        /\ past' = Rest(past)
        /\ future' = Append(future, current)

Redo == /\ last'.what = "redo" /\ Returns
        /\ future # <<>>
        /\ current' = Top(future)
        /\ future' = Rest(future)
        /\ past' = Append(past, current)

Revert == last'.what = "revert" /\ Returns /\ Branch

Edit == /\ live /\ live' = TRUE
        /\ made' = Append(made, current')
        /\ Compose \/ Note \/ Undo \/ Redo \/ Revert

Close == live' = FALSE /\ UNCHANGED <<current, past, future, made, last>>

HistoryNext == Edit \/ Close

HistorySpec == HistoryInit /\ [][HistoryNext]_historyVars
=============================================================================
