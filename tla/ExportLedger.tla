---------------------------- MODULE ExportLedger ----------------------------
(***************************************************************************)
(* What one export promises the user, and nothing of how: the price is     *)
(* taken once, nothing is delivered before it is taken, and it is given    *)
(* back at most once.  RenderJob.tla and DubJob.tla implement it.          *)
(*                                                                         *)
(* The ledger does not promise that a delivered export keeps its price,    *)
(* nor that an undelivered one gives it back: a cancel may overtake the    *)
(* upload, and a render that fails is never paid back.                     *)
(***************************************************************************)
EXTENDS Naturals

VARIABLES charged,    \* times the price of the export was taken
          refunded,   \* times it was given back
          delivered   \* is the finished video in the bucket?

ledgerVars == <<charged, refunded, delivered>>

LedgerInit == charged = 0 /\ refunded = 0 /\ delivered = FALSE

Charge  == /\ charged = 0
           /\ charged' = 1
           /\ UNCHANGED <<refunded, delivered>>

Refund  == /\ charged = 1 /\ refunded = 0
           /\ refunded' = 1
           /\ UNCHANGED <<charged, delivered>>

Deliver == /\ charged = 1
           /\ delivered' = TRUE
           /\ UNCHANGED <<charged, refunded>>

LedgerNext == Charge \/ Refund \/ Deliver

LedgerSpec == LedgerInit /\ [][LedgerNext]_ledgerVars
=============================================================================
