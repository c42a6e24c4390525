----------------------------- MODULE MCTimeline -----------------------------
(***************************************************************************)
(* Instances of Timeline: a video of ten seconds, in hundredths of one,    *)
(* that is cut at 4 and 6 and whose clips are trimmed by a hundredth.      *)
(***************************************************************************)
EXTENDS Timeline

=============================================================================
