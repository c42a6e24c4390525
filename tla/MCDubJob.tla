------------------------------ MODULE MCDubJob ------------------------------
(***************************************************************************)
(* Instances of DubJob.tla for TLC: the constants are in the               *)
(* configurations, the symmetry is for the runs of safety properties.      *)
(***************************************************************************)
EXTENDS DubJob, TLC

Symmetric == Permutations(Workers) \union Permutations(Cancels)
=============================================================================
