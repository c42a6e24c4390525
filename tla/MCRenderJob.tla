---------------------------- MODULE MCRenderJob -----------------------------
(***************************************************************************)
(* Instances of RenderJob.tla for TLC.  The configurations give the        *)
(* constants; this module adds the symmetry the safety runs use.           *)
(***************************************************************************)
EXTENDS RenderJob, TLC

\* Handlers, retries and cancels are interchangeable.
Symmetric == Permutations(Workers) \union Permutations(Retries) \union Permutations(Cancels)

\* Bound of render_retry: the reopened job's own task is delivered once.
RetriedOnce == \A t \in Retries : tries[t] <= 1
=============================================================================
