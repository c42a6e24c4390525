---------------------------- MODULE MCGeminiCall ----------------------------
(* GeminiCall.tla on small instances. *)
EXTENDS GeminiCall, TLC

Symmetric == Permutations(Callers)
=============================================================================
