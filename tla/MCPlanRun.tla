----------------------------- MODULE MCPlanRun -----------------------------
(***************************************************************************)
(* Instances of PlanRun.tla for TLC: the constants are in the              *)
(* configuration, the requests are interchangeable.                        *)
(***************************************************************************)
EXTENDS PlanRun, TLC

Symmetric == Permutations(Requests)
=============================================================================
