------------------------- MODULE MCSessionLifecycle -------------------------
(***************************************************************************)
(* TLC instances of SessionLifecycle: two messages, two approvals.         *)
(***************************************************************************)
EXTENDS SessionLifecycle, TLC

(* Nothing in the module orders runs or approvals. *)
SessionSymmetry == Permutations(Task) \cup Permutations(Approval)
=============================================================================
