-------------------------- MODULE MCTaskLifecycle --------------------------
(***************************************************************************)
(* TLC instances of TaskLifecycle.                                         *)
(***************************************************************************)
EXTENDS TaskLifecycle

CONSTANTS l1, l2,  \* runs of this host
          r1, r2   \* runs of a remote worker
=============================================================================
