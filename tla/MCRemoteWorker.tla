--------------------------- MODULE MCRemoteWorker ---------------------------
(***************************************************************************)
(* TLC instances of RemoteWorker.                                          *)
(***************************************************************************)
EXTENDS RemoteWorker

CONSTANTS r1, r2  \* runs of the worker
=============================================================================
