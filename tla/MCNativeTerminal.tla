-------------------------- MODULE MCNativeTerminal --------------------------
(* Instances of NativeTerminal for TLC. *)
EXTENDS NativeTerminal, TLC

CONSTANTS t1, t2, b1, b2, c1, c2, r1

Symmetry == Permutations(Bridge) \cup Permutations(Browser)
=============================================================================
