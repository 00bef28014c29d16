------------------------------- MODULE LogFeed -------------------------------
(***************************************************************************)
(* What a reader of a numbered log is promised: wherever it starts, it is  *)
(* told of every later entry once and in order, and it catches up.         *)
(*                                                                         *)
(* EventStream is shown to implement this for the page of a run.           *)
(***************************************************************************)
EXTENDS Naturals

VARIABLES length,  \* entries of the log
          at       \* the last one the reader was told of, 0 before the first

vars == <<length, at>>

Init == length = 0 /\ at = 0

Append == length' = length + 1 /\ at' = at

Start == at = 0 /\ at' \in 1..length /\ length' = length

Advance == at \in 1..(length - 1) /\ at' = at + 1 /\ length' = length

Next == Append \/ Start \/ Advance

SafeSpec == Init /\ [][Next]_vars

Spec == SafeSpec /\ WF_vars(Advance)
=============================================================================
