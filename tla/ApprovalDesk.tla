---------------------------- MODULE ApprovalDesk ----------------------------
(***************************************************************************)
(* What the host promises to whoever asks for an approval (an executor     *)
(* callback, a remote worker's HTTP request, the preflight of a session    *)
(* message): a request is opened once, it is closed at most once, by a     *)
(* person, by a cancellation or by its time limit, the asker is told       *)
(* exactly what was recorded, in the same step, and no request stays open  *)
(* for ever while the host that opened it lives.  A host that restarts     *)
(* abandons the requests that were open; their askers are never told.      *)
(*                                                                         *)
(* TaskLifecycle is shown to implement this specification.                 *)
(***************************************************************************)
CONSTANT Approval

VARIABLES request,  \* what is on record for each approval id
          told      \* what its asker was told

vars == <<request, told>>

Requests == {"unasked", "open", "approved", "rejected", "expired", "abandoned"}
Tidings == {"nothing", "yes", "no"}

TypeOK == /\ request \in [Approval -> Requests]
          /\ told \in [Approval -> Tidings]

Init == /\ request = [a \in Approval |-> "unasked"]
        /\ told = [a \in Approval |-> "nothing"]

Ask(a) == /\ request[a] = "unasked"
          /\ request' = [request EXCEPT ![a] = "open"]
          /\ UNCHANGED told

(* A request for a path outside the allowed directory is refused unseen.   *)
Refuse(a) == /\ request[a] = "unasked"
             /\ request' = [request EXCEPT ![a] = "rejected"]
             /\ told' = [told EXCEPT ![a] = "no"]

Grant(a) == /\ request[a] = "open"
            /\ request' = [request EXCEPT ![a] = "approved"]
            /\ told' = [told EXCEPT ![a] = "yes"]

Reject(a) == /\ request[a] = "open"
             /\ request' = [request EXCEPT ![a] = "rejected"]
             /\ told' = [told EXCEPT ![a] = "no"]

Expire(a) == /\ request[a] = "open"
             /\ request' = [request EXCEPT ![a] = "expired"]
             /\ told' = [told EXCEPT ![a] = "no"]

Abandon == /\ request' = [a \in Approval |->
                            IF request[a] = "open" THEN "abandoned" ELSE request[a]]
           /\ UNCHANGED told

Next == \/ \E a \in Approval : Ask(a) \/ Refuse(a) \/ Grant(a) \/ Reject(a) \/ Expire(a)
        \/ Abandon

SafeSpec == Init /\ [][Next]_vars

Spec == SafeSpec /\ \A a \in Approval : WF_vars(Expire(a))
=============================================================================
