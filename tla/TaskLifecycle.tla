--------------------------- MODULE TaskLifecycle ---------------------------
(***************************************************************************)
(* Agent runs and their approvals on the host: TaskService                 *)
(* (apps/host/src/services/task-service.ts) with the rows it writes        *)
(* (tasks, approvals), the timers and promise resolvers it holds in        *)
(* memory, the executor or remote worker that carries a run out, and the   *)
(* recovery of a restarted host (apps/host/src/bootstrap.ts).              *)
(*                                                                         *)
(* The host is one Node.js process.  A step is what runs between two       *)
(* turns of its event loop: an HTTP handler up to its first await, a timer *)
(* callback, an executor callback, or the continuation of a promise.       *)
(* Continuations run before the next request or timer (Quiet).             *)
(***************************************************************************)
EXTENDS Naturals

CONSTANTS Task,        \* ids of agent runs
          Remote,      \* the runs whose device is a remote worker
          Approval,    \* ids of approval requests
          NoTask,
          NoApproval,
          MaxCancels,  \* bound: cancellations of one run in flight at once
          MaxRestarts  \* bound: restarts of the host

ASSUME ConstantsAssumption == /\ Remote \subseteq Task
                              /\ NoTask \notin Task
                              /\ NoApproval \notin Approval
                              /\ MaxCancels \in Nat
                              /\ MaxRestarts \in Nat

VARIABLES
  status,    \* tasks.status, "none" before the row exists
  before,    \* the runs whose tasks.createdAt is earlier
  row,       \* approvals.status, "none" before the row exists
  owner,     \* approvals.taskId
  started,   \* how many task.started events the log holds for each run
  resolver,  \* keys of the map approvalResolvers
  timer,     \* approvals whose expiry timer is armed
  answer,    \* the promise each asker awaits: open, settled, or lost with the process
  gate,      \* the preflight approval that the run's driver awaits
  exec,      \* the executor's startTask, on this host or on the worker
  clock,     \* runs whose maximum-duration timer is armed
  cancels,   \* cancelTask calls that await executor.cancelTask
  restarts   \* restarts so far (only bounds the model)

disk == <<status, before, row, owner, started>>
memory == <<resolver, timer, answer, gate, exec, clock, cancels>>
vars == <<disk, memory, restarts>>

Terminal == {"completed", "failed", "cancelled"}
Statuses == {"none", "queued", "running", "waiting_approval"} \cup Terminal
Decisions == {"approved", "rejected", "expired"}
Rows == {"none", "pending"} \cup Decisions
Answers == {"none", "open", "yes", "no", "lost"}
Phases == {"off", "on", "stopping", "reported"}

Init == /\ status = [t \in Task |-> "none"]
        /\ before = [t \in Task |-> {}]
        /\ row = [a \in Approval |-> "none"]
        /\ owner = [a \in Approval |-> NoTask]
        /\ started = [t \in Task |-> 0]
        /\ resolver = {}
        /\ timer = {}
        /\ answer = [a \in Approval |-> "none"]
        /\ gate = [t \in Task |-> NoApproval]
        /\ exec = [t \in Task |-> "off"]
        /\ clock = {}
        /\ cancels = [t \in Task |-> 0]
        /\ restarts = 0

-----------------------------------------------------------------------------
(* Helpers shared by the handlers.                                         *)

isTerminal(t) == status[t] \in Terminal

Born == {u \in Task : status[u] # "none"}

PendingOf(t) == {a \in Approval : owner[a] = t /\ row[a] = "pending"}

(* The driver of t has been answered and its continuation is due. *)
Answered(t) == gate[t] # NoApproval /\ answer[gate[t]] \in {"yes", "no"}

Quiet == \A t \in Task : ~Answered(t)

(* The row after UPDATE ... WHERE status = 'pending'. *)
Decide(a, decision) == [row EXCEPT ![a] = IF @ = "pending" THEN decision ELSE @]

(* The promise after resolve(); a promise settles once. *)
Tell(a, verdict) == [answer EXCEPT ![a] = IF @ = "open" THEN verdict ELSE @]

markTaskFailed(t) == [status EXCEPT ![t] = IF isTerminal(t) THEN @ ELSE "failed"]

(* executor.cancelTask on the host: a remote run is unknown to it. *)
Interrupt(t) == [exec EXCEPT ![t] = IF t \notin Remote /\ @ = "on" THEN "stopping" ELSE @]

(* Mutant: the timer of a decided approval is left running. *)
SettleKeepingTimer(a, decision, verdict) == /\ row' = Decide(a, decision)
                                            /\ resolver' = resolver \ {a}
                                            /\ answer' = Tell(a, verdict)
                                            /\ UNCHANGED timer

(* A decided approval: its row, its resolver, its timer and its promise. *)
Settle(a, decision, verdict) == /\ row' = Decide(a, decision)
                                /\ resolver' = resolver \ {a}
                                /\ timer' = timer \ {a}
                                /\ answer' = Tell(a, verdict)

(* Mutant: the row is written without its task. *)
OpenApprovalWithoutOwner(t, a) == /\ row[a] = "none"
                                  /\ row' = [row EXCEPT ![a] = "pending"]
                                  /\ status' = [status EXCEPT ![t] = "waiting_approval"]
                                  /\ resolver' = resolver \cup {a}
                                  /\ timer' = timer \cup {a}
                                  /\ answer' = [answer EXCEPT ![a] = "open"]
                                  /\ UNCHANGED owner

(* requestApprovalForTask, the request opened for a person to decide. *)
OpenApproval(t, a) == /\ row[a] = "none"
                      /\ row' = [row EXCEPT ![a] = "pending"]
                      /\ owner' = [owner EXCEPT ![a] = t]
                      /\ status' = [status EXCEPT ![t] = "waiting_approval"]
                      /\ resolver' = resolver \cup {a}
                      /\ timer' = timer \cup {a}
                      /\ answer' = [answer EXCEPT ![a] = "open"]

(* requestApprovalForTask, a path outside the allowed work directory. *)
BlockApproval(t, a) == /\ row[a] = "none"
                       /\ row' = [row EXCEPT ![a] = "rejected"]
                       /\ owner' = [owner EXCEPT ![a] = t]
                       /\ answer' = [answer EXCEPT ![a] = "no"]
                       /\ UNCHANGED <<status, resolver, timer>>

(* executeTask up to its await: no look at the status it overwrites.  The  *)
(* second disjunct is an executor that is not registered on this host.     *)
executeTask(t) == \/ /\ status' = [status EXCEPT ![t] = "running"]
                     /\ started' = [started EXCEPT ![t] = @ + 1]
                     /\ exec' = [exec EXCEPT ![t] = "on"]
                     /\ clock' = clock \cup {t}
                  \/ /\ status' = markTaskFailed(t)
                     /\ UNCHANGED <<started, exec, clock>>

-----------------------------------------------------------------------------
(* Runs are created and driven.                                            *)

(* A run created without a preflight question: a local one starts in the   *)
(* same turn, a remote one stays queued for its worker.                    *)
CreateRun(t) == /\ Quiet
                /\ status[t] = "none"
                /\ before' = [before EXCEPT ![t] = Born]
                /\ IF t \in Remote
                     THEN /\ status' = [status EXCEPT ![t] = "queued"]
                          /\ UNCHANGED <<started, exec, clock>>
                     ELSE executeTask(t)
                /\ UNCHANGED <<row, owner, resolver, timer, answer, gate, cancels, restarts>>

(* A session message whose permission decision is "ask". *)
CreateRunWithPreflight(t, a) ==
  /\ Quiet
  /\ status[t] = "none"
  /\ before' = [before EXCEPT ![t] = Born]
  /\ OpenApproval(t, a)
  /\ gate' = [gate EXCEPT ![t] = a]
  /\ UNCHANGED <<started, exec, clock, cancels, restarts>>

(* Mutant: the run is dispatched whatever the answer was. *)
DispatchAnyway(t) ==
  /\ Answered(t)
  /\ gate' = [gate EXCEPT ![t] = NoApproval]
  /\ IF t \in Remote THEN UNCHANGED <<status, started, exec, clock>> ELSE executeTask(t)
  /\ UNCHANGED <<before, row, owner, resolver, timer, answer, cancels, restarts>>

(* The preflight was approved: dispatchTask.  A local run is executed; for *)
(* a remote one the driver only waits for the worker to claim it.          *)
PreflightGranted(t) ==
  /\ gate[t] # NoApproval /\ answer[gate[t]] = "yes"
  /\ gate' = [gate EXCEPT ![t] = NoApproval]
  /\ IF t \in Remote THEN UNCHANGED <<status, started, exec, clock>> ELSE executeTask(t)
  /\ UNCHANGED <<before, row, owner, resolver, timer, answer, cancels, restarts>>

(* The preflight was rejected or expired: failTask. *)
PreflightDenied(t) ==
  /\ gate[t] # NoApproval /\ answer[gate[t]] = "no"
  /\ gate' = [gate EXCEPT ![t] = NoApproval]
  /\ status' = markTaskFailed(t)
  /\ UNCHANGED <<before, row, owner, started, resolver, timer, answer, exec, clock,
                 cancels, restarts>>

WorkersIdle == \A u \in Remote : exec[u] = "off"

(* Mutant: a run that waits for its preflight can be claimed. *)
UnfinishedRemote == {t \in Remote : status[t] \in {"queued", "waiting_approval"}}

(* The runs a worker may claim. *)
QueuedRemote == {t \in Remote : status[t] = "queued"}

(* Mutant: the claimed run is left queued. *)
HandOutLeavesQueued(t) ==
  /\ Quiet
  /\ t \in QueuedRemote /\ before[t] \cap QueuedRemote = {}
  /\ started' = [started EXCEPT ![t] = @ + 1]
  /\ UNCHANGED <<status, before, row, owner, resolver, timer, answer, gate, clock, cancels,
                 restarts>>

(* The oldest queued run of the device is handed out to whoever asks.  The *)
(* worker has the executors of all its runs: its list of them, which the   *)
(* query filters by, leaves none out.                                      *)
HandOut(t) ==
  /\ Quiet
  /\ t \in QueuedRemote /\ before[t] \cap QueuedRemote = {}
  /\ status' = [status EXCEPT ![t] = "running"]
  /\ started' = [started EXCEPT ![t] = @ + 1]
  /\ UNCHANGED <<before, row, owner, resolver, timer, answer, gate, clock, cancels, restarts>>

(* A worker claims a run and carries it out. *)
claimRemoteTask(t) == HandOut(t) /\ exec' = [exec EXCEPT ![t] = "on"]

-----------------------------------------------------------------------------
(* Callbacks of the executor, and the same reports posted by a worker.     *)

onApprovalRequest(t, a) ==
  /\ exec[t] \in {"on", "stopping"}
  /\ ~isTerminal(t)
  /\ OpenApproval(t, a) \/ BlockApproval(t, a)
  /\ UNCHANGED <<before, started, gate, exec, clock, cancels, restarts>>

(* Mutant: a late completion overwrites a terminal status. *)
CompleteUnguarded(t) ==
  /\ exec[t] \in {"on", "stopping"}
  /\ exec' = [exec EXCEPT ![t] = "reported"]
  /\ status' = [status EXCEPT ![t] = "completed"]
  /\ UNCHANGED <<before, row, owner, started, resolver, timer, answer, gate, clock,
                 cancels, restarts>>

onComplete(t) ==
  /\ exec[t] \in {"on", "stopping"}
  /\ exec' = [exec EXCEPT ![t] = "reported"]
  /\ status' = [status EXCEPT ![t] = IF isTerminal(t) THEN @ ELSE "completed"]
  /\ UNCHANGED <<before, row, owner, started, resolver, timer, answer, gate, clock,
                 cancels, restarts>>

onError(t) ==
  /\ exec[t] \in {"on", "stopping"}
  /\ exec' = [exec EXCEPT ![t] = "reported"]
  /\ status' = markTaskFailed(t)
  /\ UNCHANGED <<before, row, owner, started, resolver, timer, answer, gate, clock,
                 cancels, restarts>>

(* startTask returns: after its report, or without one once it was told to *)
(* stop.  The finally block disarms the maximum-duration timer.            *)
StartTaskReturns(t) ==
  /\ exec[t] \in {"stopping", "reported"}
  /\ exec' = [exec EXCEPT ![t] = "off"]
  /\ clock' = clock \ {t}
  /\ UNCHANGED <<disk, resolver, timer, answer, gate, cancels, restarts>>

(* The worker's poll of the run's status. *)
WorkerSeesCancel(t) ==
  /\ t \in Remote
  /\ exec[t] = "on"
  /\ status[t] = "cancelled"
  /\ exec' = [exec EXCEPT ![t] = "stopping"]
  /\ UNCHANGED <<disk, resolver, timer, answer, gate, clock, cancels, restarts>>

(* The worker dies, or its last report never reaches the host. *)
WorkerLost(t) ==
  /\ t \in Remote
  /\ exec[t] \in {"on", "stopping"}
  /\ exec' = [exec EXCEPT ![t] = "off"]
  /\ UNCHANGED <<disk, resolver, timer, answer, gate, clock, cancels, restarts>>

-----------------------------------------------------------------------------
(* People, timers and the restart of the host.                             *)

(* A person decides.  The status of the run is written whatever it is. *)
resolveApproval(a, approved) ==
  /\ Quiet
  /\ row[a] = "pending"
  /\ a \in resolver
  /\ Settle(a, IF approved THEN "approved" ELSE "rejected", IF approved THEN "yes" ELSE "no")
  /\ status' = [status EXCEPT ![owner[a]] = "running"]
  /\ UNCHANGED <<before, owner, started, gate, exec, clock, cancels, restarts>>

(* Mutant: the rejected approval's asker is not told. *)
CancelForgetsAsker(t) ==
  /\ Quiet
  /\ status[t] # "none" /\ ~isTerminal(t)
  /\ cancels[t] < MaxCancels
  /\ \/ /\ PendingOf(t) = {}
        /\ UNCHANGED <<row, resolver, timer>>
     \/ \E a \in PendingOf(t) :
          /\ row' = Decide(a, "rejected")
          /\ resolver' = resolver \ {a}
          /\ timer' = timer \ {a}
  /\ exec' = Interrupt(t)
  /\ cancels' = [cancels EXCEPT ![t] = @ + 1]
  /\ UNCHANGED <<status, before, owner, started, answer, gate, clock, restarts>>

(* Mutant: only the executor is told, the approval stays open. *)
CancelLeavesApproval(t) ==
  /\ Quiet
  /\ status[t] # "none" /\ ~isTerminal(t)
  /\ cancels[t] < MaxCancels
  /\ exec' = Interrupt(t)
  /\ cancels' = [cancels EXCEPT ![t] = @ + 1]
  /\ UNCHANGED <<disk, resolver, timer, answer, gate, clock, restarts>>

(* cancelTask up to its await: one pending approval of the run is rejected *)
(* and the executor is told to stop.                                       *)
CancelBegins(t) ==
  /\ Quiet
  /\ status[t] # "none" /\ ~isTerminal(t)
  /\ cancels[t] < MaxCancels
  /\ \/ /\ PendingOf(t) = {}
        /\ UNCHANGED <<row, resolver, timer, answer>>
     \/ \E a \in PendingOf(t) :
          IF a \in resolver THEN Settle(a, "rejected", "no")
                            ELSE UNCHANGED <<row, resolver, timer, answer>>
  /\ exec' = Interrupt(t)
  /\ cancels' = [cancels EXCEPT ![t] = @ + 1]
  /\ UNCHANGED <<status, before, owner, started, gate, clock, restarts>>

(* Mutant: only a run in progress is marked cancelled. *)
CancelEndsRunningOnly(t) ==
  /\ cancels[t] > 0
  /\ status' = [status EXCEPT ![t] = IF @ = "running" THEN "cancelled" ELSE @]
  /\ cancels' = [cancels EXCEPT ![t] = @ - 1]
  /\ UNCHANGED <<before, row, owner, started, resolver, timer, answer, gate, exec, clock,
                 restarts>>

(* cancelTask after its await: the status is written whatever it is. *)
CancelEnds(t) ==
  /\ cancels[t] > 0
  /\ status' = [status EXCEPT ![t] = "cancelled"]
  /\ cancels' = [cancels EXCEPT ![t] = @ - 1]
  /\ UNCHANGED <<before, row, owner, started, resolver, timer, answer, gate, exec, clock,
                 restarts>>

(* Mutant: an approval that nobody decided counts as granted. *)
TimeoutFailsOpen(a) ==
  /\ Quiet
  /\ a \in timer
  /\ Settle(a, "expired", "yes")
  /\ exec' = Interrupt(owner[a])
  /\ status' = markTaskFailed(owner[a])
  /\ UNCHANGED <<before, owner, started, gate, clock, cancels, restarts>>

(* Mutant: the run is not failed with its approval. *)
TimeoutLeavesRun(a) ==
  /\ Quiet
  /\ a \in timer
  /\ Settle(a, "expired", "no")
  /\ exec' = Interrupt(owner[a])
  /\ UNCHANGED <<status, before, owner, started, gate, clock, cancels, restarts>>

ApprovalTimeout(a) ==
  /\ Quiet
  /\ a \in timer
  /\ Settle(a, "expired", "no")
  /\ exec' = Interrupt(owner[a])
  /\ status' = markTaskFailed(owner[a])
  /\ UNCHANGED <<before, owner, started, gate, clock, cancels, restarts>>

(* Mutant: the executor is stopped and the run is left as it is. *)
TimeoutOnlyStops(t) ==
  /\ Quiet
  /\ t \in clock
  /\ clock' = clock \ {t}
  /\ exec' = Interrupt(t)
  /\ UNCHANGED <<disk, resolver, timer, answer, gate, cancels, restarts>>

TaskTimeout(t) ==
  /\ Quiet
  /\ t \in clock
  /\ clock' = clock \ {t}
  /\ exec' = Interrupt(t)
  /\ status' = markTaskFailed(t)
  /\ UNCHANGED <<before, row, owner, started, resolver, timer, answer, gate, cancels, restarts>>

(* The process dies and starts again: recoverStuckTasks fails what was in  *)
(* progress; approvals keep their rows; a worker does not notice.          *)
Restart ==
  /\ restarts < MaxRestarts
  /\ restarts' = restarts + 1
  /\ status' = [t \in Task |-> IF status[t] \in {"queued", "running", "waiting_approval"}
                                 THEN "failed" ELSE status[t]]
  /\ resolver' = {}
  /\ timer' = {}
  /\ clock' = {}
  /\ answer' = [a \in Approval |-> IF answer[a] = "open" THEN "lost" ELSE answer[a]]
  /\ gate' = [t \in Task |-> NoApproval]
  /\ cancels' = [t \in Task |-> 0]
  /\ exec' = [t \in Task |-> IF t \in Remote THEN exec[t] ELSE "off"]
  /\ UNCHANGED <<before, row, owner, started>>

-----------------------------------------------------------------------------
Next ==
  \/ \E t \in Task :
       \/ CreateRun(t)
       \/ \E a \in Approval : CreateRunWithPreflight(t, a) \/ onApprovalRequest(t, a)
       \/ PreflightGranted(t) \/ PreflightDenied(t)
       \/ onComplete(t) \/ onError(t) \/ StartTaskReturns(t)
       \/ claimRemoteTask(t) \/ WorkerSeesCancel(t) \/ WorkerLost(t)
       \/ CancelBegins(t) \/ CancelEnds(t) \/ TaskTimeout(t)
  \/ \E a \in Approval :
       \/ \E approved \in BOOLEAN : resolveApproval(a, approved)
       \/ ApprovalTimeout(a)
  \/ Restart

(* Timers fire, promise continuations run, executor.cancelTask returns and *)
(* an idle worker claims.  Nothing is assumed of executors or of people.   *)
Fairness == /\ \A a \in Approval : WF_vars(ApprovalTimeout(a))
            /\ \A t \in Task : /\ WF_vars(TaskTimeout(t))
                               /\ WF_vars(PreflightGranted(t))
                               /\ WF_vars(PreflightDenied(t))
                               /\ WF_vars(CancelEnds(t))
                               /\ WF_vars(WorkersIdle /\ claimRemoteTask(t))

Spec == Init /\ [][Next]_vars
FairSpec == Spec /\ Fairness
-----------------------------------------------------------------------------
(* Properties.                                                             *)

(* Every variable has its type; and a row of approvals names its run.      *)
TypeOK == /\ status \in [Task -> Statuses]
          /\ before \in [Task -> SUBSET Task]
          /\ row \in [Approval -> Rows]
          /\ owner \in [Approval -> Task \cup {NoTask}]
          /\ \A a \in Approval : row[a] = "none" <=> owner[a] = NoTask
          /\ started \in [Task -> Nat]
          /\ resolver \subseteq Approval
          /\ timer \subseteq Approval
          /\ answer \in [Approval -> Answers]
          /\ gate \in [Task -> Approval \cup {NoApproval}]
          /\ exec \in [Task -> Phases]
          /\ clock \subseteq Task
          /\ cancels \in [Task -> 0..MaxCancels]
          /\ restarts \in 0..MaxRestarts

(* The row of an approval, its resolver, its timer and the promise of its  *)
(* asker never disagree: what a person can still decide is exactly what    *)
(* somebody still waits for, and it will expire if nobody does.  Only a    *)
(* restart leaves a row pending with nobody behind it.                     *)
BrokerConsistent ==
  /\ timer = resolver
  /\ \A a \in Approval : /\ a \in resolver => row[a] = "pending"
                         /\ a \in resolver <=> answer[a] = "open"
                         /\ row[a] = "pending" => answer[a] \in {"open", "lost"}

(* The asker hears yes exactly when the record says approved, and no when  *)
(* it says rejected or expired; in particular a time-out never grants.     *)
AnswerMatchesRow ==
  \A a \in Approval : /\ answer[a] = "yes" <=> row[a] = "approved"
                      /\ answer[a] = "no" <=> row[a] \in {"rejected", "expired"}

(* A run that waits for an approval has one that can still be decided,     *)
(* unless a cancellation that is about to end it took the last one away.   *)
WaitingIsAnswerable ==
  \A t \in Task : status[t] = "waiting_approval" =>
                    \/ \E a \in resolver : owner[a] = t
                    \/ cancels[t] > 0

(* A run is started at most once, by its driver or by its worker, whatever *)
(* approvals, cancellations, lost workers and restarts come between.       *)
StartedOnce == \A t \in Task : started[t] <= 1

(* A run whose preflight is undecided, or whose decision its driver has    *)
(* not taken up yet, has not started, has no other approval, and is still  *)
(* to be driven when the answer was yes: neither a report, a timer nor a   *)
(* cancellation came in between.                                           *)
Gated(t) ==
  LET a == gate[t]
  IN  /\ {b \in Approval : owner[b] = t} = {a}
      /\ started[t] = 0 /\ exec[t] = "off" /\ t \notin clock
      /\ status[t] \notin {"none", "queued"}
      /\ answer[a] \in {"open", "yes", "no"}
      /\ answer[a] = "open" => status[t] = "waiting_approval" /\ cancels[t] = 0
      /\ answer[a] = "yes" => status[t] = "running" /\ cancels[t] = 0

(* A run that is not dispatched yet has nothing going on. *)
Undispatched(t) ==
  /\ \A b \in Approval : owner[b] # t
  /\ started[t] = 0 /\ exec[t] = "off" /\ t \notin clock /\ gate[t] = NoApproval
  /\ status[t] = "none" => cancels[t] = 0

DriverConsistent ==
  \A t \in Task : /\ gate[t] # NoApproval => Gated(t)
                  /\ status[t] \in {"none", "queued"} => Undispatched(t)

(* A run starts only when every approval ever asked for it was granted: no *)
(* refused, expired, cancelled or forgotten preflight lets a run through.  *)
StartNeedsConsent ==
  [][\A t \in Task : started'[t] # started[t] =>
        \A a \in Approval : owner[a] = t => row[a] = "approved"]_vars

(* What may change a terminal status: a cancellation that was under way    *)
(* when the run ended, or a person who decides an approval that the run    *)
(* left behind.  Late reports, timers, continuations, claims and restarts  *)
(* never do.                                                               *)
LeavesTerminal(t) ==
  \/ status'[t] = "cancelled" /\ cancels'[t] < cancels[t]
  \/ status'[t] = "running" /\ \E a \in PendingOf(t) : row'[a] \in {"approved", "rejected"}

TerminalLeftOnlyByRace ==
  [][\A t \in Task : isTerminal(t) /\ status'[t] # status[t] => LeavesTerminal(t)]_vars

(* A run that this host executes comes to an end, whatever its executor    *)
(* does: the maximum duration sees to it.                                  *)
LocalRunEnds == \A t \in Task \ Remote : exec[t] = "on" ~> isTerminal(t)

(* A cancellation that was accepted ends the run.                          *)
CancelEndsRun == \A t \in Task : cancels[t] > 0 ~> isTerminal(t)

(* The approvals implement the desk: opened once, closed once, the asker   *)
(* told in the same step and what was recorded.                            *)
DeskRequest(a) ==
  CASE row[a] = "none" -> "unasked"
    [] row[a] = "pending" -> IF answer[a] = "lost" THEN "abandoned" ELSE "open"
    [] OTHER -> row[a]

DeskTold(a) == IF answer[a] \in {"yes", "no"} THEN answer[a] ELSE "nothing"

Desk == INSTANCE ApprovalDesk WITH request <- [a \in Approval |-> DeskRequest(a)],
                                   told <- [a \in Approval |-> DeskTold(a)]

DeskSafe == Desk!SafeSpec
DeskSpec == Desk!Spec

-----------------------------------------------------------------------------
(* Statements of the documentation that the code does not keep.            *)

(* docs/architecture.md: an approval that expires is rejected and its run  *)
(* is marked failed.  resolveApproval, which decides another approval of   *)
(* the same run, writes the status whatever it is.                         *)
ExpiredRunIsOver == \A a \in Approval : row[a] = "expired" => isTerminal(owner[a])

(* docs/security.md: approvals are rejected when their time is over.  The  *)
(* timers die with the process and a restarted host arms none.             *)
PendingIsDecided == \A a \in Approval : row[a] = "pending" ~> row[a] \in Decisions

(* docs/agent-workbench-acceptance.md: Approve continues the run.  A       *)
(* preflight approval moves the run from queued to waiting_approval to     *)
(* running, and a worker only claims what is queued.                       *)
ApprovedRunContinues ==
  \A t \in Task : gate[t] # NoApproval /\ answer[gate[t]] = "yes"
                     ~> started[t] > 0 \/ isTerminal(t)
=============================================================================
