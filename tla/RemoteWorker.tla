---------------------------- MODULE RemoteWorker ----------------------------
(***************************************************************************)
(* The worker of a remote device (apps/host/src/remote-worker.ts) and the  *)
(* routes it calls (apps/host/src/routes/remote-worker.ts), over HTTP      *)
(* connections that may fail at any point: before the host has the         *)
(* request, while the host works on it, or on the way back.  The worker    *)
(* only sees that a call failed; its request may still reach the host      *)
(* later.  The process of the worker may die and is started again.         *)
(*                                                                         *)
(* The host's side is that of TaskLifecycle.  exec is here what the worker *)
(* itself does: "reported" is a run whose final report it is posting.      *)
(***************************************************************************)
EXTENDS TaskLifecycle

CONSTANT Slot  \* names for claims: bounds the claims under way at once

(* No run has the name of the answer to a report. *)
ASSUME WorkerAssumption == "ok" \notin Remote

VARIABLES
  outbox,   \* calls of the worker that have not reached the host
  awaited,  \* calls whose caller still waits for the answer
  answers,  \* answers on their way to a caller that waits
  polled,   \* runs for which the answer "cancelled" to a poll is on its way
  begun,    \* how often the worker has begun each run
  touched   \* runs that a lost message, a dead worker or a late decision met

netVars == <<outbox, awaited, answers, polled>>
workerVars == <<netVars, begun, touched>>
allVars == <<vars, workerVars>>

Claims == [op : {"claim"}, slot : Slot]
Reports == [op : {"complete", "fail"}, run : Remote]
Asks == [op : {"ask"}, run : Remote, about : Approval]
Calls == Claims \cup Reports \cup Asks
Results == [call : Claims, says : Remote \cup {NoTask}] \cup [call : Reports, says : {"ok"}]

Claim(s) == [op |-> "claim", slot |-> s]
Report(op, t) == [op |-> op, run |-> t]
Ask(t, a) == [op |-> "ask", run |-> t, about |-> a]

WorkerInit == /\ Init
              /\ outbox = {} /\ awaited = {} /\ answers = {} /\ polled = {}
              /\ begun = [t \in Remote |-> 0]
              /\ touched = {}

-----------------------------------------------------------------------------
(* Calls.                                                                  *)

Send(c) == outbox' = outbox \cup {c} /\ awaited' = awaited \cup {c}

(* The host answers; nobody hears when the caller has given up. *)
Answer(c, says) ==
  /\ outbox' = outbox \ {c}
  /\ answers' = answers \cup IF c \in awaited THEN {[call |-> c, says |-> says]} ELSE {}

(* Mutant: an answer to a call that failed is kept. *)
ReturnKeepsAnswer(c) == awaited' = awaited \ {c} /\ UNCHANGED answers

(* The caller has its answer, or an error in place of one. *)
Return(c) == /\ awaited' = awaited \ {c}
             /\ answers' = {r \in answers : r.call # c}

(* The run that a claim was answered with, while the answer is on its way. *)
HandedOut(c) == {r.says : r \in {s \in answers : s.call = c}} \cap Remote

(* Runs the worker is bound to hear of, carries out or reports. *)
Underway == {t \in Remote : \/ exec[t] # "off"
                            \/ \E c \in awaited : t \in HandedOut(c)
                            \/ \E op \in {"complete", "fail"} : Report(op, t) \in outbox}

-----------------------------------------------------------------------------
(* The worker's loop.                                                      *)

(* The loop claims when it has nothing to do. *)
SendClaim(s) ==
  /\ WorkersIdle /\ awaited = {}
  /\ Claim(s) \notin outbox
  /\ Send(Claim(s))
  /\ UNCHANGED <<vars, answers, polled, begun, touched>>

(* The route of a claim.  A claim whose caller has given up takes a run    *)
(* away all the same.                                                      *)
HostTakesClaim(c) ==
  /\ Quiet
  /\ c \in outbox \cap Claims
  /\ \/ /\ QueuedRemote = {}
        /\ Answer(c, NoTask)
        /\ UNCHANGED <<vars, touched>>
     \/ \E t \in Remote : /\ HandOut(t)
                          /\ Answer(c, t)
                          /\ touched' = IF c \in awaited THEN touched ELSE touched \cup {t}
                          /\ UNCHANGED <<exec, restarts>>
  /\ UNCHANGED <<awaited, polled, begun>>

(* The loop has its answer: it carries the run out, or reports that it     *)
(* cannot (no such executor, a path outside its root).                     *)
ClaimReturns(r) ==
  /\ r.call.op = "claim"
  /\ answers' = answers \ {r}
  /\ IF r.says = NoTask
       THEN /\ awaited' = awaited \ {r.call}
            /\ UNCHANGED <<exec, outbox, begun>>
       ELSE /\ begun' = [begun EXCEPT ![r.says] = @ + 1]
            /\ \/ /\ exec' = [exec EXCEPT ![r.says] = "on"]
                  /\ awaited' = awaited \ {r.call}
                  /\ UNCHANGED <<outbox>>
               \/ /\ exec' = [exec EXCEPT ![r.says] = "reported"]
                  /\ outbox' = outbox \cup {Report("fail", r.says)}
                  /\ awaited' = (awaited \ {r.call}) \cup {Report("fail", r.says)}
  /\ UNCHANGED <<disk, resolver, timer, answer, gate, clock, cancels, restarts, polled, touched>>

-----------------------------------------------------------------------------
(* A run on the worker.                                                    *)

(* The agent asks for an approval; the answer only lets it go on. *)
AgentAsks(t, a) ==
  /\ exec[t] \in {"on", "stopping"}
  /\ row[a] = "none"
  /\ \A u \in Remote : Ask(u, a) \notin outbox
  /\ outbox' = outbox \cup {Ask(t, a)}
  /\ UNCHANGED <<vars, awaited, answers, polled, begun, touched>>

(* The route of an approval request, refused unseen when the run is over. *)
HostTakesAsk(t, a) ==
  /\ Quiet
  /\ Ask(t, a) \in outbox
  /\ outbox' = outbox \ {Ask(t, a)}
  /\ IF isTerminal(t)
       THEN UNCHANGED <<status, row, owner, resolver, timer, answer>>
       ELSE OpenApproval(t, a) \/ BlockApproval(t, a)
  /\ UNCHANGED <<before, started, gate, exec, clock, cancels, restarts,
                 awaited, answers, polled, begun, touched>>

(* The executor reports the end of the run: onComplete or onError. *)
RunEnds(t) ==
  /\ exec[t] \in {"on", "stopping"}
  /\ exec' = [exec EXCEPT ![t] = "reported"]
  /\ \E op \in {"complete", "fail"} : Send(Report(op, t))
  /\ UNCHANGED <<disk, resolver, timer, answer, gate, clock, cancels, restarts,
                 answers, polled, begun, touched>>

(* Mutant: a report of a run that is over is written all the same. *)
HostTakesAnyReport(c) ==
  /\ Quiet
  /\ c \in outbox \cap Reports
  /\ Answer(c, "ok")
  /\ status' = [status EXCEPT ![c.run] = IF c.op = "complete" THEN "completed" ELSE "failed"]
  /\ UNCHANGED <<before, row, owner, started, memory, restarts, awaited, polled, begun, touched>>

(* Mutant: only a run that is running takes its report. *)
HostTakesReportOfRunning(c) ==
  /\ Quiet
  /\ c \in outbox \cap Reports
  /\ Answer(c, "ok")
  /\ status' = [status EXCEPT ![c.run] = IF @ # "running" THEN @
                                          ELSE IF c.op = "fail" THEN "failed" ELSE "completed"]
  /\ UNCHANGED <<before, row, owner, started, memory, restarts, awaited, polled, begun, touched>>

(* completeRemoteTask, failRemoteTask. *)
HostTakesReport(c) ==
  /\ Quiet
  /\ c \in outbox \cap Reports
  /\ Answer(c, "ok")
  /\ status' = IF c.op = "fail" THEN markTaskFailed(c.run)
                 ELSE [status EXCEPT ![c.run] = IF isTerminal(c.run) THEN @ ELSE "completed"]
  /\ UNCHANGED <<before, row, owner, started, memory, restarts, awaited, polled, begun, touched>>

(* The final report is answered, startTask returns and the loop goes on. *)
ReportReturns(r) ==
  /\ r.call.op \in {"complete", "fail"}
  /\ Return(r.call)
  /\ exec' = [exec EXCEPT ![r.call.run] = "off"]
  /\ UNCHANGED <<disk, resolver, timer, answer, gate, clock, cancels, restarts,
                 outbox, polled, begun, touched>>

(* startTask returns without a report, once it was told to stop. *)
StopsUnreported(t) ==
  /\ exec[t] = "stopping"
  /\ exec' = [exec EXCEPT ![t] = "off"]
  /\ UNCHANGED <<disk, resolver, timer, answer, gate, clock, cancels, restarts,
                 netVars, begun, touched>>

(* The poll of the run's status: what the host answers ... *)
PollTaken(t) ==
  /\ exec[t] = "on"
  /\ status[t] = "cancelled"
  /\ t \notin polled
  /\ polled' = polled \cup {t}
  /\ UNCHANGED <<vars, outbox, awaited, answers, begun, touched>>

(* Mutant: the poll looks for a run that is over in another way. *)
PollMissesCancel(t) ==
  /\ t \in polled
  /\ polled' = polled \ {t}
  /\ exec' = [exec EXCEPT ![t] = IF @ = "on" /\ status[t] = "failed" THEN "stopping" ELSE @]
  /\ UNCHANGED <<disk, resolver, timer, answer, gate, clock, cancels, restarts,
                 outbox, awaited, answers, begun, touched>>

(* ... arrives, perhaps after the run: the executor is told to stop. *)
PollReturns(t) ==
  /\ t \in polled
  /\ polled' = polled \ {t}
  /\ exec' = [exec EXCEPT ![t] = IF @ = "on" THEN "stopping" ELSE @]
  /\ UNCHANGED <<disk, resolver, timer, answer, gate, clock, cancels, restarts,
                 outbox, awaited, answers, begun, touched>>

-----------------------------------------------------------------------------
(* Failures.                                                               *)

(* A request never reaches the host, or the answer to a poll is lost. *)
MessageLost ==
  /\ \/ /\ \E c \in outbox : outbox' = outbox \ {c}
        /\ UNCHANGED polled
     \/ /\ \E t \in polled : polled' = polled \ {t}
        /\ UNCHANGED outbox
  /\ UNCHANGED <<vars, awaited, answers, begun, touched>>

(* A claim fails: the loop goes on; a run it was answered with is lost. *)
ClaimFails(c) ==
  /\ c \in awaited \cap Claims
  /\ Return(c)
  /\ touched' = touched \cup HandedOut(c)
  /\ UNCHANGED <<vars, outbox, polled, begun>>

(* A final report fails.  An executor that catches the exception of        *)
(* onComplete reports the failure; else startTask returns, or throws, and  *)
(* runTask, which counts the run as reported, goes on.                     *)
ReportFails(c) ==
  /\ c \in awaited \cap Reports
  /\ \/ /\ c.op = "complete"
        /\ awaited' = (awaited \ {c}) \cup {Report("fail", c.run)}
        /\ outbox' = outbox \cup {Report("fail", c.run)}
        /\ UNCHANGED exec
     \/ /\ awaited' = awaited \ {c}
        /\ exec' = [exec EXCEPT ![c.run] = "off"]
        /\ UNCHANGED outbox
  /\ answers' = {r \in answers : r.call # c}
  /\ touched' = touched \cup {c.run}
  /\ UNCHANGED <<disk, resolver, timer, answer, gate, clock, cancels, restarts,
                 polled, begun>>

(* The worker dies, also of the exception of a call that nobody catches,   *)
(* and starts again.  What it sent may still reach the host.               *)
WorkerDies ==
  /\ awaited # {} \/ ~WorkersIdle
  /\ awaited' = {} /\ answers' = {} /\ polled' = {}
  /\ exec' = [t \in Task |-> IF t \in Remote THEN "off" ELSE exec[t]]
  /\ touched' = touched \cup {t \in Remote : exec[t] # "off"}
                        \cup UNION {HandedOut(c) : c \in awaited}
  /\ UNCHANGED <<disk, resolver, timer, answer, gate, clock, cancels, restarts,
                 outbox, begun>>

-----------------------------------------------------------------------------
(* The host beside the worker's calls.                                     *)

(* A decision for a run that is over sets it running again. *)
PersonDecides(a, approved) ==
  /\ resolveApproval(a, approved)
  /\ touched' = IF isTerminal(owner[a]) THEN touched \cup {owner[a]} ELSE touched
  /\ UNCHANGED <<netVars, begun>>

HostSteps == /\ \/ \E t \in Remote : \/ CreateRun(t)
                                     \/ \E a \in Approval : CreateRunWithPreflight(t, a)
                                     \/ PreflightGranted(t) \/ PreflightDenied(t)
                                     \/ CancelBegins(t) \/ CancelEnds(t)
                \/ \E a \in Approval : ApprovalTimeout(a)
                \/ Restart
             /\ UNCHANGED workerVars

WorkerNext ==
  \/ \E s \in Slot : SendClaim(s)
  \/ \E c \in Claims : HostTakesClaim(c) \/ ClaimFails(c)
  \/ \E r \in answers : ClaimReturns(r) \/ ReportReturns(r)
  \/ \E c \in Reports : HostTakesReport(c) \/ ReportFails(c)
  \/ \E t \in Remote : \/ \E a \in Approval : AgentAsks(t, a) \/ HostTakesAsk(t, a)
                       \/ RunEnds(t) \/ StopsUnreported(t)
                       \/ PollTaken(t) \/ PollReturns(t)
  \/ MessageLost
  \/ WorkerDies
  \/ \E a \in Approval, approved \in BOOLEAN : PersonDecides(a, approved)
  \/ HostSteps

(* The worker polls, and not every answer to a poll is lost. *)
WorkerFairness == \A t \in Remote : WF_allVars(PollTaken(t)) /\ SF_allVars(PollReturns(t))

WorkerSpec == WorkerInit /\ [][WorkerNext]_allVars
FairWorkerSpec == WorkerSpec /\ WorkerFairness
-----------------------------------------------------------------------------
(* Properties.                                                             *)

(* Every variable has its type, those of TaskLifecycle included.           *)
WorkerTypeOK == /\ TypeOK
                /\ outbox \subseteq Calls
                /\ awaited \subseteq Claims \cup Reports
                /\ answers \subseteq Results
                /\ \A r \in answers : r.call \in awaited
                /\ polled \subseteq Remote
                /\ begun \in [Remote -> Nat]
                /\ touched \subseteq Remote

(* The worker begins a run at most once, and only one the host gave it,    *)
(* whatever claims, answers and processes are lost.                        *)
BegunOnce == \A t \in Remote : begun[t] <= started[t] /\ started[t] <= 1

(* The worker has one run at a time, and none while it claims: an answer   *)
(* to a claim it has given up never starts a second one.                   *)
OneAtATime == /\ \A t, u \in Remote : exec[t] # "off" /\ exec[u] # "off" => t = u
              /\ awaited \cap Claims # {} => WorkersIdle

(* A run that was started and that nobody carries out or reports any more  *)
(* is over.  Only a lost message, a dead worker or a decision that came    *)
(* after the end leaves one in progress for ever: the host has no time     *)
(* limit for remote runs.                                                  *)
AbandonedOnlyByFault ==
  \A t \in Remote : started[t] > 0 /\ t \notin Underway /\ t \notin touched => isTerminal(t)

(* docs/api.md: the poll lets a worker observe a cancellation while the    *)
(* agent runs.  A run that stays cancelled is told to stop, or ends.       *)
CancelReachesWorker ==
  \A t \in Remote : exec[t] = "on" /\ status[t] = "cancelled"
                       ~> exec[t] # "on" \/ status[t] # "cancelled"
=============================================================================
