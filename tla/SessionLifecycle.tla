-------------------------- MODULE SessionLifecycle --------------------------
(***************************************************************************)
(* One session of the workbench on this host: SessionService               *)
(* (apps/host/src/services/session-service.ts) composed with the runs it   *)
(* starts (TaskLifecycle).  While a run has a driver the session listens   *)
(* to its task events; the listener is called inside the handler of        *)
(* TaskService that records the event.                                     *)
(*                                                                         *)
(* The listener throws when the event asks for a transition of the session *)
(* that is not allowed (Legal).  The handler is then left where it stands: *)
(* in an HTTP request the caller gets an error, in a callback the executor *)
(* gets a rejected promise, and in a timer or in the driver of a run the   *)
(* exception has no handler and ends the process.                          *)
(***************************************************************************)
EXTENDS TaskLifecycle

CONSTANT MaxUpsets  \* bound: uses of resume and restarts of the host, together

(* The session's device is the host. *)
ASSUME SessionAssumption == MaxUpsets \in Nat /\ Remote = {}

VARIABLES
  session,    \* sessions.status
  active,     \* sessions.activeTaskId
  lastTask,   \* the run named by the latest message of the session
  listening,  \* runs whose events the session is subscribed to
  stops,      \* runs whose cancellation in flight was asked by interrupt
  resumes,    \* uses of resume so far
  down        \* the process died of an exception nobody caught

sessionVars == <<session, active, lastTask, listening, stops, resumes, down>>
allVars == <<vars, sessionVars>>

SessionStatuses == {"idle", "running", "waiting_approval", "failed", "interrupted", "archived"}

SessionInit == /\ Init
               /\ session = "idle"
               /\ active = NoTask
               /\ lastTask = NoTask
               /\ listening = {}
               /\ stops = {}
               /\ resumes = 0
               /\ down = FALSE

-----------------------------------------------------------------------------
(* What the listener does.                                                 *)

(* assertValidSessionTransition, for the two statuses it is called with. *)
Legal(to) == \/ session = to
             \/ session = "idle"
             \/ {session, to} = {"running", "waiting_approval"}

(* The listener of t, if any, will accept a transition to this status. *)
Accepts(t, to) == t \in listening => Legal(to)

(* An event of t is heard: the status and the run it sets, and whether it  *)
(* adds a message that names t.                                            *)
Hear(t, to, run) == IF t \in listening
                      THEN session' = to /\ active' = run
                      ELSE UNCHANGED <<session, active>>

Note(t) == lastTask' = IF t \in listening THEN t ELSE lastTask

(* markTaskFailed reports task.failed unless the run was over already. *)
HearFailure(t) == IF isTerminal(t) THEN UNCHANGED <<session, active, lastTask>>
                                   ELSE Hear(t, "failed", NoTask) /\ Note(t)

-----------------------------------------------------------------------------
(* Messages.                                                               *)

latestTask == IF active # NoTask THEN active ELSE lastTask

(* Mutant: only a running session refuses a message. *)
RunnableWhileWaiting == /\ session \in {"idle", "waiting_approval"}
                        /\ latestTask # NoTask => status[latestTask] \notin {"failed", "cancelled"}

(* ensureRunnable *)
Runnable == /\ session = "idle"
            /\ latestTask # NoTask => status[latestTask] \notin {"failed", "cancelled"}

(* postMessage when the permission decision is "allow": the run starts in  *)
(* the same turn, or fails because its executor is not registered.         *)
postMessage(t) ==
  /\ ~down /\ Runnable
  /\ CreateRun(t)
  /\ lastTask' = t
  /\ IF exec'[t] = "on"
       THEN session' = "running" /\ active' = t /\ listening' = listening \cup {t}
       ELSE session' = "failed" /\ active' = NoTask /\ UNCHANGED listening
  /\ UNCHANGED <<stops, resumes, down>>

(* postMessage when the permission decision is "ask". *)
postMessageAsk(t, a) ==
  /\ ~down /\ Runnable
  /\ CreateRunWithPreflight(t, a)
  /\ session' = "waiting_approval" /\ active' = t /\ lastTask' = t
  /\ listening' = listening \cup {t}
  /\ UNCHANGED <<stops, resumes, down>>

(* The driver goes on, and the session hears task.started. *)
DriverGoesOn(t) ==
  /\ ~down
  /\ PreflightGranted(t)
  /\ IF exec'[t] = "on"
       THEN /\ Accepts(t, "running")
            /\ Hear(t, "running", t) /\ UNCHANGED <<lastTask, listening>>
       ELSE HearFailure(t) /\ listening' = listening \ {t}
  /\ UNCHANGED <<stops, resumes, down>>

(* The approval set the session running, but another cancellation came to  *)
(* its end before the driver went on: task.started is refused, and the run *)
(* is left running with nobody to carry it out.                            *)
DriverAborted(t) ==
  /\ ~down
  /\ gate[t] # NoApproval /\ answer[gate[t]] = "yes"
  /\ ~Accepts(t, "running")
  /\ gate' = [gate EXCEPT ![t] = NoApproval]
  /\ status' = [status EXCEPT ![t] = "running"]
  /\ started' = [started EXCEPT ![t] = @ + 1]
  /\ listening' = listening \ {t}
  /\ down' = TRUE
  /\ UNCHANGED <<before, row, owner, resolver, timer, answer, exec, clock, cancels, restarts,
                 session, active, lastTask, stops, resumes>>

DriverGivesUp(t) ==
  /\ ~down
  /\ PreflightDenied(t)
  /\ HearFailure(t)
  /\ listening' = listening \ {t}
  /\ UNCHANGED <<stops, resumes, down>>

-----------------------------------------------------------------------------
(* Events of a run in progress.                                            *)

(* task.progress sets the session running whatever it was. *)
Progress(t) ==
  /\ ~down
  /\ exec[t] \in {"on", "stopping"} /\ ~isTerminal(t)
  /\ Hear(t, "running", t) /\ Note(t)
  /\ UNCHANGED <<vars, listening, stops, resumes, down>>

AskApproval(t, a) ==
  /\ ~down
  /\ Accepts(t, "waiting_approval")
  /\ onApprovalRequest(t, a)
  /\ Hear(t, IF a \in resolver' THEN "waiting_approval" ELSE "running", t) /\ Note(t)
  /\ UNCHANGED <<listening, stops, resumes, down>>

(* The event of the request is refused: its row and the status of the run  *)
(* are written, and nobody will ever decide it.                            *)
AskAborted(t, a) ==
  /\ ~down
  /\ ~Accepts(t, "waiting_approval")
  /\ exec[t] \in {"on", "stopping"} /\ ~isTerminal(t) /\ row[a] = "none"
  /\ owner' = [owner EXCEPT ![a] = t]
  /\ answer' = [answer EXCEPT ![a] = "lost"]
  /\ \/ row' = [row EXCEPT ![a] = "pending"] /\ status' = [status EXCEPT ![t] = "waiting_approval"]
     \/ row' = [row EXCEPT ![a] = "rejected"] /\ UNCHANGED status
  /\ lastTask' = t
  /\ UNCHANGED <<before, started, resolver, timer, gate, exec, clock, cancels, restarts,
                 session, active, listening, stops, resumes, down>>

RunCompletes(t) ==
  /\ ~down
  /\ onComplete(t)
  /\ IF isTerminal(t) THEN UNCHANGED <<session, active>> ELSE Hear(t, "idle", NoTask)
  /\ UNCHANGED <<lastTask, listening, stops, resumes, down>>

RunErrs(t) ==
  /\ ~down
  /\ onError(t)
  /\ HearFailure(t)
  /\ UNCHANGED <<listening, stops, resumes, down>>

(* dispatchTask returns: the driver is done and unsubscribes the session. *)
RunReturns(t) ==
  /\ ~down
  /\ StartTaskReturns(t)
  /\ listening' = listening \ {t}
  /\ UNCHANGED <<session, active, lastTask, stops, resumes, down>>

(* Mutant: the session unsubscribes when it hears of the failure. *)
TimesOutAndUnsubscribes(t) ==
  /\ ~down
  /\ TaskTimeout(t)
  /\ HearFailure(t)
  /\ listening' = listening \ {t}
  /\ UNCHANGED <<stops, resumes, down>>

RunTimesOut(t) ==
  /\ ~down
  /\ TaskTimeout(t)
  /\ HearFailure(t)
  /\ UNCHANGED <<listening, stops, resumes, down>>

-----------------------------------------------------------------------------
(* Approvals.                                                              *)

(* TaskService.resolveApproval, as the routes approvals and telegram call  *)
(* it.  SessionService.resolveApproval only adds guards before the call.   *)
DecideApproval(a, approved) ==
  /\ ~down
  /\ Accepts(owner[a], "running")
  /\ resolveApproval(a, approved)
  /\ Hear(owner[a], "running", owner[a]) /\ Note(owner[a])
  /\ UNCHANGED <<listening, stops, resumes, down>>

(* The listener refuses: all is written, and the asker is not told. *)
Unheard(a, decision) == /\ row' = Decide(a, decision)
                        /\ resolver' = resolver \ {a}
                        /\ timer' = timer \ {a}
                        /\ lastTask' = owner[a]

DecideAborted(a, approved) ==
  /\ ~down /\ Quiet
  /\ a \in resolver
  /\ ~Accepts(owner[a], "running")
  /\ Unheard(a, IF approved THEN "approved" ELSE "rejected")
  /\ status' = [status EXCEPT ![owner[a]] = "running"]
  /\ UNCHANGED <<before, owner, started, answer, gate, exec, clock, cancels, restarts,
                 session, active, listening, stops, resumes, down>>

(* Mutant: the session does not hear of the expiry. *)
ExpiresUnheard(a) ==
  /\ ~down
  /\ Accepts(owner[a], "running")
  /\ ApprovalTimeout(a)
  /\ UNCHANGED <<session, active, lastTask, listening, stops, resumes, down>>

ApprovalExpires(a) ==
  /\ ~down
  /\ Accepts(owner[a], "running")
  /\ ApprovalTimeout(a)
  /\ IF isTerminal(owner[a]) THEN Hear(owner[a], "running", owner[a])
                             ELSE Hear(owner[a], "failed", NoTask)
  /\ Note(owner[a])
  /\ UNCHANGED <<listening, stops, resumes, down>>

(* The same in the timer, where nothing catches it: the process ends. *)
ExpiryAborted(a) ==
  /\ ~down /\ Quiet
  /\ a \in timer
  /\ ~Accepts(owner[a], "running")
  /\ Unheard(a, "expired")
  /\ down' = TRUE
  /\ UNCHANGED <<status, before, owner, started, answer, gate, exec, clock, cancels, restarts,
                 session, active, listening, stops, resumes>>

-----------------------------------------------------------------------------
(* The session's own commands.                                             *)

(* interrupt with no run to stop: none is active, or cancelTask finds the  *)
(* active one already over.                                                *)
InterruptNothing ==
  /\ ~down /\ Quiet
  /\ active # NoTask => isTerminal(active)
  /\ session' = "interrupted" /\ active' = NoTask
  /\ UNCHANGED <<vars, lastTask, listening, stops, resumes, down>>

(* cancelTask up to its await, for interrupt (byInterrupt) or for the      *)
(* route of the run.  An approval it rejects is heard at once.             *)
BeginCancel(t, byInterrupt) ==
  /\ ~down
  /\ byInterrupt => active = t /\ t \notin stops
  /\ CancelBegins(t)
  /\ IF row' = row
       THEN UNCHANGED <<session, active, lastTask>>
       ELSE Accepts(t, "running") /\ Hear(t, "running", t) /\ Note(t)
  /\ stops' = IF byInterrupt THEN stops \cup {t} ELSE stops
  /\ UNCHANGED <<listening, resumes, down>>

(* The listener refuses the rejection: the executor is not told to stop.   *)
CancelAborted(t) ==
  /\ ~down /\ Quiet
  /\ ~isTerminal(t) /\ ~Accepts(t, "running")
  /\ \E a \in PendingOf(t) \cap resolver : Unheard(a, "rejected")
  /\ UNCHANGED <<status, before, owner, started, answer, gate, exec, clock, cancels, restarts,
                 session, active, listening, stops, resumes, down>>

(* Mutant: interrupt is left waiting. *)
EndCancelOnly(t) ==
  /\ ~down
  /\ CancelEnds(t)
  /\ Note(t)
  /\ Hear(t, "interrupted", NoTask)
  /\ UNCHANGED <<listening, stops, resumes, down>>

(* cancelTask after its await: task.cancelled, then the rest of interrupt, *)
(* which writes the session whatever has become of it.                     *)
EndCancel(t) ==
  /\ ~down
  /\ CancelEnds(t)
  /\ Note(t)
  /\ \/ /\ t \in stops
        /\ stops' = stops \ {t}
        /\ session' = "interrupted" /\ active' = NoTask
     \/ /\ t \notin stops \/ cancels[t] > 1
        /\ Hear(t, "interrupted", NoTask)
        /\ UNCHANGED stops
  /\ UNCHANGED <<listening, resumes, down>>

archive ==
  /\ ~down /\ Quiet
  /\ session' = "archived"
  /\ UNCHANGED <<vars, active, lastTask, listening, stops, resumes, down>>

resume ==
  /\ ~down /\ Quiet
  /\ resumes + restarts < MaxUpsets
  /\ resumes' = resumes + 1
  /\ session' = IF session = "archived" THEN "archived" ELSE "idle"
  /\ active' = NoTask
  /\ UNCHANGED <<vars, lastTask, listening, stops, down>>

(* recoverStuckTasks: after the runs, the sessions in progress are failed. *)
HostRestart ==
  /\ resumes + restarts < MaxUpsets
  /\ Restart
  /\ listening' = {} /\ stops' = {} /\ down' = FALSE
  /\ IF session \in {"running", "waiting_approval"}
       THEN /\ session' = "failed" /\ active' = NoTask
            /\ lastTask' = IF active = NoTask THEN lastTask ELSE active
       ELSE UNCHANGED <<session, active, lastTask>>
  /\ UNCHANGED resumes

-----------------------------------------------------------------------------
SessionNext ==
  \/ \E t \in Task :
       \/ postMessage(t)
       \/ \E a \in Approval : postMessageAsk(t, a) \/ AskApproval(t, a) \/ AskAborted(t, a)
       \/ DriverGoesOn(t) \/ DriverAborted(t) \/ DriverGivesUp(t) \/ Progress(t)
       \/ RunCompletes(t) \/ RunErrs(t) \/ RunReturns(t) \/ RunTimesOut(t)
       \/ \E byInterrupt \in BOOLEAN : BeginCancel(t, byInterrupt)
       \/ CancelAborted(t) \/ EndCancel(t)
  \/ \E a \in Approval :
       \/ \E approved \in BOOLEAN : DecideApproval(a, approved) \/ DecideAborted(a, approved)
       \/ ApprovalExpires(a) \/ ExpiryAborted(a)
  \/ InterruptNothing \/ archive \/ resume \/ HostRestart

SessionSpec == SessionInit /\ [][SessionNext]_allVars
-----------------------------------------------------------------------------
(* Properties.                                                             *)

(* The runs and the session have their types; the session listens to runs  *)
(* that exist, and interrupt waits for cancellations that are in flight.   *)
SessionTypeOK == /\ TypeOK
                 /\ session \in SessionStatuses
                 /\ active \in Task \cup {NoTask}
                 /\ lastTask \in Task \cup {NoTask}
                 /\ listening \subseteq {t \in Task : status[t] # "none"}
                 /\ stops \subseteq {t \in Task : cancels[t] > 0}
                 /\ resumes \in 0..MaxUpsets
                 /\ down \in BOOLEAN

InProgress(t) == gate[t] # NoApproval \/ exec[t] \in {"on", "stopping"}

(* Until a run has reported its end the session hears its events, whatever *)
(* was cancelled, refused, archived or resumed meanwhile: no run works on  *)
(* behind the back of its session.                                         *)
HeardWhileInProgress == \A t \in Task : InProgress(t) => t \in listening

(* A session drives one run at a time: a message is accepted only when the *)
(* run before it has reported its end.  (resume makes a session idle       *)
(* whatever is in progress; the statement is about sessions without it.)   *)
OneRunAtATime ==
  resumes = 0 => \A t, u \in Task : InProgress(t) /\ InProgress(u) => t = u

(* A session that shows that it waits for an approval has one that can     *)
(* still be decided, as long as it hears the run it shows.                 *)
WaitsForSomething ==
  session = "waiting_approval" /\ active \in listening =>
     \E a \in resolver : owner[a] = active

-----------------------------------------------------------------------------
(* Statements of the documentation and the tests that the code does not    *)
(* keep.                                                                   *)

(* docs/architecture.md: an approval that expires is rejected and its run  *)
(* is marked failed.  The listener of the session may throw in the timer,  *)
(* between the one and the other.                                          *)
ExpiryFailsRun ==
  [][\A a \in Approval : row[a] = "pending" /\ row'[a] = "expired"
                            => status'[owner[a]] \in Terminal]_allVars

(* tests/prd-acceptance.test.ts: an attempt to roll a terminal session     *)
(* back to running is a no-op, by the transition check.  A progress event  *)
(* does not go through that check.                                         *)
NoRollback ==
  [][(session \in {"failed", "interrupted", "archived"} => session' # "running")]_allVars
=============================================================================
