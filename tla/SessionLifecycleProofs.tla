----------------------- MODULE SessionLifecycleProofs -----------------------
(***************************************************************************)
(* What a session keeps true about its runs, for any number of messages,   *)
(* approvals, cancellations, resumes and restarts.                         *)
(*                                                                         *)
(* An action of the session is an action of TaskLifecycle and what the     *)
(* listener does in the same step, but for the steps in which the listener *)
(* throws; the latter are treated one by one.                              *)
(***************************************************************************)
EXTENDS SessionLifecycle, TaskLifecycleProofs

USE ConstantsAssumption, SessionAssumption

(* A run that does not exist has no driver. *)
Unborn == \A t \in Task : status[t] = "none" => exec[t] = "off" /\ gate[t] = NoApproval

(* A run is not carried out while its preflight is pending. *)
OneDriver == \A t \in Task : exec[t] # "off" => gate[t] = NoApproval

Asked == \A a \in resolver : row[a] # "none"

(* A session that takes a message has nothing in progress. *)
IdleIsFree == resumes = 0 /\ session = "idle" => \A t \in Task : ~InProgress(t)

Drivers == Unborn /\ OneDriver /\ Asked

SInv == /\ SessionTypeOK /\ Drivers
        /\ HeardWhileInProgress /\ IdleIsFree /\ OneRunAtATime /\ WaitsForSomething

-----------------------------------------------------------------------------
(* Steps of the runs.                                                      *)

(* The steps in which the listener throws. *)
Aborted == \/ \E t \in Task : \/ DriverAborted(t) \/ CancelAborted(t)
                             \/ \E a \in Approval : AskAborted(t, a)
           \/ \E a \in Approval : \/ ExpiryAborted(a)
                                  \/ \E approved \in BOOLEAN : DecideAborted(a, approved)

(* The others are steps of TaskLifecycle. *)
LEMMA SessionStepIsRunStep == SessionNext => [Next]_vars \/ Aborted
<1> SUFFICES ASSUME SessionNext PROVE [Next]_vars \/ Aborted
  OBVIOUS
<1>1. ASSUME NEW t \in Task, CreateRun(t) PROVE Next
  BY <1>1 DEF Next
<1>2. ASSUME NEW t \in Task, NEW a \in Approval,
             CreateRunWithPreflight(t, a) \/ onApprovalRequest(t, a)
      PROVE  Next
  BY <1>2 DEF Next
<1>3. ASSUME NEW t \in Task,
             \/ PreflightGranted(t) \/ PreflightDenied(t) \/ onComplete(t) \/ onError(t)
             \/ StartTaskReturns(t) \/ CancelBegins(t) \/ CancelEnds(t) \/ TaskTimeout(t)
      PROVE  Next
  BY <1>3 DEF Next
<1>4. ASSUME NEW a \in Approval, NEW approved \in BOOLEAN, resolveApproval(a, approved) PROVE Next
  BY <1>4 DEF Next
<1>5. ASSUME NEW a \in Approval, ApprovalTimeout(a) PROVE Next
  BY <1>5 DEF Next
<1>6. Restart => Next
  BY DEF Next
<1>7. ASSUME NEW t \in Task, NEW a \in Approval, postMessageAsk(t, a) \/ AskApproval(t, a)
      PROVE  Next
  BY <1>2, <1>7 DEF postMessageAsk, AskApproval
<1>8. ASSUME NEW t \in Task,
             \/ postMessage(t) \/ DriverGoesOn(t) \/ DriverGivesUp(t) \/ RunCompletes(t)
             \/ RunErrs(t) \/ RunReturns(t) \/ RunTimesOut(t) \/ EndCancel(t)
      PROVE  Next
  BY <1>1, <1>3, <1>8 DEF postMessage, DriverGoesOn, DriverGivesUp, RunCompletes, RunErrs,
                          RunReturns, RunTimesOut, EndCancel
<1>9. ASSUME NEW t \in Task, NEW byInterrupt \in BOOLEAN, BeginCancel(t, byInterrupt) PROVE Next
  BY <1>3, <1>9 DEF BeginCancel
<1>10. ASSUME NEW t \in Task, Progress(t) PROVE UNCHANGED vars
  BY <1>10 DEF Progress
<1>11. ASSUME NEW a \in Approval, NEW approved \in BOOLEAN, DecideApproval(a, approved) PROVE Next
  BY <1>4, <1>11 DEF DecideApproval
<1>12. ASSUME NEW a \in Approval, ApprovalExpires(a) PROVE Next
  BY <1>5, <1>12 DEF ApprovalExpires
<1>13. InterruptNothing \/ archive \/ resume => UNCHANGED vars
  BY DEF InterruptNothing, archive, resume
<1>14. HostRestart => Next
  BY <1>6 DEF HostRestart
<1> QED
  BY <1>7, <1>8, <1>9, <1>10, <1>11, <1>12, <1>13, <1>14 DEF SessionNext, Aborted

(* Types of the runs, and runs that exist go on existing. *)
RunsKept == TypeOK' /\ \A t \in Task : status[t] # "none" => status'[t] # "none"

LEMMA AbortedKeepsRuns ==
  ASSUME TypeOK, Drivers, Aborted
  PROVE  RunsKept /\ Drivers'
<1>1. ASSUME NEW t \in Task, CancelAborted(t) PROVE RunsKept /\ Drivers'
  BY <1>1 DEF CancelAborted, Unheard, Decide, RunsKept, Drivers, Unborn, OneDriver, Asked, TypeOK,
              Rows, Decisions, PendingOf
<1>2. ASSUME NEW t \in Task, NEW a \in Approval, AskAborted(t, a) PROVE RunsKept /\ Drivers'
  BY <1>2 DEF AskAborted, RunsKept, Drivers, Unborn, OneDriver, Asked, TypeOK, Rows, Decisions,
              Answers, Statuses
<1>3. ASSUME NEW a \in Approval, ExpiryAborted(a) PROVE RunsKept /\ Drivers'
  BY <1>3 DEF ExpiryAborted, Unheard, Decide, RunsKept, Drivers, Unborn, OneDriver, Asked, TypeOK,
              Rows, Decisions
<1>4. ASSUME NEW a \in Approval, NEW approved \in BOOLEAN, DecideAborted(a, approved)
      PROVE  RunsKept /\ Drivers'
  BY <1>4 DEF DecideAborted, Unheard, Decide, RunsKept, Drivers, Unborn, OneDriver, Asked, TypeOK,
              Rows, Decisions, Statuses
<1>5. ASSUME NEW t \in Task, DriverAborted(t) PROVE RunsKept /\ Drivers'
  BY <1>5 DEF DriverAborted, RunsKept, Drivers, Unborn, OneDriver, Asked, TypeOK, Statuses
<1> QED
  BY <1>1, <1>2, <1>3, <1>4, <1>5 DEF Aborted

LEMMA RunStepKeepsRuns ==
  ASSUME TypeOK, Drivers, [Next]_vars
  PROVE  RunsKept /\ Drivers'
<1>0. TypeOK'
  BY TypeStep
<1> DEFINE Goal == /\ \A t \in Task : status[t] # "none" => status'[t] # "none"
                   /\ Drivers'
<1> SUFFICES Goal
  BY <1>0 DEF RunsKept
<1> USE DEF Drivers, Unborn, OneDriver, Asked, TypeOK
<1>1. ASSUME NEW t \in Task, CreateRun(t) PROVE Goal
  BY <1>1 DEF CreateRun, executeTask, markTaskFailed
<1>2. ASSUME NEW t \in Task, NEW a \in Approval, CreateRunWithPreflight(t, a) PROVE Goal
  BY <1>2 DEF CreateRunWithPreflight, OpenApproval
<1>3. ASSUME NEW t \in Task, NEW a \in Approval, onApprovalRequest(t, a) PROVE Goal
  BY <1>3 DEF onApprovalRequest, OpenApproval, BlockApproval
<1>4. ASSUME NEW t \in Task, PreflightGranted(t) \/ PreflightDenied(t) PROVE Goal
  BY <1>4 DEF PreflightGranted, PreflightDenied, executeTask, markTaskFailed
<1>5. ASSUME NEW t \in Task, onComplete(t) \/ onError(t) PROVE Goal
  BY <1>5 DEF onComplete, onError, markTaskFailed
<1>6. ASSUME NEW t \in Task, StartTaskReturns(t) PROVE Goal
  BY <1>6 DEF StartTaskReturns, disk
<1>7. ASSUME NEW t \in Task, claimRemoteTask(t) \/ WorkerSeesCancel(t) \/ WorkerLost(t) PROVE Goal
  BY <1>7 DEF claimRemoteTask, HandOut, QueuedRemote, WorkerSeesCancel, WorkerLost
<1>8. ASSUME NEW t \in Task, CancelBegins(t) PROVE Goal
  BY <1>8 DEF CancelBegins, Settle, Decide, Tell, Interrupt, PendingOf
<1>9. ASSUME NEW t \in Task, CancelEnds(t) PROVE Goal
  BY <1>9 DEF CancelEnds
<1>10. ASSUME NEW t \in Task, TaskTimeout(t) PROVE Goal
  BY <1>10 DEF TaskTimeout, Interrupt, markTaskFailed
<1>11. ASSUME NEW a \in Approval, NEW approved \in BOOLEAN, resolveApproval(a, approved) PROVE Goal
  BY <1>11 DEF resolveApproval, Settle, Decide, Tell
<1>12. ASSUME NEW a \in Approval, ApprovalTimeout(a) PROVE Goal
  BY <1>12 DEF ApprovalTimeout, Settle, Decide, Tell, Interrupt, markTaskFailed
<1>13. CASE Restart
  BY <1>13 DEF Restart
<1>14. CASE UNCHANGED vars
  BY <1>14 DEF vars, disk, memory
<1> QED
  BY <1>0, <1>1, <1>2, <1>3, <1>4, <1>5, <1>6, <1>7, <1>8, <1>9, <1>10, <1>11, <1>12, <1>13,
     <1>14 DEF Next

-----------------------------------------------------------------------------
(* Steps of the session.                                                   *)

SessionTypes == /\ session \in SessionStatuses
                /\ active \in Task \cup {NoTask}
                /\ lastTask \in Task \cup {NoTask}
                /\ listening \subseteq {t \in Task : status[t] # "none"}
                /\ stops \subseteq {t \in Task : cancels[t] > 0}
                /\ resumes \in 0..MaxUpsets
                /\ down \in BOOLEAN

Hearing == HeardWhileInProgress /\ IdleIsFree /\ OneRunAtATime /\ WaitsForSomething

LEMMA InitSInv == SessionInit => SInv
<1> SUFFICES ASSUME SessionInit PROVE SInv
  OBVIOUS
<1>1. SessionTypeOK
  <2>1. TypeOK
    BY TypeInit DEF SessionInit
  <2>2. resumes \in 0..MaxUpsets
    BY DEF SessionInit
  <2> QED
    BY <2>1, <2>2 DEF SessionInit, SessionTypeOK, SessionStatuses
<1>2. \A t \in Task : exec[t] = "off" /\ gate[t] = NoApproval
  BY DEF SessionInit, Init
<1>3. resolver = {} /\ session = "idle"
  BY DEF SessionInit, Init
<1>4. \A t \in Task : ~InProgress(t)
  BY <1>2 DEF InProgress
<1> QED
  BY <1>1, <1>2, <1>3, <1>4 DEF SInv, Drivers, Unborn, OneDriver, Asked, HeardWhileInProgress,
                               IdleIsFree, OneRunAtATime, WaitsForSomething

LEMMA SessionStep ==
  ASSUME SInv, SessionNext, RunsKept
  PROVE  SessionTypes' /\ Hearing'
<1> DEFINE Goal == SessionTypes' /\ Hearing'
<1>0. /\ TypeOK /\ TypeOK' /\ SessionTypes
      /\ Drivers /\ Hearing
      /\ \A t \in Task : status[t] # "none" => status'[t] # "none"
  BY DEF SInv, SessionTypeOK, SessionTypes, Hearing, RunsKept
<1> USE DEF SessionTypes, SessionStatuses, Hearing, HeardWhileInProgress, IdleIsFree, OneRunAtATime,
            WaitsForSomething, InProgress, Drivers, Unborn, OneDriver, Asked, TypeOK, Phases
<1>1. ASSUME NEW t \in Task, postMessage(t) PROVE Goal
  BY <1>0, <1>1 DEF postMessage, CreateRun, executeTask, Runnable
<1>2. ASSUME NEW t \in Task, NEW a \in Approval, postMessageAsk(t, a) PROVE Goal
  BY <1>0, <1>2 DEF postMessageAsk, CreateRunWithPreflight, OpenApproval, Runnable
<1>3. ASSUME NEW t \in Task, DriverGoesOn(t) \/ DriverAborted(t) PROVE Goal
  <2>1. CASE DriverGoesOn(t)
    BY <1>0, <2>1 DEF DriverGoesOn, PreflightGranted, executeTask, Hear, HearFailure, Note
  <2>2. CASE DriverAborted(t)
    BY <1>0, <2>2 DEF DriverAborted
  <2> QED
    BY <1>3, <2>1, <2>2
<1>4. ASSUME NEW t \in Task, DriverGivesUp(t) PROVE Goal
  BY <1>0, <1>4 DEF DriverGivesUp, PreflightDenied, HearFailure, Hear, Note
<1>5. ASSUME NEW t \in Task, Progress(t) PROVE Goal
  BY <1>0, <1>5 DEF Progress, Hear, Note, vars, disk, memory
<1>6. ASSUME NEW t \in Task, NEW a \in Approval, AskApproval(t, a) PROVE Goal
  BY <1>0, <1>6 DEF AskApproval, onApprovalRequest, OpenApproval, BlockApproval, Hear, Note
<1>7. ASSUME NEW t \in Task, NEW a \in Approval, AskAborted(t, a) PROVE Goal
  BY <1>0, <1>7 DEF AskAborted, Accepts, Legal
<1>8. ASSUME NEW t \in Task, RunCompletes(t) PROVE Goal
  BY <1>0, <1>8 DEF RunCompletes, onComplete, Hear
<1>9. ASSUME NEW t \in Task, RunErrs(t) PROVE Goal
  BY <1>0, <1>9 DEF RunErrs, onError, HearFailure, Hear, Note
<1>10. ASSUME NEW t \in Task, RunReturns(t) PROVE Goal
  BY <1>0, <1>10 DEF RunReturns, StartTaskReturns, disk
<1>11. ASSUME NEW t \in Task, RunTimesOut(t) PROVE Goal
  BY <1>0, <1>11 DEF RunTimesOut, TaskTimeout, Interrupt, HearFailure, Hear, Note
<1>12. ASSUME NEW a \in Approval, NEW approved \in BOOLEAN, DecideApproval(a, approved)
       PROVE  Goal
  BY <1>0, <1>12 DEF DecideApproval, resolveApproval, Settle, Hear, Note
<1>13. ASSUME NEW a \in Approval, NEW approved \in BOOLEAN, DecideAborted(a, approved) PROVE Goal
  BY <1>0, <1>13 DEF DecideAborted, Unheard, Accepts, Legal
<1>14. ASSUME NEW a \in Approval, ApprovalExpires(a) PROVE Goal
  BY <1>0, <1>14 DEF ApprovalExpires, ApprovalTimeout, Settle, Interrupt, Hear, Note
<1>15. ASSUME NEW a \in Approval, ExpiryAborted(a) PROVE Goal
  BY <1>0, <1>15 DEF ExpiryAborted, Unheard, Accepts, Legal
<1>16. ASSUME NEW t \in Task, NEW byInterrupt \in BOOLEAN, BeginCancel(t, byInterrupt) PROVE Goal
  BY <1>0, <1>16 DEF BeginCancel, CancelBegins, Settle, Decide, Interrupt, PendingOf, Hear, Note
<1>17. ASSUME NEW t \in Task, CancelAborted(t) PROVE Goal
  BY <1>0, <1>17 DEF CancelAborted, Unheard, Accepts, Legal, PendingOf
<1>18. ASSUME NEW t \in Task, EndCancel(t) PROVE Goal
  BY <1>0, <1>18 DEF EndCancel, CancelEnds, Hear, Note
<1>19. CASE InterruptNothing \/ archive \/ resume
  BY <1>0, <1>19 DEF InterruptNothing, archive, resume, vars, disk, memory
<1>20. CASE HostRestart
  <2>1. /\ \A t \in Task : exec'[t] = "off" /\ gate'[t] = NoApproval
        /\ listening' = {} /\ stops' = {} /\ down' = FALSE /\ resumes' = resumes
    BY <1>20 DEF HostRestart, Restart
  <2>2. /\ session' \in SessionStatuses /\ active' \in Task \cup {NoTask}
        /\ lastTask' \in Task \cup {NoTask}
    BY <1>0, <1>20 DEF HostRestart
  <2>3. SessionTypes'
    BY <1>0, <2>1, <2>2
  <2>4. Hearing'
    BY <2>1
  <2> QED
    BY <2>3, <2>4
<1> HIDE DEF SessionTypes, SessionStatuses, Hearing, HeardWhileInProgress, IdleIsFree,
             OneRunAtATime, WaitsForSomething, InProgress, Drivers, Unborn, OneDriver, Asked,
             TypeOK, Phases
<1>21. ASSUME NEW t \in Task,
              \/ postMessage(t)
              \/ \E a \in Approval : postMessageAsk(t, a) \/ AskApproval(t, a) \/ AskAborted(t, a)
              \/ DriverGoesOn(t) \/ DriverAborted(t) \/ DriverGivesUp(t) \/ Progress(t)
              \/ RunCompletes(t) \/ RunErrs(t) \/ RunReturns(t) \/ RunTimesOut(t)
              \/ \E byInterrupt \in BOOLEAN : BeginCancel(t, byInterrupt)
              \/ CancelAborted(t) \/ EndCancel(t)
       PROVE  Goal
  BY <1>1, <1>2, <1>3, <1>4, <1>5, <1>6, <1>7, <1>8, <1>9, <1>10, <1>11, <1>16, <1>17, <1>18,
     <1>21
<1>22. ASSUME NEW a \in Approval,
              \/ \E approved \in BOOLEAN : DecideApproval(a, approved) \/ DecideAborted(a, approved)
              \/ ApprovalExpires(a) \/ ExpiryAborted(a)
       PROVE  Goal
  BY <1>12, <1>13, <1>14, <1>15, <1>22
<1> QED
  BY <1>19, <1>20, <1>21, <1>22 DEF SessionNext

LEMMA SNextInv == SInv /\ [SessionNext]_allVars => SInv'
<1>1. ASSUME SInv, SessionNext PROVE SInv'
  <2>1. RunsKept /\ Drivers'
    BY <1>1, SessionStepIsRunStep, RunStepKeepsRuns, AbortedKeepsRuns DEF SInv, SessionTypeOK
  <2>2. SessionTypes' /\ Hearing'
    BY <1>1, <2>1, SessionStep
  <2> QED
    BY <2>1, <2>2 DEF SInv, SessionTypeOK, SessionTypes, Hearing, RunsKept
<1>2. ASSUME SInv, UNCHANGED allVars PROVE SInv'
  <2>1. RunsKept /\ Drivers'
    BY <1>2, RunStepKeepsRuns DEF SInv, SessionTypeOK, allVars
  <2>2. UNCHANGED <<vars, session, active, lastTask, listening, stops, resumes, down>>
    BY <1>2 DEF allVars, sessionVars
  <2>3. /\ SessionTypes /\ Hearing
        /\ UNCHANGED <<status, owner, resolver, gate, exec, cancels, session, active, lastTask,
                       listening, stops, resumes, down>>
    BY <1>2, <2>2 DEF SInv, SessionTypeOK, SessionTypes, Hearing, vars, disk, memory
  <2>4. SessionTypes' /\ Hearing'
    BY <2>3 DEF SessionTypes, Hearing, HeardWhileInProgress, IdleIsFree, OneRunAtATime,
                WaitsForSomething, InProgress
  <2> QED
    BY <2>1, <2>4 DEF SInv, SessionTypeOK, SessionTypes, Hearing, RunsKept
<1> QED
  BY <1>1, <1>2

-----------------------------------------------------------------------------
(* The invariant holds throughout. *)
THEOREM SessionInvariance == SessionSpec => []SInv
BY InitSInv, SNextInv, PTL DEF SessionSpec

(* Every variable of the session and of its runs keeps its type. *)
THEOREM SessionTypesHold == SessionSpec => []SessionTypeOK
<1>1. SInv => SessionTypeOK
  BY DEF SInv
<1> QED
  BY <1>1, SessionInvariance, PTL

(* A session hears every run of its own until the run has reported its end. *)
THEOREM SessionHears == SessionSpec => []HeardWhileInProgress
<1>1. SInv => HeardWhileInProgress
  BY DEF SInv
<1> QED
  BY <1>1, SessionInvariance, PTL

(* A session that was not resumed has one run in progress, of any number.   *)
THEOREM SessionRunsOne == SessionSpec => []OneRunAtATime
<1>1. SInv => OneRunAtATime
  BY DEF SInv
<1> QED
  BY <1>1, SessionInvariance, PTL

(* A session shows a wait for an approval only while there is one to decide. *)
THEOREM SessionWaits == SessionSpec => []WaitsForSomething
<1>1. SInv => WaitsForSomething
  BY DEF SInv
<1> QED
  BY <1>1, SessionInvariance, PTL

-----------------------------------------------------------------------------
(* Consent.  The listener may leave an asker of a decided approval untold, *)
(* so that record and promise no longer agree as they do without a         *)
(* session; what is left of it is enough.                                  *)

Preflights ==
  /\ \A a \in Approval : answer[a] = "yes" => row[a] = "approved"
  /\ \A t \in Task, a \in Approval :
       owner[a] = t => status[t] # "none" /\ (gate[t] # NoApproval => gate[t] = a)

CInv == SInv /\ Preflights

LEMMA RunStepKeepsPreflights ==
  ASSUME SInv, Preflights, [Next]_vars
  PROVE  Preflights' /\ ConsentStep
<1> DEFINE Goal == Preflights' /\ ConsentStep
<1>0. TypeOK /\ Drivers
  BY DEF SInv, SessionTypeOK
<1> USE DEF Preflights, ConsentStep, Drivers, Unborn, OneDriver, Asked, TypeOK
<1>1. ASSUME NEW t \in Task, CreateRun(t) PROVE Goal
  BY <1>0, <1>1 DEF CreateRun, executeTask, markTaskFailed
<1>2. ASSUME NEW t \in Task, NEW a \in Approval, CreateRunWithPreflight(t, a) PROVE Goal
  BY <1>0, <1>2 DEF CreateRunWithPreflight, OpenApproval
<1>3. ASSUME NEW t \in Task, NEW a \in Approval, onApprovalRequest(t, a) PROVE Goal
  BY <1>0, <1>3 DEF onApprovalRequest, OpenApproval, BlockApproval
<1>4. ASSUME NEW t \in Task, PreflightGranted(t) \/ PreflightDenied(t) PROVE Goal
  BY <1>0, <1>4 DEF PreflightGranted, PreflightDenied, executeTask, markTaskFailed
<1>5. ASSUME NEW t \in Task, onComplete(t) \/ onError(t) PROVE Goal
  BY <1>0, <1>5 DEF onComplete, onError, markTaskFailed
<1>6. ASSUME NEW t \in Task, StartTaskReturns(t) PROVE Goal
  BY <1>0, <1>6 DEF StartTaskReturns, disk
<1>7. ASSUME NEW t \in Task, claimRemoteTask(t) \/ WorkerSeesCancel(t) \/ WorkerLost(t) PROVE Goal
  BY <1>0, <1>7 DEF claimRemoteTask, HandOut, QueuedRemote, WorkerSeesCancel, WorkerLost
<1>8. ASSUME NEW t \in Task, CancelBegins(t) PROVE Goal
  BY <1>0, <1>8 DEF CancelBegins, Settle, Decide, Tell, Interrupt, PendingOf
<1>9. ASSUME NEW t \in Task, CancelEnds(t) PROVE Goal
  BY <1>0, <1>9 DEF CancelEnds
<1>10. ASSUME NEW t \in Task, TaskTimeout(t) PROVE Goal
  BY <1>0, <1>10 DEF TaskTimeout, Interrupt, markTaskFailed
<1>11. ASSUME NEW a \in Approval, NEW approved \in BOOLEAN, resolveApproval(a, approved) PROVE Goal
  BY <1>0, <1>11 DEF resolveApproval, Settle, Decide, Tell
<1>12. ASSUME NEW a \in Approval, ApprovalTimeout(a) PROVE Goal
  BY <1>0, <1>12 DEF ApprovalTimeout, Settle, Decide, Tell, Interrupt, markTaskFailed
<1>13. ASSUME Restart PROVE Goal
  BY <1>0, <1>13 DEF Restart
<1>14. ASSUME UNCHANGED vars PROVE Goal
  BY <1>0, <1>14 DEF vars, disk, memory
<1> HIDE DEF Preflights, ConsentStep, Drivers, Unborn, OneDriver, Asked, TypeOK
<1> QED
  BY <1>1, <1>2, <1>3, <1>4, <1>5, <1>6, <1>7, <1>8, <1>9, <1>10, <1>11, <1>12, <1>13, <1>14
     DEF Next

LEMMA AbortedKeepsPreflights ==
  ASSUME SInv, Preflights, Aborted
  PROVE  Preflights' /\ ConsentStep
<1>0. TypeOK /\ Drivers
  BY DEF SInv, SessionTypeOK
<1> DEFINE Goal == Preflights' /\ ConsentStep
<1> USE DEF Preflights, ConsentStep, Drivers, Unborn, OneDriver, Asked, TypeOK
<1>1. ASSUME NEW t \in Task, CancelAborted(t) PROVE Goal
  BY <1>0, <1>1 DEF CancelAborted, Unheard, Decide, PendingOf
<1>2. ASSUME NEW t \in Task, NEW a \in Approval, AskAborted(t, a) PROVE Goal
  BY <1>0, <1>2 DEF AskAborted
<1>3. ASSUME NEW a \in Approval, ExpiryAborted(a) PROVE Goal
  BY <1>0, <1>3 DEF ExpiryAborted, Unheard, Decide
<1>4. ASSUME NEW a \in Approval, NEW approved \in BOOLEAN, DecideAborted(a, approved) PROVE Goal
  BY <1>0, <1>4 DEF DecideAborted, Unheard, Decide
<1>5. ASSUME NEW t \in Task, DriverAborted(t) PROVE Goal
  BY <1>0, <1>5 DEF DriverAborted
<1> HIDE DEF Preflights, ConsentStep
<1> QED
  BY <1>1, <1>2, <1>3, <1>4, <1>5 DEF Aborted

LEMMA CNextInv == CInv /\ [SessionNext]_allVars => CInv' /\ ConsentStep
<1>1. ASSUME CInv, SessionNext PROVE Preflights' /\ ConsentStep
  BY <1>1, SessionStepIsRunStep, RunStepKeepsPreflights, AbortedKeepsPreflights DEF CInv
<1>2. ASSUME CInv, UNCHANGED allVars PROVE Preflights' /\ ConsentStep
  BY <1>2, RunStepKeepsPreflights DEF CInv, allVars
<1> QED
  BY <1>1, <1>2, SNextInv DEF CInv

(* Whatever a session does to its runs, and although its listener may throw *)
(* in any handler, a run that has an approval starts only once it is        *)
(* approved.                                                                *)
THEOREM SessionNeedsConsent == SessionSpec => StartNeedsConsent
<1>1. SessionInit => CInv
  BY InitSInv DEF SessionInit, Init, CInv, Preflights
<1>2. SessionSpec => []CInv
  BY <1>1, CNextInv, PTL DEF SessionSpec
<1>3. CInv /\ [SessionNext]_allVars => [ConsentStep]_vars
  BY CNextInv
<1>4. SessionSpec => [][ConsentStep]_vars
  BY <1>2, <1>3, PTL DEF SessionSpec
<1> QED
  BY <1>4 DEF StartNeedsConsent, ConsentStep

-----------------------------------------------------------------------------
(* Starts and ends.  Promise and record may disagree, but an answer that   *)
(* lets a driver go on still finds its run as the answer left it.          *)

Gates ==
  /\ \A a \in resolver : row[a] = "pending"
  /\ \A t \in Task : status[t] = "none" => started[t] = 0 /\ cancels[t] = 0 /\ t \notin clock
  /\ \A t \in Task : gate[t] # NoApproval =>
       /\ started[t] = 0 /\ t \notin clock /\ owner[gate[t]] = t
       /\ gate[t] \in resolver => /\ answer[gate[t]] = "open" /\ cancels[t] = 0
                                  /\ status[t] = "waiting_approval"
       /\ answer[gate[t]] = "yes" => status[t] = "running" /\ cancels[t] = 0

GInv == CInv /\ Gates /\ StartedOnce

(* What a step may do to starts and to runs that are over. *)
GatesStep == Gates' /\ StartedOnce' /\ TerminalStep

LEMMA RunStepKeepsGates ==
  ASSUME GInv, [Next]_vars
  PROVE  GatesStep
<1> DEFINE Goal == GatesStep
<1>0. TypeOK /\ Drivers /\ Preflights /\ Gates /\ StartedOnce
  BY DEF GInv, CInv, SInv, SessionTypeOK
<1> USE DEF GatesStep, Gates, StartedOnce, TerminalStep, Preflights, Drivers, Unborn, OneDriver,
            TypeOK, isTerminal, Terminal
<1>1. ASSUME NEW t \in Task, CreateRun(t) PROVE Goal
  BY <1>0, <1>1 DEF CreateRun, executeTask, markTaskFailed
<1>2. ASSUME NEW t \in Task, NEW a \in Approval, CreateRunWithPreflight(t, a) PROVE Goal
  BY <1>0, <1>2 DEF CreateRunWithPreflight, OpenApproval
<1>3. ASSUME NEW t \in Task, NEW a \in Approval, onApprovalRequest(t, a) PROVE Goal
  BY <1>0, <1>3 DEF onApprovalRequest, OpenApproval, BlockApproval
<1>4. ASSUME NEW t \in Task, PreflightGranted(t) PROVE Goal
  BY <1>0, <1>4 DEF PreflightGranted, executeTask, markTaskFailed
<1>5. ASSUME NEW t \in Task, PreflightDenied(t) PROVE Goal
  BY <1>0, <1>5 DEF PreflightDenied, markTaskFailed
<1>6. ASSUME NEW t \in Task, onComplete(t) \/ onError(t) PROVE Goal
  BY <1>0, <1>6 DEF onComplete, onError, markTaskFailed
<1>7. ASSUME NEW t \in Task, StartTaskReturns(t) PROVE Goal
  BY <1>0, <1>7 DEF StartTaskReturns, disk
<1>8. ASSUME NEW t \in Task, claimRemoteTask(t) \/ WorkerSeesCancel(t) \/ WorkerLost(t) PROVE Goal
  BY <1>0, <1>8 DEF claimRemoteTask, HandOut, QueuedRemote, WorkerSeesCancel, WorkerLost
<1>9. ASSUME NEW t \in Task, CancelBegins(t) PROVE Goal
  BY <1>0, <1>9 DEF CancelBegins, Settle, Decide, Tell, PendingOf, Quiet, Answered
<1>10. ASSUME NEW t \in Task, CancelEnds(t) PROVE Goal
  BY <1>0, <1>10 DEF CancelEnds, LeavesTerminal
<1>11. ASSUME NEW t \in Task, TaskTimeout(t) PROVE Goal
  BY <1>0, <1>11 DEF TaskTimeout, markTaskFailed
<1>12. ASSUME NEW a \in Approval, NEW approved \in BOOLEAN, resolveApproval(a, approved) PROVE Goal
  BY <1>0, <1>12 DEF resolveApproval, Settle, Decide, Tell, LeavesTerminal, PendingOf, Quiet,
                     Answered
<1>13. ASSUME NEW a \in Approval, ApprovalTimeout(a) PROVE Goal
  BY <1>0, <1>13 DEF ApprovalTimeout, Settle, Decide, Tell, markTaskFailed, Quiet, Answered
<1>14. ASSUME Restart PROVE Goal
  BY <1>0, <1>14 DEF Restart
<1>15. ASSUME UNCHANGED vars PROVE Goal
  BY <1>0, <1>15 DEF vars, disk, memory
<1> HIDE DEF GatesStep, Gates, StartedOnce, TerminalStep, Preflights, Drivers, Unborn, OneDriver,
             TypeOK, isTerminal, Terminal
<1> QED
  BY <1>1, <1>2, <1>3, <1>4, <1>5, <1>6, <1>7, <1>8, <1>9, <1>10, <1>11, <1>12, <1>13, <1>14,
     <1>15 DEF Next

LEMMA AbortedKeepsGates ==
  ASSUME GInv, Aborted
  PROVE  GatesStep
<1> DEFINE Goal == GatesStep
<1>0. TypeOK /\ Drivers /\ Preflights /\ Gates /\ StartedOnce
  BY DEF GInv, CInv, SInv, SessionTypeOK
<1> USE DEF GatesStep, Gates, StartedOnce, TerminalStep, Preflights, Drivers, Unborn, OneDriver,
            TypeOK, isTerminal, Terminal
<1>1. ASSUME NEW t \in Task, CancelAborted(t) PROVE Goal
  BY <1>0, <1>1 DEF CancelAborted, Unheard, Decide
<1>2. ASSUME NEW t \in Task, NEW a \in Approval, AskAborted(t, a) PROVE Goal
  BY <1>0, <1>2 DEF AskAborted
<1>3. ASSUME NEW a \in Approval, ExpiryAborted(a) PROVE Goal
  BY <1>0, <1>3 DEF ExpiryAborted, Unheard, Decide
<1>4. ASSUME NEW a \in Approval, NEW approved \in BOOLEAN, DecideAborted(a, approved) PROVE Goal
  BY <1>0, <1>4 DEF DecideAborted, Unheard, Decide, LeavesTerminal, PendingOf, Quiet, Answered
<1>5. ASSUME NEW t \in Task, DriverAborted(t) PROVE Goal
  BY <1>0, <1>5 DEF DriverAborted
<1> HIDE DEF GatesStep
<1> QED
  BY <1>1, <1>2, <1>3, <1>4, <1>5 DEF Aborted

LEMMA GNextInv == GInv /\ [SessionNext]_allVars => GInv' /\ TerminalStep
<1>1. ASSUME GInv, SessionNext PROVE GatesStep
  BY <1>1, SessionStepIsRunStep, RunStepKeepsGates, AbortedKeepsGates
<1>2. ASSUME GInv, UNCHANGED allVars PROVE GatesStep
  BY <1>2, RunStepKeepsGates DEF allVars
<1> QED
  BY <1>1, <1>2, CNextInv DEF GInv, GatesStep

LEMMA GatesInvariance == SessionSpec => []GInv
<1>1. SessionInit => GInv
  BY InitSInv DEF SessionInit, Init, GInv, CInv, Preflights, Gates, StartedOnce
<1> QED
  BY <1>1, GNextInv, PTL DEF SessionSpec

(* A session never starts a run twice, although a handler that its listener *)
(* cut short leaves askers untold, approvals decided and runs waiting.      *)
THEOREM SessionStartsOnce == SessionSpec => []StartedOnce
<1>1. GInv => StartedOnce
  BY DEF GInv
<1> QED
  BY <1>1, GatesInvariance, PTL

(* Nor does it bring back a run that is over, but for the two races that   *)
(* TaskService leaves open: a driver that goes on finds its run running.   *)
THEOREM SessionEndsStay == SessionSpec => TerminalLeftOnlyByRace
<1>1. GInv /\ [SessionNext]_allVars => [TerminalStep]_vars
  BY GNextInv
<1>2. SessionSpec => [][TerminalStep]_vars
  BY <1>1, GatesInvariance, PTL DEF SessionSpec
<1> QED
  BY <1>2 DEF TerminalLeftOnlyByRace, TerminalStep
=============================================================================
