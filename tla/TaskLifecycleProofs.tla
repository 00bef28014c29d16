------------------------ MODULE TaskLifecycleProofs ------------------------
(***************************************************************************)
(* Theorems about TaskLifecycle, for every set of runs and approvals and   *)
(* every bound.                                                            *)
(***************************************************************************)
EXTENDS TaskLifecycle, TLAPS

USE ConstantsAssumption

-----------------------------------------------------------------------------
(* Every reachable state is well typed. *)

(* The initial state is well typed.                                        *)
LEMMA TypeInit == Init => TypeOK
BY DEF Init, TypeOK, Statuses, Rows, Answers, Phases

(* Every handler, timer and callback keeps the types.                      *)
LEMMA TypeStep == TypeOK /\ [Next]_vars => TypeOK'
<1> SUFFICES ASSUME TypeOK, [Next]_vars PROVE TypeOK'
  OBVIOUS
<1> USE DEF TypeOK, Statuses, Rows, Answers, Phases, Terminal, Decisions
<1>1. ASSUME NEW t \in Task, CreateRun(t) PROVE TypeOK'
  BY <1>1 DEF CreateRun, executeTask, markTaskFailed, Born
<1>2. ASSUME NEW t \in Task, NEW a \in Approval, CreateRunWithPreflight(t, a) PROVE TypeOK'
  BY <1>2 DEF CreateRunWithPreflight, OpenApproval, Born
<1>3. ASSUME NEW t \in Task, NEW a \in Approval, onApprovalRequest(t, a) PROVE TypeOK'
  BY <1>3 DEF onApprovalRequest, OpenApproval, BlockApproval
<1>4. ASSUME NEW t \in Task, PreflightGranted(t) PROVE TypeOK'
  BY <1>4 DEF PreflightGranted, executeTask, markTaskFailed
<1>5. ASSUME NEW t \in Task, PreflightDenied(t) PROVE TypeOK'
  BY <1>5 DEF PreflightDenied, markTaskFailed
<1>6. ASSUME NEW t \in Task, claimRemoteTask(t) PROVE TypeOK'
  BY <1>6 DEF claimRemoteTask, HandOut
<1>7. ASSUME NEW t \in Task, onComplete(t) PROVE TypeOK'
  BY <1>7 DEF onComplete
<1>8. ASSUME NEW t \in Task, onError(t) PROVE TypeOK'
  BY <1>8 DEF onError, markTaskFailed
<1>9. ASSUME NEW t \in Task, StartTaskReturns(t) PROVE TypeOK'
  BY <1>9 DEF StartTaskReturns, disk
<1>10. ASSUME NEW t \in Task, WorkerSeesCancel(t) \/ WorkerLost(t) PROVE TypeOK'
  BY <1>10 DEF WorkerSeesCancel, WorkerLost, disk
<1>11. ASSUME NEW t \in Task, CancelBegins(t) PROVE TypeOK'
  BY <1>11 DEF CancelBegins, Settle, Decide, Tell, Interrupt, PendingOf
<1>12. ASSUME NEW t \in Task, CancelEnds(t) PROVE TypeOK'
  BY <1>12 DEF CancelEnds
<1>13. ASSUME NEW t \in Task, TaskTimeout(t) PROVE TypeOK'
  BY <1>13 DEF TaskTimeout, Interrupt, markTaskFailed
<1>14. ASSUME NEW a \in Approval, NEW approved \in BOOLEAN, resolveApproval(a, approved)
       PROVE TypeOK'
  BY <1>14 DEF resolveApproval, Settle, Decide, Tell
<1>15. ASSUME NEW a \in Approval, ApprovalTimeout(a) PROVE TypeOK'
  BY <1>15 DEF ApprovalTimeout, Settle, Decide, Tell, Interrupt, markTaskFailed
<1>16. CASE Restart
  BY <1>16 DEF Restart
<1>17. CASE UNCHANGED vars
  BY <1>17 DEF vars, disk, memory
<1> QED
  BY <1>1, <1>2, <1>3, <1>4, <1>5, <1>6, <1>7, <1>8, <1>9, <1>10, <1>11, <1>12, <1>13,
     <1>14, <1>15, <1>16, <1>17 DEF Next

(* Every variable keeps its type, whatever happens.                        *)
THEOREM TypeCorrect == Spec => []TypeOK
BY TypeInit, TypeStep, PTL DEF Spec

-----------------------------------------------------------------------------
(* The record, the resolvers, the timers and the promises agree.           *)

Broker == TypeOK /\ BrokerConsistent /\ AnswerMatchesRow

(* What deciding an open approval leaves behind. *)
LEMMA SettleKeepsBroker ==
  ASSUME Broker, NEW a \in resolver, NEW decision \in Decisions,
         NEW verdict \in {"yes", "no"}, verdict = "yes" <=> decision = "approved",
         Settle(a, decision, verdict)
  PROVE  (BrokerConsistent /\ AnswerMatchesRow)'
BY DEF Broker, TypeOK, BrokerConsistent, AnswerMatchesRow, Settle, Decide, Tell, Decisions,
       Rows, Answers

(* Opening an approval for a person to decide keeps the record straight.   *)
LEMMA OpenKeepsBroker ==
  ASSUME Broker, NEW t \in Task, NEW a \in Approval, OpenApproval(t, a)
  PROVE  (BrokerConsistent /\ AnswerMatchesRow)'
BY DEF Broker, TypeOK, BrokerConsistent, AnswerMatchesRow, OpenApproval, Rows, Answers

(* So does refusing one for a path outside the allowed directory.          *)
LEMMA BlockKeepsBroker ==
  ASSUME Broker, NEW t \in Task, NEW a \in Approval, BlockApproval(t, a)
  PROVE  (BrokerConsistent /\ AnswerMatchesRow)'
BY DEF Broker, TypeOK, BrokerConsistent, AnswerMatchesRow, BlockApproval, Rows, Answers

(* So does a step that leaves approvals alone.                             *)
LEMMA SameBroker ==
  ASSUME Broker, UNCHANGED <<row, resolver, timer, answer>>
  PROVE  (BrokerConsistent /\ AnswerMatchesRow)'
BY DEF Broker, BrokerConsistent, AnswerMatchesRow

(* Every step keeps record, resolver, timer and promise in agreement.      *)
LEMMA BrokerStep == Broker /\ [Next]_vars => Broker'
<1> SUFFICES ASSUME Broker, [Next]_vars PROVE (BrokerConsistent /\ AnswerMatchesRow)'
  BY TypeStep DEF Broker
<1> DEFINE Goal == (BrokerConsistent /\ AnswerMatchesRow)'
<1>1. ASSUME NEW t \in Task, NEW a \in Approval, CreateRunWithPreflight(t, a) PROVE Goal
  BY <1>1, OpenKeepsBroker DEF CreateRunWithPreflight
<1>2. ASSUME NEW t \in Task, NEW a \in Approval, onApprovalRequest(t, a) PROVE Goal
  BY <1>2, OpenKeepsBroker, BlockKeepsBroker DEF onApprovalRequest
<1>3. ASSUME NEW t \in Task, CancelBegins(t) PROVE Goal
  <2>1. CASE UNCHANGED <<row, resolver, timer, answer>>
    BY <2>1, SameBroker
  <2>2. CASE \E a \in resolver : Settle(a, "rejected", "no")
    BY <2>2, SettleKeepsBroker DEF Decisions
  <2> QED
    BY <1>3, <2>1, <2>2 DEF CancelBegins
<1>4. ASSUME NEW a \in Approval, NEW approved \in BOOLEAN, resolveApproval(a, approved)
      PROVE Goal
  <2>1. CASE approved
    BY <1>4, <2>1, SettleKeepsBroker DEF resolveApproval, Decisions
  <2>2. CASE ~approved
    BY <1>4, <2>2, SettleKeepsBroker DEF resolveApproval, Decisions
  <2> QED
    BY <2>1, <2>2
<1>5. ASSUME NEW a \in Approval, ApprovalTimeout(a) PROVE Goal
  <2>1. a \in resolver
    BY <1>5 DEF ApprovalTimeout, Broker, BrokerConsistent
  <2> QED
    BY <1>5, <2>1, SettleKeepsBroker DEF ApprovalTimeout, Decisions
<1>6. CASE Restart
  BY <1>6 DEF Restart, Broker, TypeOK, BrokerConsistent, AnswerMatchesRow, Answers
<1>7. ASSUME NEW t \in Task,
             \/ CreateRun(t) \/ PreflightGranted(t) \/ PreflightDenied(t)
             \/ claimRemoteTask(t) \/ onComplete(t) \/ onError(t) \/ StartTaskReturns(t)
             \/ WorkerSeesCancel(t) \/ WorkerLost(t) \/ CancelEnds(t) \/ TaskTimeout(t)
      PROVE Goal
  <2>1. UNCHANGED <<row, resolver, timer, answer>>
    BY <1>7 DEF CreateRun, PreflightGranted, PreflightDenied, claimRemoteTask, HandOut, onComplete,
                onError, StartTaskReturns, WorkerSeesCancel, WorkerLost, CancelEnds,
                TaskTimeout, disk
  <2> QED
    BY <2>1, SameBroker
<1>8. CASE UNCHANGED vars
  BY <1>8, SameBroker DEF vars, disk, memory
<1> QED
  BY <1>1, <1>2, <1>3, <1>4, <1>5, <1>6, <1>7, <1>8 DEF Next

(* The agreement holds in every reachable state.                           *)
LEMMA BrokerInvariant == Spec => []Broker
<1>1. Init => Broker
  BY TypeInit DEF Init, Broker, BrokerConsistent, AnswerMatchesRow
<1> QED
  BY <1>1, BrokerStep, PTL DEF Spec

(* What a person can decide is what somebody waits for, and it expires.    *)
THEOREM BrokerCorrect == Spec => []BrokerConsistent
<1>1. Broker => BrokerConsistent
  BY DEF Broker
<1> QED
  BY <1>1, BrokerInvariant, PTL

(* The asker is told what is on record; a time-out never grants.           *)
THEOREM AnswersCorrect == Spec => []AnswerMatchesRow
<1>1. Broker => AnswerMatchesRow
  BY DEF Broker
<1> QED
  BY <1>1, BrokerInvariant, PTL

-----------------------------------------------------------------------------
(* A waiting run can be answered.                                          *)

Waiting == Broker /\ WaitingIsAnswerable

(* Every step keeps an answerable approval behind a waiting run.           *)
LEMMA WaitingStep == Waiting /\ [Next]_vars => Waiting'
<1> SUFFICES ASSUME Waiting, [Next]_vars, NEW u \in Task, status'[u] = "waiting_approval"
             PROVE  (\E b \in resolver' : owner'[b] = u) \/ cancels'[u] > 0
  BY BrokerStep DEF Waiting, WaitingIsAnswerable
<1> DEFINE Goal == (\E b \in resolver' : owner'[b] = u) \/ cancels'[u] > 0
<1> USE DEF Waiting, Broker, TypeOK, WaitingIsAnswerable, Terminal
<1>1. ASSUME NEW t \in Task, CreateRun(t) PROVE Goal
  BY <1>1 DEF CreateRun, executeTask, markTaskFailed
<1>2. ASSUME NEW t \in Task, NEW a \in Approval, OpenApproval(t, a), UNCHANGED cancels
      PROVE Goal
  BY <1>2 DEF OpenApproval, BrokerConsistent
<1>3. ASSUME NEW t \in Task, NEW a \in Approval, BlockApproval(t, a), UNCHANGED cancels
      PROVE Goal
  BY <1>3 DEF BlockApproval, BrokerConsistent
<1>4. ASSUME NEW t \in Task, PreflightGranted(t) PROVE Goal
  BY <1>4 DEF PreflightGranted, executeTask, markTaskFailed
<1>5. ASSUME NEW t \in Task, PreflightDenied(t) \/ onError(t) PROVE Goal
  BY <1>5 DEF PreflightDenied, onError, markTaskFailed
<1>6. ASSUME NEW t \in Task, claimRemoteTask(t) PROVE Goal
  BY <1>6 DEF claimRemoteTask, HandOut
<1>7. ASSUME NEW t \in Task, onComplete(t) PROVE Goal
  BY <1>7 DEF onComplete
<1>8. ASSUME NEW t \in Task, StartTaskReturns(t) \/ WorkerSeesCancel(t) \/ WorkerLost(t)
      PROVE Goal
  BY <1>8 DEF StartTaskReturns, WorkerSeesCancel, WorkerLost, disk
<1>9. ASSUME NEW t \in Task, CancelBegins(t) PROVE Goal
  <2>1. CASE u = t
    BY <1>9, <2>1 DEF CancelBegins
  <2>2. CASE u # t
    BY <1>9, <2>2 DEF CancelBegins, PendingOf, Settle
  <2> QED
    BY <2>1, <2>2
<1>10. ASSUME NEW t \in Task, CancelEnds(t) PROVE Goal
  BY <1>10 DEF CancelEnds
<1>11. ASSUME NEW t \in Task, TaskTimeout(t) PROVE Goal
  BY <1>11 DEF TaskTimeout, markTaskFailed
<1>12. ASSUME NEW a \in Approval, NEW approved \in BOOLEAN, resolveApproval(a, approved)
       PROVE Goal
  BY <1>12 DEF resolveApproval, Settle
<1>13. ASSUME NEW a \in Approval, ApprovalTimeout(a) PROVE Goal
  <2>1. status[u] = "waiting_approval" /\ u # owner[a]
    BY <1>13 DEF ApprovalTimeout, markTaskFailed, isTerminal
  <2> QED
    BY <1>13, <2>1 DEF ApprovalTimeout, Settle
<1>14. CASE Restart
  BY <1>14 DEF Restart
<1>15. CASE UNCHANGED vars
  BY <1>15 DEF vars, disk, memory
<1> QED
  BY <1>1, <1>2, <1>3, <1>4, <1>5, <1>6, <1>7, <1>8, <1>9, <1>10, <1>11, <1>12, <1>13,
     <1>14, <1>15 DEF Next, CreateRunWithPreflight, onApprovalRequest

(* No run waits for an approval that nobody can give or refuse any more,   *)
(* unless it is being cancelled.                                           *)
THEOREM WaitingCorrect == Spec => []WaitingIsAnswerable
<1>1. Init => Waiting
  BY TypeInit DEF Init, Waiting, Broker, BrokerConsistent, AnswerMatchesRow,
                  WaitingIsAnswerable
<1>2. Waiting => WaitingIsAnswerable
  BY DEF Waiting
<1> QED
  BY <1>1, <1>2, WaitingStep, PTL DEF Spec

-----------------------------------------------------------------------------
(* A gated run is left alone until its driver takes up the answer.         *)

Driver == Broker /\ DriverConsistent

(* An approval whose asker waits, or is lost, is of a run that exists; one *)
(* that can be decided is open.                                            *)
LEMMA ResolverFacts ==
  ASSUME Broker, NEW a \in resolver
  PROVE  a \in Approval /\ owner[a] \in Task /\ row[a] = "pending" /\ answer[a] = "open"
BY DEF Broker, TypeOK, BrokerConsistent

(* Every step keeps the state of a driver that waits for its preflight.    *)
LEMMA DriverStep == Driver /\ [Next]_vars => Driver'
<1> SUFFICES ASSUME Driver, [Next]_vars, NEW u \in Task
             PROVE  /\ gate'[u] # NoApproval => Gated(u)'
                    /\ status'[u] \in {"none", "queued"} => Undispatched(u)'
  BY BrokerStep DEF Driver, DriverConsistent
<1> DEFINE Goal == /\ gate'[u] # NoApproval => Gated(u)'
                   /\ status'[u] \in {"none", "queued"} => Undispatched(u)'
<1>0. /\ TypeOK /\ Broker
      /\ gate[u] # NoApproval => Gated(u)
      /\ status[u] \in {"none", "queued"} => Undispatched(u)
  BY DEF Driver, DriverConsistent, Broker
<1> USE <1>0 DEF TypeOK, Gated, Undispatched, Terminal
<1>1. ASSUME NEW t \in Task, CreateRun(t) PROVE Goal
  BY <1>1 DEF CreateRun, executeTask, markTaskFailed, isTerminal
<1>2. ASSUME NEW t \in Task, NEW a \in Approval, CreateRunWithPreflight(t, a) PROVE Goal
  BY <1>2 DEF CreateRunWithPreflight, OpenApproval
<1>3. ASSUME NEW t \in Task, NEW a \in Approval, onApprovalRequest(t, a) PROVE Goal
  BY <1>3 DEF onApprovalRequest, OpenApproval, BlockApproval
<1>4. ASSUME NEW t \in Task, PreflightGranted(t) PROVE Goal
  BY <1>4 DEF PreflightGranted, executeTask, markTaskFailed, isTerminal
<1>5. ASSUME NEW t \in Task, PreflightDenied(t) PROVE Goal
  BY <1>5 DEF PreflightDenied, markTaskFailed, isTerminal
<1>6. ASSUME NEW t \in Task, claimRemoteTask(t) PROVE Goal
  BY <1>6 DEF claimRemoteTask, HandOut, QueuedRemote
<1>7. ASSUME NEW t \in Task, onComplete(t) \/ onError(t) PROVE Goal
  BY <1>7 DEF onComplete, onError, markTaskFailed, isTerminal
<1>8. ASSUME NEW t \in Task, StartTaskReturns(t) \/ WorkerSeesCancel(t) \/ WorkerLost(t)
      PROVE Goal
  BY <1>8 DEF StartTaskReturns, WorkerSeesCancel, WorkerLost, disk
<1>9. ASSUME NEW t \in Task, CancelBegins(t) PROVE Goal
  BY <1>9, ResolverFacts DEF CancelBegins, PendingOf, Settle, Tell, Interrupt, Quiet,
                             Answered, Broker, BrokerConsistent
<1>10. ASSUME NEW t \in Task, CancelEnds(t) PROVE Goal
  BY <1>10 DEF CancelEnds
<1>11. ASSUME NEW t \in Task, TaskTimeout(t) PROVE Goal
  BY <1>11 DEF TaskTimeout, markTaskFailed, isTerminal, Interrupt
<1>12. ASSUME NEW a \in Approval, NEW approved \in BOOLEAN, resolveApproval(a, approved)
       PROVE Goal
  BY <1>12, ResolverFacts DEF resolveApproval, Settle, Tell
<1>13. ASSUME NEW a \in Approval, ApprovalTimeout(a) PROVE Goal
  BY <1>13, ResolverFacts DEF ApprovalTimeout, Settle, Tell, Interrupt, markTaskFailed,
                              isTerminal, Broker, BrokerConsistent
<1>14. CASE Restart
  BY <1>14 DEF Restart
<1>15. CASE UNCHANGED vars
  BY <1>15 DEF vars, disk, memory
<1> QED
  BY <1>1, <1>2, <1>3, <1>4, <1>5, <1>6, <1>7, <1>8, <1>9, <1>10, <1>11, <1>12, <1>13,
     <1>14, <1>15 DEF Next

(* The driver's invariant holds in every reachable state.                  *)
LEMMA DriverInvariant == Spec => []Driver
<1>1. Init => Driver
  BY TypeInit DEF Init, Driver, Broker, BrokerConsistent, AnswerMatchesRow,
                  DriverConsistent, Undispatched
<1> QED
  BY <1>1, DriverStep, PTL DEF Spec

(* A run whose preflight is not taken up has not started, and nothing else *)
(* has happened to it.                                                     *)
THEOREM DriverCorrect == Spec => []DriverConsistent
<1>1. Driver => DriverConsistent
  BY DEF Driver
<1> QED
  BY <1>1, DriverInvariant, PTL

-----------------------------------------------------------------------------
(* A run starts once and only with consent.                                *)

Once == Driver /\ StartedOnce

(* Only a run that was never started is started by a step.                 *)
LEMMA OnceStep == Once /\ [Next]_vars => Once'
<1> SUFFICES ASSUME Once, [Next]_vars PROVE StartedOnce'
  BY DriverStep DEF Once
<1> USE DEF Once, StartedOnce, Driver, DriverConsistent, Broker, TypeOK
<1>1. ASSUME NEW t \in Task, CreateRun(t) PROVE StartedOnce'
  BY <1>1 DEF CreateRun, executeTask, Undispatched
<1>2. ASSUME NEW t \in Task, PreflightGranted(t) PROVE StartedOnce'
  BY <1>2 DEF PreflightGranted, executeTask, Gated
<1>3. ASSUME NEW t \in Task, claimRemoteTask(t) PROVE StartedOnce'
  BY <1>3 DEF claimRemoteTask, HandOut, QueuedRemote, Undispatched
<1>4. CASE UNCHANGED started
  BY <1>4
<1> QED
  BY <1>1, <1>2, <1>3, <1>4
  DEF Next, CreateRunWithPreflight, PreflightDenied, onApprovalRequest, onComplete, onError,
      StartTaskReturns, WorkerSeesCancel, WorkerLost, resolveApproval, CancelBegins,
      CancelEnds, ApprovalTimeout, TaskTimeout, Restart, vars, disk

(* No approval, cancellation, lost worker or restart starts a run twice.   *)
THEOREM StartsOnce == Spec => []StartedOnce
<1>1. Init => Once
  BY TypeInit DEF Init, Once, Driver, Broker, BrokerConsistent, AnswerMatchesRow,
                  DriverConsistent, Undispatched, StartedOnce
<1>2. Once => StartedOnce
  BY DEF Once
<1> QED
  BY <1>1, <1>2, OnceStep, PTL DEF Spec

ConsentStep == \A t \in Task : started'[t] # started[t] =>
                 \A a \in Approval : owner[a] = t => row[a] = "approved"

(* A step starts a run only with all its approvals granted.                *)
LEMMA ConsentOfStep == Driver /\ [Next]_vars => ConsentStep
<1> SUFFICES ASSUME Driver, [Next]_vars, NEW u \in Task, started'[u] # started[u],
                    NEW b \in Approval, owner[b] = u
             PROVE  row[b] = "approved"
  BY DEF ConsentStep
<1> USE DEF Driver, DriverConsistent, Broker, TypeOK
<1>1. ASSUME NEW t \in Task, CreateRun(t) PROVE row[b] = "approved"
  BY <1>1 DEF CreateRun, executeTask, Undispatched
<1>2. ASSUME NEW t \in Task, PreflightGranted(t) PROVE row[b] = "approved"
  BY <1>2 DEF PreflightGranted, executeTask, Gated, AnswerMatchesRow
<1>3. ASSUME NEW t \in Task, claimRemoteTask(t) PROVE row[b] = "approved"
  BY <1>3 DEF claimRemoteTask, HandOut, QueuedRemote, Undispatched
<1>4. ~UNCHANGED started
  OBVIOUS
<1> QED
  BY <1>1, <1>2, <1>3, <1>4
  DEF Next, CreateRunWithPreflight, PreflightDenied, onApprovalRequest, onComplete, onError,
      StartTaskReturns, WorkerSeesCancel, WorkerLost, resolveApproval, CancelBegins,
      CancelEnds, ApprovalTimeout, TaskTimeout, Restart, vars, disk

(* Nothing that was refused, expired or forgotten is ever started.         *)
THEOREM ConsentCorrect == Spec => StartNeedsConsent
<1>1. Driver /\ [Next]_vars => [ConsentStep]_vars
  BY ConsentOfStep
<1>2. Spec => [][ConsentStep]_vars
  BY <1>1, DriverInvariant, PTL DEF Spec
<1> QED
  BY <1>2 DEF StartNeedsConsent, ConsentStep

-----------------------------------------------------------------------------
(* A terminal status is left only by the two races the code leaves open.   *)

TerminalStep == \A t \in Task : isTerminal(t) /\ status'[t] # status[t] => LeavesTerminal(t)

(* A step changes a terminal status only by one of the two races.          *)
LEMMA TerminalOfStep == Driver /\ [Next]_vars => TerminalStep
<1> SUFFICES ASSUME Driver, [Next]_vars, NEW u \in Task, isTerminal(u), status'[u] # status[u]
             PROVE  LeavesTerminal(u)
  BY DEF TerminalStep
<1> USE DEF Driver, DriverConsistent, Broker, TypeOK, isTerminal, Terminal
<1>1. ASSUME NEW t \in Task, CreateRun(t) PROVE FALSE
  BY <1>1 DEF CreateRun, executeTask, markTaskFailed
<1>2. ASSUME NEW t \in Task, NEW a \in Approval, CreateRunWithPreflight(t, a) PROVE FALSE
  BY <1>2 DEF CreateRunWithPreflight, OpenApproval
<1>3. ASSUME NEW t \in Task, NEW a \in Approval, onApprovalRequest(t, a) PROVE FALSE
  BY <1>3 DEF onApprovalRequest, OpenApproval, BlockApproval
<1>4. ASSUME NEW t \in Task, PreflightGranted(t) PROVE FALSE
  BY <1>4 DEF PreflightGranted, executeTask, markTaskFailed, Gated
<1>5. ASSUME NEW t \in Task,
             PreflightDenied(t) \/ onComplete(t) \/ onError(t) \/ TaskTimeout(t)
      PROVE FALSE
  BY <1>5 DEF PreflightDenied, onComplete, onError, TaskTimeout, markTaskFailed
<1>6. ASSUME NEW t \in Task, claimRemoteTask(t) PROVE FALSE
  BY <1>6 DEF claimRemoteTask, HandOut, QueuedRemote
<1>7. ASSUME NEW t \in Task, \/ StartTaskReturns(t) \/ WorkerSeesCancel(t) \/ WorkerLost(t)
                             \/ CancelBegins(t)
      PROVE FALSE
  BY <1>7 DEF StartTaskReturns, WorkerSeesCancel, WorkerLost, CancelBegins, disk
<1>8. ASSUME NEW t \in Task, CancelEnds(t) PROVE LeavesTerminal(u)
  BY <1>8 DEF CancelEnds, LeavesTerminal
<1>9. ASSUME NEW a \in Approval, NEW approved \in BOOLEAN, resolveApproval(a, approved)
      PROVE LeavesTerminal(u)
  BY <1>9 DEF resolveApproval, Settle, Decide, LeavesTerminal, PendingOf
<1>10. ASSUME NEW a \in Approval, ApprovalTimeout(a) PROVE FALSE
  BY <1>10 DEF ApprovalTimeout, markTaskFailed
<1>11. CASE Restart
  BY <1>11 DEF Restart
<1>12. CASE UNCHANGED vars
  BY <1>12 DEF vars, disk
<1> QED
  BY <1>1, <1>2, <1>3, <1>4, <1>5, <1>6, <1>7, <1>8, <1>9, <1>10, <1>11, <1>12 DEF Next

(* Late reports, timers, continuations, claims and restarts never change   *)
(* the status of a run that is over.                                       *)
THEOREM TerminalCorrect == Spec => TerminalLeftOnlyByRace
<1>1. Driver /\ [Next]_vars => [TerminalStep]_vars
  BY TerminalOfStep
<1>2. Spec => [][TerminalStep]_vars
  BY <1>1, DriverInvariant, PTL DEF Spec
<1> QED
  BY <1>2 DEF TerminalLeftOnlyByRace, TerminalStep

-----------------------------------------------------------------------------
(* The approvals implement the approval desk.                              *)

(* The initial state maps to an initial state of the desk.                 *)
LEMMA DeskInit == Init => Desk!Init
BY DEF Init, Desk!Init, DeskRequest, DeskTold

(* Opening an approval is a request made at the desk.                      *)
LEMMA DeskAsk ==
  ASSUME Broker, NEW t \in Task, NEW a \in Approval, OpenApproval(t, a)
  PROVE  Desk!Ask(a)
BY DEF Broker, TypeOK, AnswerMatchesRow, OpenApproval, Desk!Ask, DeskRequest, DeskTold

(* A request refused unseen is refused at the desk.                        *)
LEMMA DeskRefuse ==
  ASSUME Broker, NEW t \in Task, NEW a \in Approval, BlockApproval(t, a)
  PROVE  Desk!Refuse(a)
BY DEF Broker, TypeOK, BlockApproval, Desk!Refuse, DeskRequest, DeskTold

(* Deciding or expiring an open approval closes it at the desk.            *)
LEMMA DeskDecide ==
  ASSUME Broker, NEW a \in resolver, NEW decision \in Decisions,
         NEW verdict \in {"yes", "no"}, verdict = "yes" <=> decision = "approved",
         Settle(a, decision, verdict)
  PROVE  Desk!Grant(a) \/ Desk!Reject(a) \/ Desk!Expire(a)
BY ResolverFacts
DEF Broker, TypeOK, Settle, Decide, Tell, Decisions, Desk!Grant, Desk!Reject, Desk!Expire,
    DeskRequest, DeskTold

(* A step that leaves approvals alone is a stutter of the desk.            *)
LEMMA DeskStutter ==
  ASSUME UNCHANGED <<row, answer>>
  PROVE  UNCHANGED Desk!vars
BY DEF Desk!vars, DeskRequest, DeskTold

(* Every step is a step or a stutter of the desk.                          *)
LEMMA DeskStep == Broker /\ [Next]_vars => [Desk!Next]_(Desk!vars)
<1> SUFFICES ASSUME Broker, [Next]_vars PROVE [Desk!Next]_(Desk!vars)
  OBVIOUS
<1> DEFINE Goal == [Desk!Next]_(Desk!vars)
<1>1. ASSUME NEW t \in Task, NEW a \in Approval, CreateRunWithPreflight(t, a) PROVE Goal
  BY <1>1, DeskAsk DEF CreateRunWithPreflight, Desk!Next
<1>2. ASSUME NEW t \in Task, NEW a \in Approval, onApprovalRequest(t, a) PROVE Goal
  BY <1>2, DeskAsk, DeskRefuse DEF onApprovalRequest, Desk!Next
<1>3. ASSUME NEW a \in resolver, NEW decision \in Decisions, NEW verdict \in {"yes", "no"},
             verdict = "yes" <=> decision = "approved", Settle(a, decision, verdict)
      PROVE Goal
  BY <1>3, DeskDecide, ResolverFacts DEF Desk!Next
<1>4. ASSUME NEW t \in Task, CancelBegins(t) PROVE Goal
  <2>1. CASE UNCHANGED <<row, resolver, timer, answer>>
    BY <2>1, DeskStutter
  <2>2. CASE \E a \in resolver : Settle(a, "rejected", "no")
    BY <2>2, <1>3 DEF Decisions
  <2> QED
    BY <1>4, <2>1, <2>2 DEF CancelBegins
<1>5. ASSUME NEW a \in Approval, resolveApproval(a, TRUE) PROVE Goal
  BY <1>5, <1>3 DEF resolveApproval, Decisions
<1>6. ASSUME NEW a \in Approval, resolveApproval(a, FALSE) PROVE Goal
  BY <1>6, <1>3 DEF resolveApproval, Decisions
<1>7. ASSUME NEW a \in Approval, ApprovalTimeout(a) PROVE Goal
  BY <1>7, <1>3 DEF ApprovalTimeout, Decisions, Broker, BrokerConsistent
<1>8. CASE Restart
  <2>1. Desk!Abandon
    BY <1>8 DEF Restart, Desk!Abandon, DeskRequest, DeskTold, Broker, TypeOK, Rows, Answers,
                Decisions, BrokerConsistent, AnswerMatchesRow
  <2> QED
    BY <2>1 DEF Desk!Next
<1>9. CASE UNCHANGED <<row, answer>>
  BY <1>9, DeskStutter
<1> QED
  BY <1>1, <1>2, <1>4, <1>5, <1>6, <1>7, <1>8, <1>9
  DEF Next, CreateRun, PreflightGranted, PreflightDenied, claimRemoteTask, HandOut, onComplete, onError,
      StartTaskReturns, WorkerSeesCancel, WorkerLost, CancelEnds, TaskTimeout, vars, disk, memory

(* Every request is opened once and closed once, and its asker is told in  *)
(* the same step what was recorded.                                        *)
THEOREM DeskCorrect == Spec => DeskSafe
BY DeskInit, DeskStep, BrokerInvariant, PTL DEF Spec, DeskSafe, Desk!SafeSpec
=============================================================================
