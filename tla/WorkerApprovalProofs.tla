------------------------ MODULE WorkerApprovalProofs ------------------------
(***************************************************************************)
(* The approvals of a worker's runs, whatever its connection loses, delays *)
(* or repeats: the agreement of record and promise, the state of a driver  *)
(* that waits and the desk of TaskLifecycleProofs, carried over to the     *)
(* host and the worker of RemoteWorker.                                    *)
(***************************************************************************)
EXTENDS RemoteWorkerProofs

USE ConstantsAssumption, WorkerAssumption

(* Only a run that was handed out is carried out, reported or asked about: *)
(* a call that arrives late never meets a run whose preflight is open.     *)
Launched == /\ \A t \in Remote : exec[t] # "off" => started[t] > 0
            /\ \A c \in outbox \ Claims : started[c.run] > 0

AskInv == Driver /\ WaitingIsAnswerable /\ Launched

-----------------------------------------------------------------------------
(* Steps that leave approvals alone.                                       *)

(* What the worker does changes no status and no approval, and only the    *)
(* phase of runs that were started.                                        *)
OnlyPhases == /\ UNCHANGED <<disk, resolver, timer, answer, gate, clock, cancels, restarts>>
              /\ exec' \in [Task -> Phases]
              /\ \A t \in Task : exec'[t] = exec[t] \/ started[t] > 0

LEMMA PhasesKeepDriver ==
  ASSUME Driver, WaitingIsAnswerable, OnlyPhases
  PROVE  (Driver /\ WaitingIsAnswerable)'
<1>1. Broker'
  BY DEF OnlyPhases, disk, Driver, Broker, TypeOK, BrokerConsistent, AnswerMatchesRow
<1>2. DriverConsistent'
  BY DEF OnlyPhases, disk, Driver, Broker, TypeOK, DriverConsistent, Gated, Undispatched
<1>3. WaitingIsAnswerable'
  BY DEF OnlyPhases, disk, WaitingIsAnswerable
<1> QED
  BY <1>1, <1>2, <1>3 DEF Driver

(* A call that the host has not taken, or an answer, changes no run.       *)
LEMMA NetworkKeepsDriver ==
  ASSUME Driver, WaitingIsAnswerable, UNCHANGED vars
  PROVE  (Driver /\ WaitingIsAnswerable)'
BY DriverStep, WaitingStep DEF Waiting, Driver

(* A step of a single host, for the runs of the worker.                    *)
LEMMA HostKeepsDriver ==
  ASSUME Driver, WaitingIsAnswerable, Next
  PROVE  (Driver /\ WaitingIsAnswerable)'
BY DriverStep, WaitingStep DEF Waiting, Driver

(* A call that is no claim names a run of the worker.                      *)
LEMMA CallRuns ==
  /\ \A c \in Calls \ Claims : c.run \in Remote
  /\ \A t \in Remote, a \in Approval : Ask(t, a).run = t
  /\ \A t \in Remote, op \in {"complete", "fail"} : Report(op, t).run = t
BY DEF Ask, Report, Asks, Reports, Calls

-----------------------------------------------------------------------------
(* The routes of the host.                                                 *)

(* A run that is handed out has no driver and no approval.                 *)
LEMMA ClaimKeepsAskInv ==
  ASSUME WInv, AskInv, NEW c \in Claims, HostTakesClaim(c)
  PROVE  AskInv'
<1>1. /\ UNCHANGED exec /\ outbox' = outbox \ {c}
      /\ \A u \in Remote : started'[u] >= started[u]
  BY DEF HostTakesClaim, Answer, HandOut, vars, disk, memory, AskInv, Driver, Broker, TypeOK
<1>2. Launched'
  <2>1. \A u \in Remote : started[u] \in Nat /\ started'[u] \in Nat
    BY DEF HostTakesClaim, HandOut, vars, disk, AskInv, Driver, Broker, TypeOK
  <2> QED
    BY <1>1, <2>1, CallRuns DEF AskInv, Launched, WInv, WorkerTypeOK
<1>3. CASE UNCHANGED vars
  BY <1>2, <1>3, NetworkKeepsDriver DEF AskInv
<1>4. ASSUME NEW t \in Remote, HandOut(t) PROVE AskInv'
  <2> USE <1>4 DEF AskInv, Driver, Broker, TypeOK, HandOut
  <2>1. TypeOK'
    BY <1>1 DEF Statuses
  <2>2. (BrokerConsistent /\ AnswerMatchesRow)'
    BY SameBroker
  <2>3. DriverConsistent'
    BY <1>1 DEF DriverConsistent, Gated, Undispatched, QueuedRemote
  <2>4. WaitingIsAnswerable'
    BY DEF WaitingIsAnswerable
  <2> QED
    BY <1>2, <2>1, <2>2, <2>3, <2>4
<1> QED
  BY <1>3, <1>4 DEF HostTakesClaim

(* A report, however late, finds a run that was started.                   *)
LEMMA ReportKeepsAskInv ==
  ASSUME WInv, AskInv, NEW c \in Reports, HostTakesReport(c)
  PROVE  AskInv'
<1>1. /\ c.run \in Remote /\ started[c.run] > 0
      /\ UNCHANGED <<before, row, owner, started, memory, restarts>>
      /\ outbox' = outbox \ {c}
  BY CallKinds DEF HostTakesReport, Answer, AskInv, Launched
<1>2. \/ UNCHANGED status
      \/ \E s \in Terminal : status' = [status EXCEPT ![c.run] = s]
  BY <1>1 DEF HostTakesReport, markTaskFailed, Terminal, AskInv, Driver, Broker, TypeOK
<1> USE DEF AskInv
<1>3. TypeOK'
  BY <1>1, <1>2 DEF Driver, Broker, TypeOK, memory, Statuses, Terminal
<1>4. (BrokerConsistent /\ AnswerMatchesRow)'
  BY <1>1, SameBroker DEF Driver, memory
<1>5. DriverConsistent'
  BY <1>1, <1>2 DEF Driver, Broker, TypeOK, DriverConsistent, Gated, Undispatched, memory,
                    Terminal
<1>6. WaitingIsAnswerable'
  BY <1>1, <1>2 DEF Driver, Broker, TypeOK, WaitingIsAnswerable, memory, Terminal
<1>7. Launched'
  BY <1>1 DEF Launched, memory
<1> QED
  BY <1>3, <1>4, <1>5, <1>6, <1>7 DEF Driver, Broker

(* So does a request for an approval: the run is not waiting for its       *)
(* driver, and one that is over is refused.                                *)
LEMMA AskKeepsAskInv ==
  ASSUME WInv, AskInv, NEW t \in Remote, NEW a \in Approval, HostTakesAsk(t, a)
  PROVE  AskInv'
<1>1. started[t] > 0 /\ outbox' = outbox \ {Ask(t, a)}
  BY CallKinds, CallRuns DEF HostTakesAsk, AskInv, Launched
<1>2. UNCHANGED <<before, started, gate, exec, clock, cancels, restarts>>
  BY DEF HostTakesAsk
<1>3. Launched'
  BY <1>1, <1>2 DEF AskInv, Launched
<1>4. CASE isTerminal(t)
  <2>1. UNCHANGED vars
    BY <1>2, <1>4 DEF HostTakesAsk, vars, disk, memory
  <2> QED
    BY <1>3, <2>1, NetworkKeepsDriver DEF AskInv
<1>5. CASE OpenApproval(t, a)
  <2> USE <1>5 DEF AskInv, Driver, Broker
  <2>1. TypeOK'
    BY <1>2 DEF TypeOK, OpenApproval, Statuses, Rows, Answers
  <2>2. (BrokerConsistent /\ AnswerMatchesRow)'
    BY OpenKeepsBroker
  <2>3. DriverConsistent'
    BY <1>1, <1>2 DEF TypeOK, OpenApproval, DriverConsistent, Gated, Undispatched
  <2>4. WaitingIsAnswerable'
    BY <1>2 DEF TypeOK, BrokerConsistent, OpenApproval, WaitingIsAnswerable
  <2> QED
    BY <1>3, <2>1, <2>2, <2>3, <2>4
<1>6. CASE BlockApproval(t, a)
  <2> USE <1>6 DEF AskInv, Driver, Broker
  <2>1. TypeOK'
    BY <1>2 DEF TypeOK, BlockApproval, Rows, Answers, Decisions
  <2>2. (BrokerConsistent /\ AnswerMatchesRow)'
    BY BlockKeepsBroker
  <2>3. DriverConsistent'
    BY <1>1, <1>2 DEF TypeOK, BlockApproval, DriverConsistent, Gated, Undispatched
  <2>4. WaitingIsAnswerable'
    BY <1>2 DEF TypeOK, BrokerConsistent, BlockApproval, WaitingIsAnswerable
  <2> QED
    BY <1>3, <2>1, <2>2, <2>3, <2>4
<1> QED
  BY <1>4, <1>5, <1>6 DEF HostTakesAsk

-----------------------------------------------------------------------------
(* The worker.                                                             *)

(* A run the worker begins was handed out.                                 *)
LEMMA BeginKeepsAskInv ==
  ASSUME WInv, AskInv, NEW r \in answers, ClaimReturns(r)
  PROVE  AskInv'
<1>1. /\ r.says \in Remote \cup {NoTask}
      /\ r.says # NoTask => started[r.says] > 0
  BY CallKinds, AnswerKinds
  DEF ClaimReturns, WInv, WorkerTypeOK, TypeOK, Turns, OneAnswer
<1>2. OnlyPhases
  BY <1>1 DEF ClaimReturns, OnlyPhases, AskInv, Driver, Broker, TypeOK, Phases
<1>3. Launched'
  BY <1>1, CallRuns DEF ClaimReturns, disk, AskInv, Launched, Driver, Broker, TypeOK
<1> QED
  BY <1>2, <1>3, PhasesKeepDriver DEF AskInv

(* An end, a failed or answered report, a stop, a poll.                    *)
LEMMA RunKeepsAskInv ==
  ASSUME WInv, AskInv, NEW t \in Remote,
         \/ RunEnds(t) \/ StopsUnreported(t) \/ PollReturns(t)
  PROVE  AskInv'
<1>1. OnlyPhases
  BY DEF RunEnds, StopsUnreported, PollReturns, OnlyPhases, AskInv, Launched, Driver, Broker,
         TypeOK, Phases
<1>2. Launched'
  BY CallRuns DEF RunEnds, StopsUnreported, PollReturns, Send, disk, netVars, AskInv, Launched,
                  Driver, Broker, TypeOK
<1> QED
  BY <1>1, <1>2, PhasesKeepDriver DEF AskInv

LEMMA ReportEndsKeepAskInv ==
  ASSUME WInv, AskInv, NEW c \in Reports,
         ReportFails(c) \/ (\E r \in answers : r.call = c /\ ReportReturns(r))
  PROVE  AskInv'
<1>1. c.run \in Remote /\ started[c.run] > 0
  BY CallKinds DEF ReportFails, ReportReturns, WInv, WorkerTypeOK, Turns, OneCall, AskInv,
                   Launched
<1>2. OnlyPhases
  BY <1>1 DEF ReportFails, ReportReturns, OnlyPhases, AskInv, Driver, Broker, TypeOK, Phases
<1>3. Launched'
  BY <1>1, CallRuns DEF ReportFails, ReportReturns, disk, AskInv, Launched, Driver, Broker,
                        TypeOK
<1> QED
  BY <1>2, <1>3, PhasesKeepDriver DEF AskInv

LEMMA DeathKeepsAskInv ==
  ASSUME AskInv, WorkerDies
  PROVE  AskInv'
<1>1. OnlyPhases
  BY DEF WorkerDies, OnlyPhases, AskInv, Launched, Driver, Broker, TypeOK, Phases
<1>2. Launched'
  BY DEF WorkerDies, disk, AskInv, Launched
<1> QED
  BY <1>1, <1>2, PhasesKeepDriver DEF AskInv

(* Calls that are sent, and what is lost on the way.                       *)
LEMMA MessagesKeepAskInv ==
  ASSUME AskInv,
         \/ \E s \in Slot : SendClaim(s)
         \/ \E c \in Claims : ClaimFails(c)
         \/ \E t \in Remote, a \in Approval : AgentAsks(t, a)
         \/ \E t \in Remote : PollTaken(t)
         \/ MessageLost
         \/ UNCHANGED allVars
  PROVE  AskInv'
<1>1. UNCHANGED vars
  BY DEF SendClaim, ClaimFails, AgentAsks, PollTaken, MessageLost, allVars
<1>2. \A c \in outbox' \ outbox : c \in Claims \/ started[c.run] > 0
  BY CallKinds, CallRuns DEF SendClaim, ClaimFails, AgentAsks, PollTaken, MessageLost, Send,
     allVars, workerVars, netVars, AskInv, Launched
<1>3. Launched'
  BY <1>1, <1>2 DEF AskInv, Launched, vars, disk, memory
<1> QED
  BY <1>1, <1>3, NetworkKeepsDriver DEF AskInv

-----------------------------------------------------------------------------
(* The host beside the worker's calls.                                     *)

LEMMA HostKeepsAskInv ==
  ASSUME WInv, AskInv,
         HostSteps \/ \E a \in Approval, approved \in BOOLEAN : PersonDecides(a, approved)
  PROVE  AskInv'
<1>1. Next
  BY HostStepsAreRunSteps DEF PersonDecides, Next
<1>2. UNCHANGED outbox /\ \A t \in Remote : exec'[t] = exec[t] /\ started'[t] = started[t]
  <2>1. CASE HostSteps
    BY <2>1, HostStepsEffect
    DEF HostSteps, HostEffect, workerVars, netVars, WInv, Begins, AskInv, Driver, Broker
  <2>2. CASE \E a \in Approval, approved \in BOOLEAN : PersonDecides(a, approved)
    BY <2>2 DEF PersonDecides, resolveApproval, netVars
  <2> QED
    BY <2>1, <2>2
<1>3. Launched'
  BY <1>2, CallKinds DEF WInv, WorkerTypeOK, Calls, Reports, Asks, AskInv, Launched
<1> QED
  BY <1>1, <1>3, HostKeepsDriver DEF AskInv

-----------------------------------------------------------------------------
(* The theorems.                                                           *)

LEMMA AskInvStep == WInv /\ AskInv /\ [WorkerNext]_allVars => AskInv'
<1> SUFFICES ASSUME WInv, AskInv, [WorkerNext]_allVars PROVE AskInv'
  OBVIOUS
<1>1. ASSUME NEW r \in answers, ReportReturns(r) PROVE AskInv'
  <2>1. r.call \in Reports
    BY <1>1, CallKinds, AnswerKinds DEF ReportReturns, WInv, WorkerTypeOK
  <2> QED
    BY <1>1, <2>1, ReportEndsKeepAskInv
<1> QED
  BY <1>1, ClaimKeepsAskInv, ReportKeepsAskInv, AskKeepsAskInv, BeginKeepsAskInv,
     RunKeepsAskInv, ReportEndsKeepAskInv, DeathKeepsAskInv, MessagesKeepAskInv, HostKeepsAskInv
  DEF WorkerNext

LEMMA AskInvariance == WorkerSpec => [](WInv /\ AskInv)
<1>1. WorkerInit => AskInv
  BY TypeInit DEF WorkerInit, Init, AskInv, Launched, Driver, Broker, BrokerConsistent,
                  AnswerMatchesRow, DriverConsistent, Undispatched, WaitingIsAnswerable
<1> QED
  BY <1>1, WorkerInvariance, AskInvStep, PTL DEF WorkerSpec

(* Whatever calls are lost or late, what a person can still decide is what *)
(* somebody waits for, and it expires.                                     *)
THEOREM WorkerBrokerHolds == WorkerSpec => []BrokerConsistent
<1>1. AskInv => BrokerConsistent
  BY DEF AskInv, Driver, Broker
<1> QED
  BY <1>1, AskInvariance, PTL

(* No run of a worker waits for an approval that nobody can give or refuse *)
(* any more, though requests for approvals arrive after the run was told   *)
(* to stop, after its report and after the worker's death.                 *)
THEOREM WorkerWaits == WorkerSpec => []WaitingIsAnswerable
<1>1. AskInv => WaitingIsAnswerable
  BY DEF AskInv
<1> QED
  BY <1>1, AskInvariance, PTL

(* A run whose preflight is open meets no call of the worker, not a late   *)
(* one either.                                                             *)
THEOREM WorkerLeavesGated == WorkerSpec => []DriverConsistent
<1>1. AskInv => DriverConsistent
  BY DEF AskInv, Driver
<1> QED
  BY <1>1, AskInvariance, PTL

LEMMA ConsentOfCall == WInv /\ AskInv /\ [WorkerNext]_allVars => ConsentStep
<1> SUFFICES ASSUME WInv, AskInv, [WorkerNext]_allVars PROVE ConsentStep
  OBVIOUS
<1>1. CASE Next
  BY <1>1, ConsentOfStep DEF AskInv
<1>2. ASSUME NEW c \in Claims, HostTakesClaim(c) PROVE ConsentStep
  <2>1. CASE UNCHANGED vars
    BY <2>1 DEF vars, disk, ConsentStep
  <2>2. ASSUME NEW t \in Remote, HandOut(t) PROVE ConsentStep
    BY <2>2 DEF HandOut, QueuedRemote, ConsentStep, AskInv, Driver, Broker, TypeOK,
                DriverConsistent, Undispatched
  <2> QED
    BY <1>2, <2>1, <2>2 DEF HostTakesClaim
<1>3. CASE UNCHANGED started
  BY <1>3 DEF ConsentStep
<1>4. ASSUME NEW c, \/ SendClaim(c) \/ ClaimFails(c) \/ ReportFails(c) \/ HostTakesReport(c)
                    \/ ClaimReturns(c) \/ ReportReturns(c) \/ RunEnds(c)
                    \/ StopsUnreported(c) \/ PollTaken(c) \/ PollReturns(c)
                    \/ \E a \in Approval : AgentAsks(c, a) \/ HostTakesAsk(c, a)
      PROVE  UNCHANGED started
  BY <1>4 DEF SendClaim, ClaimFails, ReportFails, HostTakesReport, ClaimReturns, ReportReturns,
              RunEnds, StopsUnreported, PollTaken, PollReturns, AgentAsks, HostTakesAsk, vars,
              disk
<1>5. ASSUME MessageLost \/ WorkerDies \/ UNCHANGED allVars PROVE UNCHANGED started
  BY <1>5 DEF MessageLost, WorkerDies, allVars, vars, disk
<1>6. ASSUME HostSteps \/ \E a \in Approval, approved \in BOOLEAN : PersonDecides(a, approved)
      PROVE  Next
  BY <1>6, HostStepsAreRunSteps DEF PersonDecides, Next
<1> QED
  BY <1>1, <1>2, <1>3, <1>4, <1>5, <1>6 DEF WorkerNext

(* The consent of TaskLifecycle survives the network: no claim, late or    *)
(* repeated, starts a run without every approval it asked for.             *)
THEOREM WorkerNeedsConsent == WorkerSpec => StartNeedsConsent
<1>1. WInv /\ AskInv /\ [WorkerNext]_allVars => [ConsentStep]_vars
  BY ConsentOfCall
<1>2. WorkerSpec => [][ConsentStep]_vars
  BY <1>1, AskInvariance, PTL DEF WorkerSpec
<1> QED
  BY <1>2 DEF StartNeedsConsent, ConsentStep

-----------------------------------------------------------------------------
(* The desk.                                                               *)

LEMMA DeskOfCall == WInv /\ AskInv /\ [WorkerNext]_allVars => [Desk!Next]_(Desk!vars)
<1> SUFFICES ASSUME WInv, AskInv, [WorkerNext]_allVars PROVE [Desk!Next]_(Desk!vars)
  OBVIOUS
<1> DEFINE Goal == [Desk!Next]_(Desk!vars)
<1>1. CASE Next
  BY <1>1, DeskStep DEF AskInv, Driver
<1>2. ASSUME NEW t \in Remote, NEW a \in Approval, HostTakesAsk(t, a) PROVE Goal
  <2>1. CASE isTerminal(t)
    BY <1>2, <2>1, DeskStutter DEF HostTakesAsk
  <2>2. CASE OpenApproval(t, a)
    BY <2>2, DeskAsk DEF AskInv, Driver, Desk!Next
  <2>3. CASE BlockApproval(t, a)
    BY <2>3, DeskRefuse DEF AskInv, Driver, Desk!Next
  <2> QED
    BY <1>2, <2>1, <2>2, <2>3 DEF HostTakesAsk
<1>3. CASE UNCHANGED <<row, answer>>
  BY <1>3, DeskStutter
<1>4. ASSUME NEW c, \/ SendClaim(c) \/ ClaimFails(c) \/ ReportFails(c) \/ HostTakesReport(c)
                    \/ ClaimReturns(c) \/ ReportReturns(c) \/ RunEnds(c)
                    \/ StopsUnreported(c) \/ PollTaken(c) \/ PollReturns(c)
                    \/ HostTakesClaim(c) \/ \E a \in Approval : AgentAsks(c, a)
      PROVE  UNCHANGED <<row, answer>>
  BY <1>4 DEF SendClaim, ClaimFails, ReportFails, HostTakesReport, ClaimReturns, ReportReturns,
              RunEnds, StopsUnreported, PollTaken, PollReturns, AgentAsks, HostTakesClaim,
              HandOut, vars, disk, memory
<1>5. ASSUME MessageLost \/ WorkerDies \/ UNCHANGED allVars PROVE UNCHANGED <<row, answer>>
  BY <1>5 DEF MessageLost, WorkerDies, allVars, vars, disk, memory
<1>6. ASSUME HostSteps \/ \E a \in Approval, approved \in BOOLEAN : PersonDecides(a, approved)
      PROVE  Next
  BY <1>6, HostStepsAreRunSteps DEF PersonDecides, Next
<1> QED
  BY <1>1, <1>2, <1>3, <1>4, <1>5, <1>6 DEF WorkerNext

(* The refinement survives the network: every request that reaches the     *)
(* host is opened once and closed once, and its asker is told in the same  *)
(* step what was recorded.                                                 *)
THEOREM WorkerDeskHolds == WorkerSpec => DeskSafe
BY DeskInit, DeskOfCall, AskInvariance, PTL DEF WorkerSpec, WorkerInit, DeskSafe, Desk!SafeSpec
=============================================================================
