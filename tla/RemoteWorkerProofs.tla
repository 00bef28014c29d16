------------------------- MODULE RemoteWorkerProofs -------------------------
(***************************************************************************)
(* What holds of the runs of a worker whatever is lost on its connections, *)
(* for any number of runs, claims, cancellations and restarts.             *)
(***************************************************************************)
EXTENDS RemoteWorker, TaskLifecycleProofs

USE ConstantsAssumption, WorkerAssumption

(* A run that was not handed out has not started, and no run has twice. *)
Fresh == \A t \in Remote : status[t] \in {"none", "queued"} => started[t] = 0

Owners == \A a \in Approval : owner[a] \in Remote \cup {NoTask}

(* The worker waits for one answer at a time. *)
OneCall == /\ \A c, d \in awaited : c = d
           /\ \A c \in awaited \cap Reports : exec[c.run] = "reported"

(* There is one answer at most, and a run it hands out is not begun yet. *)
OneAnswer ==
  /\ \A r, q \in answers : r = q
  /\ \A r \in answers : r.call \in Claims =>
       /\ r.call \notin outbox
       /\ r.says # NoTask => begun[r.says] < started[r.says]

(* The run is over, or a fault was there. *)
Over(t) == isTerminal(t) \/ t \in touched

(* What the worker takes for the end of a run is its end. *)
Ends ==
  /\ \A r \in answers : r.call \in Reports => Over(r.call.run)
  /\ \A t \in Remote : exec[t] = "stopping" \/ t \in polled => Over(t)
  /\ \A c \in outbox \cap Reports : exec[c.run] # "off" \/ Over(c.run)

Begins == Fresh /\ Owners /\ BegunOnce
Turns == OneAtATime /\ OneCall /\ OneAnswer
Closes == AbandonedOnlyByFault /\ Ends

WInv == WorkerTypeOK /\ Begins /\ Turns /\ Closes

-----------------------------------------------------------------------------
(* Calls.                                                                  *)

(* A claim is not a report. *)
LEMMA CallKinds ==
  /\ \A c \in Claims : c \in Calls /\ c \notin Reports /\ c.op = "claim"
  /\ \A c \in Reports : /\ c \in Calls /\ c \notin Claims /\ c.op \in {"complete", "fail"}
                        /\ c.run \in Remote /\ c = Report(c.op, c.run)
  /\ \A t \in Remote, op \in {"complete", "fail"} :
       Report(op, t) \in Reports /\ Report(op, t).run = t /\ Report(op, t).op = op
  /\ \A s \in Slot : Claim(s) \in Claims
  /\ \A t \in Remote, a \in Approval :
       Ask(t, a) \in Calls /\ Ask(t, a) \notin Claims /\ Ask(t, a) \notin Reports
BY DEF Claims, Reports, Asks, Calls, Claim, Report, Ask

(* An answer to a claim names a run or none, one to a report neither. *)
LEMMA AnswerKinds ==
  /\ \A r \in Results : \/ r.call \in Claims /\ r.says \in Remote \cup {NoTask}
                        \/ r.call \in Reports /\ r.says = "ok"
  /\ \A r, q \in Results : r.call = q.call /\ r.says = q.says => r = q
  /\ \A c \in Claims, t \in Remote \cup {NoTask} : [call |-> c, says |-> t] \in Results
  /\ \A c \in Reports : [call |-> c, says |-> "ok"] \in Results
BY DEF Results

(* The runs the answers on their way hand out. *)
LEMMA HandedOutIs ==
  ASSUME answers \subseteq Results, NEW c, NEW t \in Remote
  PROVE  t \in HandedOut(c) <=> \E r \in answers : r.call = c /\ c \in Claims /\ r.says = t
BY AnswerKinds, CallKinds DEF HandedOut

-----------------------------------------------------------------------------
(* The host beside the worker's calls.                                     *)

(* What the host does to a run without the worker. *)
HostEffect ==
  \A t \in Remote : /\ exec'[t] = exec[t] /\ started'[t] = started[t]
                    /\ status'[t] \in {"none", "queued"} => status[t] \in {"none", "queued"}
                    /\ isTerminal(t) => isTerminal(t)'

LEMMA HostStepsAreRunSteps == HostSteps => Next
BY DEF HostSteps, Next

LEMMA HostStepsEffect ==
  ASSUME TypeOK, Owners, HostSteps
  PROVE  HostEffect /\ Owners'
<1> DEFINE Goal == HostEffect /\ Owners'
<1> USE DEF TypeOK, Owners, HostEffect, isTerminal, Terminal
<1>1. ASSUME NEW t \in Remote, CreateRun(t) PROVE Goal
  BY <1>1 DEF CreateRun
<1>2. ASSUME NEW t \in Remote, NEW a \in Approval, CreateRunWithPreflight(t, a) PROVE Goal
  BY <1>2 DEF CreateRunWithPreflight, OpenApproval
<1>3. ASSUME NEW t \in Remote, PreflightGranted(t) \/ PreflightDenied(t) PROVE Goal
  BY <1>3 DEF PreflightGranted, PreflightDenied, markTaskFailed
<1>4. ASSUME NEW t \in Remote, CancelBegins(t) \/ CancelEnds(t) PROVE Goal
  BY <1>4 DEF CancelBegins, CancelEnds, Interrupt
<1>5. ASSUME NEW a \in Approval, ApprovalTimeout(a) PROVE Goal
  BY <1>5 DEF ApprovalTimeout, Interrupt, markTaskFailed
<1>6. ASSUME Restart PROVE Goal
  BY <1>6 DEF Restart
<1> HIDE DEF TypeOK, Owners, HostEffect, isTerminal, Terminal
<1> QED
  BY <1>1, <1>2, <1>3, <1>4, <1>5, <1>6 DEF HostSteps

LEMMA HostStepsKeepInv ==
  ASSUME WInv, HostSteps
  PROVE  WInv'
<1>1. TypeOK /\ Owners /\ TypeOK' /\ UNCHANGED workerVars
  BY HostStepsAreRunSteps, TypeStep DEF WInv, WorkerTypeOK, Begins, HostSteps
<1>2. HostEffect /\ Owners'
  BY <1>1, HostStepsEffect
<1> USE DEF WInv, workerVars, netVars
<1>3. WorkerTypeOK'
  BY <1>1 DEF WorkerTypeOK
<1>4. Begins'
  BY <1>1, <1>2 DEF Begins, Fresh, BegunOnce, HostEffect
<1>5. Turns'
  <2>1. OneAtATime'
    BY <1>1, <1>2 DEF Turns, OneAtATime, WorkersIdle, HostEffect
  <2>2. OneCall'
    BY <1>1, <1>2, CallKinds DEF Turns, OneCall, HostEffect
  <2>3. OneAnswer'
    BY <1>1, <1>2, AnswerKinds, CallKinds DEF Turns, OneAnswer, HostEffect, WorkerTypeOK
  <2> QED
    BY <2>1, <2>2, <2>3 DEF Turns
<1>6. Closes'
  <2>1. Underway' = Underway
    BY <1>1, <1>2 DEF Underway, HandedOut, HostEffect
  <2>2. AbandonedOnlyByFault'
    BY <1>1, <1>2, <2>1 DEF Closes, AbandonedOnlyByFault, HostEffect
  <2>3. Ends'
    BY <1>1, <1>2, AnswerKinds, CallKinds DEF Closes, Ends, Over, HostEffect, WorkerTypeOK
  <2> QED
    BY <2>2, <2>3 DEF Closes
<1> QED
  BY <1>3, <1>4, <1>5, <1>6

(* A decision for a run that is over is a fault from here on. *)
LEMMA DecisionKeepsInv ==
  ASSUME WInv, NEW a \in Approval, NEW approved \in BOOLEAN, PersonDecides(a, approved)
  PROVE  WInv'
<1>1. TypeOK /\ TypeOK' /\ owner[a] \in Remote
  <2>1. Next
    BY DEF PersonDecides, Next
  <2>2. row[a] = "pending"
    BY DEF PersonDecides, resolveApproval
  <2> QED
    BY <2>1, <2>2, TypeStep DEF WInv, WorkerTypeOK, TypeOK, Begins, Owners
<1>2. /\ UNCHANGED <<netVars, begun, owner, started, exec>>
      /\ status' = [status EXCEPT ![owner[a]] = "running"]
      /\ touched' = IF isTerminal(owner[a]) THEN touched \cup {owner[a]} ELSE touched
  BY DEF PersonDecides, resolveApproval
<1>3. \A u \in Remote : Over(u) => Over(u)'
  BY <1>1, <1>2 DEF Over, isTerminal, TypeOK
<1> USE DEF WInv, netVars
<1>4. WorkerTypeOK'
  BY <1>1, <1>2 DEF WorkerTypeOK
<1>5. Begins'
  BY <1>1, <1>2 DEF Begins, Fresh, Owners, BegunOnce, TypeOK
<1>6. Turns'
  BY <1>1, <1>2 DEF Turns, OneAtATime, WorkersIdle, OneCall, OneAnswer
<1>7. Closes'
  <2>1. Underway' = Underway
    BY <1>1, <1>2 DEF Underway, HandedOut
  <2>2. AbandonedOnlyByFault'
    BY <1>1, <1>2, <2>1 DEF Closes, AbandonedOnlyByFault, isTerminal, TypeOK
  <2>3. Ends'
    BY <1>1, <1>2, <1>3, AnswerKinds, CallKinds DEF Closes, Ends, WorkerTypeOK
  <2> QED
    BY <2>2, <2>3 DEF Closes
<1> QED
  BY <1>4, <1>5, <1>6, <1>7
-----------------------------------------------------------------------------
(* Claims.                                                                 *)

(* A claim is sent.                                                        *)
LEMMA SendClaimKeepsInv ==
  ASSUME WInv, NEW s \in Slot, SendClaim(s)
  PROVE  WInv'
<1> USE DEF WInv
<1>1. WorkerTypeOK'
  BY CallKinds DEF WorkerTypeOK, TypeOK, SendClaim, Send, vars, disk, memory
<1>2. Begins'
  BY DEF Begins, Fresh, Owners, BegunOnce, SendClaim, vars, disk
<1>3. Turns'
  <2>1. OneAtATime'
    BY DEF OneAtATime, WorkersIdle, SendClaim, vars, memory
  <2>2. OneCall'
    BY CallKinds DEF OneCall, SendClaim, Send
  <2>3. OneAnswer'
    BY DEF OneAnswer, WorkerTypeOK, SendClaim
  <2> QED
    BY <2>1, <2>2, <2>3 DEF Turns
<1>4. Closes'
  <2>1. \A u \in Remote : Over(u) => Over(u)'
    BY DEF Over, isTerminal, SendClaim, vars, disk
  <2>2. AbandonedOnlyByFault'
    BY <2>1 DEF Closes, Over, AbandonedOnlyByFault, Underway, SendClaim, Send, vars, disk,
       memory
  <2>3. Ends'
    BY CallKinds, <2>1 DEF Closes, Ends, SendClaim, Send, vars, memory
  <2> QED
    BY <2>2, <2>3 DEF Closes
<1> QED
  BY <1>1, <1>2, <1>3, <1>4

(* A claim reaches the host, whether or not the worker still waits.        *)
LEMMA HostTakesClaimKeepsInv ==
  ASSUME WInv, NEW c \in Claims, HostTakesClaim(c)
  PROVE  WInv'
<1> USE DEF WInv
<1>1. WorkerTypeOK'
  BY AnswerKinds DEF WorkerTypeOK, TypeOK, HostTakesClaim, Answer, HandOut, vars, disk,
     memory, Statuses
<1>2. Begins'
  BY CallKinds, AnswerKinds DEF Begins, Fresh, Owners, BegunOnce, WorkerTypeOK, TypeOK,
     HostTakesClaim, Answer, HandOut, QueuedRemote, vars, disk, memory, netVars
<1>3. Turns'
  <2>1. OneAtATime'
    BY DEF Turns, OneAtATime, WorkersIdle, HostTakesClaim, vars, memory
  <2>2. OneCall'
    BY DEF Turns, OneCall, HostTakesClaim, vars, memory
  <2>3. OneAnswer'
    BY CallKinds, AnswerKinds DEF Turns, OneCall, OneAnswer, OneAtATime, Begins, Fresh,
       BegunOnce, WorkersIdle, WorkerTypeOK, TypeOK, HostTakesClaim, Answer, HandOut,
       QueuedRemote, vars, disk, memory, netVars
  <2> QED
    BY <2>1, <2>2, <2>3 DEF Turns
<1>4. Closes'
  <2>1. \A u \in Remote : Over(u) => Over(u)'
    BY DEF WorkerTypeOK, TypeOK, Over, isTerminal, Terminal, HostTakesClaim, HandOut,
       QueuedRemote, vars, disk
  <2>2. AbandonedOnlyByFault'
    <3> SUFFICES ASSUME NEW t \in Remote, started'[t] > 0, t \notin Underway', t \notin touched'
                 PROVE  isTerminal(t)'
      BY DEF AbandonedOnlyByFault
    <3>0. answers \subseteq Results /\ answers' \subseteq Results
      BY <1>1 DEF WorkerTypeOK
    <3>1. /\ exec' = exec /\ awaited' = awaited /\ outbox' = outbox \ {c}
          /\ answers \subseteq answers' /\ touched \subseteq touched'
      BY DEF HostTakesClaim, Answer, vars, memory
    <3>2. t \notin Underway
      BY <3>1, CallKinds DEF Underway, HandedOut
    <3>3. ~isTerminal(t) => started[t] = 0
      BY <3>1, <3>2 DEF Closes, AbandonedOnlyByFault, WorkerTypeOK, TypeOK
    <3>4. CASE UNCHANGED vars
      BY <3>3, <3>4 DEF vars, disk, isTerminal
    <3>5. CASE \E u \in Remote :
                 /\ HandOut(u) /\ Answer(c, u)
                 /\ touched' = IF c \in awaited THEN touched ELSE touched \cup {u}
      <4>1. PICK u \in Remote : /\ HandOut(u) /\ Answer(c, u)
                                /\ touched' = IF c \in awaited THEN touched ELSE touched \cup {u}
        BY <3>5
      <4>2. CASE t = u
        <5>1. c \in awaited /\ [call |-> c, says |-> t] \in answers'
          BY <4>1, <4>2 DEF Answer
        <5>2. t \in HandedOut(c)'
          BY <5>1 DEF HandedOut
        <5> QED
          BY <5>1, <5>2, <3>1 DEF Underway
      <4>3. CASE t # u
        BY <4>1, <4>3, <3>3 DEF HandOut, isTerminal
      <4> QED
        BY <4>2, <4>3
    <3> QED
      BY <3>4, <3>5 DEF HostTakesClaim, Answer
  <2>3. Ends'
    BY CallKinds, <2>1 DEF Closes, Ends, HostTakesClaim, Answer, vars, memory
  <2> QED
    BY <2>2, <2>3 DEF Closes
<1> QED
  BY <1>1, <1>2, <1>3, <1>4

(* A claim fails.                                                          *)
LEMMA ClaimFailsKeepsInv ==
  ASSUME WInv, NEW c \in Claims, ClaimFails(c)
  PROVE  WInv'
<1> USE DEF WInv
<1>1. WorkerTypeOK'
  <2>1. touched' \subseteq Remote
    BY DEF ClaimFails, HandedOut, WorkerTypeOK
  <2> QED
    BY <2>1 DEF WorkerTypeOK, TypeOK, ClaimFails, Return, vars, disk, memory
<1>2. Begins'
  BY DEF Begins, Fresh, Owners, BegunOnce, ClaimFails, vars, disk
<1>3. Turns'
  <2>1. OneAtATime'
    BY DEF Turns, OneAtATime, WorkersIdle, ClaimFails, vars, memory
  <2>2. OneCall'
    BY DEF Turns, OneCall, ClaimFails, Return
  <2>3. OneAnswer'
    BY DEF Turns, OneCall, OneAnswer, WorkerTypeOK, ClaimFails, Return
  <2> QED
    BY <2>1, <2>2, <2>3 DEF Turns
<1>4. Closes'
  <2>1. \A u \in Remote : Over(u) => Over(u)'
    BY DEF Over, isTerminal, ClaimFails, vars, disk
  <2>2. AbandonedOnlyByFault'
    BY DEF Closes, AbandonedOnlyByFault, Underway, HandedOut, isTerminal, ClaimFails, Return,
       vars, disk, memory
  <2>3. Ends'
    BY CallKinds, <2>1 DEF Closes, Ends, ClaimFails, Return, vars, memory
  <2> QED
    BY <2>2, <2>3 DEF Closes
<1> QED
  BY <1>1, <1>2, <1>3, <1>4

(* A claim is answered.                                                    *)
LEMMA ClaimReturnsKeepsInv ==
  ASSUME WInv, NEW r \in answers, ClaimReturns(r)
  PROVE  WInv'
<1> USE DEF WInv
<1>0. /\ r.call \in Claims /\ r.call \in awaited /\ r.says \in Remote \cup {NoTask}
      /\ r.says # NoTask => begun[r.says] < started[r.says]
  BY CallKinds, AnswerKinds DEF ClaimReturns, WorkerTypeOK, Turns, OneAnswer
<1>1. WorkerTypeOK'
  <2>1. TypeOK' /\ begun' \in [Remote -> Nat]
    BY DEF ClaimReturns, WorkerTypeOK, TypeOK, disk, Phases
  <2>2. outbox' \subseteq Calls /\ awaited' \subseteq Claims \cup Reports
    BY <1>0, CallKinds DEF ClaimReturns, WorkerTypeOK
  <2>3. answers' = {}
    BY DEF ClaimReturns, Turns, OneAnswer
  <2> QED
    BY <2>1, <2>2, <2>3 DEF ClaimReturns, WorkerTypeOK
<1>2. Begins'
  BY <1>0 DEF Begins, Fresh, Owners, BegunOnce, ClaimReturns, WorkerTypeOK, TypeOK, disk
<1>3. Turns'
  <2>1. OneAtATime'
    BY CallKinds DEF Turns, OneAtATime, OneCall, WorkersIdle, WorkerTypeOK, TypeOK, ClaimReturns
  <2>2. OneCall'
    BY CallKinds, AnswerKinds DEF Turns, OneCall, WorkerTypeOK, TypeOK, ClaimReturns
  <2>3. OneAnswer'
    BY DEF Turns, OneAnswer, ClaimReturns
  <2> QED
    BY <2>1, <2>2, <2>3 DEF Turns
<1>4. Closes'
  <2>1. \A u \in Remote : Over(u) => Over(u)'
    BY DEF Over, isTerminal, ClaimReturns, disk
  <2>2. AbandonedOnlyByFault'
    BY HandedOutIs, <2>1 DEF Closes, Over, AbandonedOnlyByFault, Underway, Turns, OneAnswer,
       WorkerTypeOK, TypeOK, ClaimReturns, disk
  <2>3. Ends'
    BY CallKinds, AnswerKinds, <2>1 DEF Closes, Ends, WorkerTypeOK, TypeOK, ClaimReturns
  <2> QED
    BY <2>2, <2>3 DEF Closes
<1> QED
  BY <1>1, <1>2, <1>3, <1>4
-----------------------------------------------------------------------------
(* Reports.                                                                *)

(* A run ends and its report is posted.                                    *)
LEMMA RunEndsKeepsInv ==
  ASSUME WInv, NEW t \in Remote, RunEnds(t)
  PROVE  WInv'
<1> USE DEF WInv
<1>1. WorkerTypeOK'
  BY CallKinds DEF WorkerTypeOK, TypeOK, RunEnds, Send, disk, Phases
<1>2. Begins'
  BY DEF Begins, Fresh, Owners, BegunOnce, RunEnds, disk
<1>3. Turns'
  <2>1. OneAtATime'
    BY CallKinds DEF Turns, OneAtATime, WorkersIdle, RunEnds, Send
  <2>2. OneCall'
    BY CallKinds DEF Turns, OneAtATime, OneCall, WorkersIdle, WorkerTypeOK, TypeOK, RunEnds,
       Send, disk
  <2>3. OneAnswer'
    BY DEF Turns, OneAnswer, OneAtATime, WorkersIdle, WorkerTypeOK, RunEnds
  <2> QED
    BY <2>1, <2>2, <2>3 DEF Turns
<1>4. Closes'
  <2>1. \A u \in Remote : Over(u) => Over(u)'
    BY DEF Over, isTerminal, RunEnds, disk
  <2>2. AbandonedOnlyByFault'
    BY <2>1 DEF Closes, Over, AbandonedOnlyByFault, Underway, HandedOut, RunEnds, Send, disk
  <2>3. Ends'
    BY CallKinds, <2>1 DEF Closes, Ends, RunEnds, Send
  <2> QED
    BY <2>2, <2>3 DEF Closes
<1> QED
  BY <1>1, <1>2, <1>3, <1>4

(* A report reaches the host.                                              *)
LEMMA HostTakesReportKeepsInv ==
  ASSUME WInv, NEW c \in Reports, HostTakesReport(c)
  PROVE  WInv'
<1> USE DEF WInv
<1>1. WorkerTypeOK'
  BY CallKinds, AnswerKinds DEF WorkerTypeOK, TypeOK, HostTakesReport, Answer,
     markTaskFailed, memory, Statuses, Terminal
<1>2. Begins'
  BY DEF Begins, Fresh, Owners, BegunOnce, HostTakesReport, markTaskFailed
<1>3. Turns'
  <2>1. OneAtATime'
    BY DEF Turns, OneAtATime, WorkersIdle, HostTakesReport, memory
  <2>2. OneCall'
    BY DEF Turns, OneCall, HostTakesReport, memory
  <2>3. OneAnswer'
    BY CallKinds, AnswerKinds DEF Turns, OneCall, OneAnswer, Begins, BegunOnce, WorkerTypeOK,
       HostTakesReport, Answer, memory
  <2> QED
    BY <2>1, <2>2, <2>3 DEF Turns
<1>4. Closes'
  <2>1. \A u \in Remote : Over(u) => Over(u)'
    BY DEF Over, isTerminal, HostTakesReport, markTaskFailed
  <2>2. AbandonedOnlyByFault'
    BY CallKinds, <2>1 DEF Closes, Ends, Over, AbandonedOnlyByFault, Underway, HandedOut,
       HostTakesReport, Answer, memory
  <2>3. Ends'
    BY CallKinds DEF Closes, Ends, Over, WorkerTypeOK, TypeOK, isTerminal, Terminal,
       HostTakesReport, Answer, markTaskFailed, memory
  <2> QED
    BY <2>2, <2>3 DEF Closes
<1> QED
  BY <1>1, <1>2, <1>3, <1>4

(* A report is answered.                                                   *)
LEMMA ReportReturnsKeepsInv ==
  ASSUME WInv, NEW r \in answers, ReportReturns(r)
  PROVE  WInv'
<1> USE DEF WInv
<1>1. WorkerTypeOK'
  BY DEF WorkerTypeOK, TypeOK, ReportReturns, Return, disk, Phases
<1>2. Begins'
  BY DEF Begins, Fresh, Owners, BegunOnce, ReportReturns, disk
<1>3. Turns'
  <2>1. OneAtATime'
    BY DEF Turns, OneAtATime, WorkersIdle, ReportReturns, Return
  <2>2. OneCall'
    BY DEF Turns, OneCall, WorkerTypeOK, ReportReturns, Return
  <2>3. OneAnswer'
    BY DEF Turns, OneAnswer, ReportReturns, Return
  <2> QED
    BY <2>1, <2>2, <2>3 DEF Turns
<1>4. Closes'
  <2>1. \A u \in Remote : Over(u) => Over(u)'
    BY DEF Over, isTerminal, ReportReturns, disk
  <2>2. AbandonedOnlyByFault'
    BY CallKinds, HandedOutIs, <2>1 DEF Closes, Ends, Over, AbandonedOnlyByFault, Underway,
       Turns, OneAnswer, WorkerTypeOK, ReportReturns, disk
  <2>3. Ends'
    BY CallKinds, <2>1 DEF Closes, Ends, WorkerTypeOK, ReportReturns, Return
  <2> QED
    BY <2>2, <2>3 DEF Closes
<1> QED
  BY <1>1, <1>2, <1>3, <1>4

(* A report fails; its run met a fault.                                    *)
LEMMA ReportFailsKeepsInv ==
  ASSUME WInv, NEW c \in Reports, ReportFails(c)
  PROVE  WInv'
<1> USE DEF WInv
<1>1. WorkerTypeOK'
  BY CallKinds DEF WorkerTypeOK, TypeOK, ReportFails, disk, Phases
<1>2. Begins'
  BY DEF Begins, Fresh, Owners, BegunOnce, ReportFails, disk
<1>3. Turns'
  <2>1. OneAtATime'
    BY CallKinds DEF Turns, OneAtATime, WorkersIdle, WorkerTypeOK, TypeOK, ReportFails
  <2>2. OneCall'
    BY CallKinds DEF Turns, OneCall, ReportFails
  <2>3. OneAnswer'
    BY DEF Turns, OneCall, OneAnswer, WorkerTypeOK, ReportFails
  <2> QED
    BY <2>1, <2>2, <2>3 DEF Turns
<1>4. Closes'
  <2>1. \A u \in Remote : Over(u) => Over(u)'
    BY DEF Over, isTerminal, ReportFails, disk
  <2>2. AbandonedOnlyByFault'
    BY CallKinds, AnswerKinds, HandedOutIs, <2>1 DEF Closes, Ends, Over,
       AbandonedOnlyByFault, Underway, HandedOut, Turns, OneCall, OneAnswer, Begins, Fresh,
       WorkerTypeOK, TypeOK, isTerminal, Terminal, ReportFails, vars, disk, memory, netVars
  <2>3. Ends'
    BY CallKinds, <2>1 DEF Closes, Ends, Over, WorkerTypeOK, TypeOK, ReportFails
  <2> QED
    BY <2>2, <2>3 DEF Closes
<1> QED
  BY <1>1, <1>2, <1>3, <1>4
-----------------------------------------------------------------------------
(* A run on the worker, and faults.                                        *)

(* The agent asks for an approval.                                         *)
LEMMA AsksKeepInv ==
  ASSUME WInv, NEW t \in Remote, NEW a \in Approval, AgentAsks(t, a)
  PROVE  WInv'
<1> USE DEF WInv
<1>1. WorkerTypeOK'
  BY CallKinds DEF WorkerTypeOK, TypeOK, AgentAsks, vars, disk, memory
<1>2. Begins'
  BY DEF Begins, Fresh, Owners, BegunOnce, AgentAsks, vars, disk
<1>3. Turns'
  <2>1. OneAtATime'
    BY DEF Turns, OneAtATime, WorkersIdle, AgentAsks, vars, memory
  <2>2. OneCall'
    BY CallKinds DEF Turns, OneAtATime, OneCall, AgentAsks
  <2>3. OneAnswer'
    BY DEF Turns, OneAnswer, OneAtATime, WorkersIdle, WorkerTypeOK, AgentAsks
  <2> QED
    BY <2>1, <2>2, <2>3 DEF Turns
<1>4. Closes'
  <2>1. \A u \in Remote : Over(u) => Over(u)'
    BY DEF Over, isTerminal, AgentAsks, vars, disk
  <2>2. AbandonedOnlyByFault'
    BY <2>1 DEF Closes, Over, AbandonedOnlyByFault, Underway, HandedOut, AgentAsks, vars,
       disk, memory
  <2>3. Ends'
    BY CallKinds, <2>1 DEF Closes, Ends, AgentAsks, vars, memory
  <2> QED
    BY <2>2, <2>3 DEF Closes
<1> QED
  BY <1>1, <1>2, <1>3, <1>4

(* A request for an approval reaches the host.                             *)
LEMMA HostTakesAskKeepsInv ==
  ASSUME WInv, NEW t \in Remote, NEW a \in Approval, HostTakesAsk(t, a)
  PROVE  WInv'
<1> USE DEF WInv
<1>1. WorkerTypeOK'
  BY CallKinds, AnswerKinds DEF WorkerTypeOK, TypeOK, HostTakesAsk, OpenApproval,
     BlockApproval, isTerminal, Terminal, vars, disk, memory, netVars, Statuses, Rows, Answers,
     Decisions
<1>2. Begins'
  BY DEF Begins, Fresh, Owners, BegunOnce, WorkerTypeOK, TypeOK, HostTakesAsk, OpenApproval,
     BlockApproval
<1>3. Turns'
  <2>1. OneAtATime'
    BY DEF Turns, OneAtATime, WorkersIdle, HostTakesAsk
  <2>2. OneCall'
    BY DEF Turns, OneCall, HostTakesAsk
  <2>3. OneAnswer'
    BY DEF Turns, OneAnswer, HostTakesAsk
  <2> QED
    BY <2>1, <2>2, <2>3 DEF Turns
<1>4. Closes'
  <2>1. \A u \in Remote : Over(u) => Over(u)'
    BY DEF WorkerTypeOK, TypeOK, Over, isTerminal, HostTakesAsk, OpenApproval, BlockApproval
  <2>2. AbandonedOnlyByFault'
    BY CallKinds, <2>1 DEF Closes, Over, AbandonedOnlyByFault, Underway, HandedOut, HostTakesAsk
  <2>3. Ends'
    BY CallKinds, <2>1 DEF Closes, Ends, HostTakesAsk
  <2> QED
    BY <2>2, <2>3 DEF Closes
<1> QED
  BY <1>1, <1>2, <1>3, <1>4

(* An executor that was told to stop returns.                              *)
LEMMA StopsKeepInv ==
  ASSUME WInv, NEW t \in Remote, StopsUnreported(t)
  PROVE  WInv'
<1> USE DEF WInv
<1>1. WorkerTypeOK'
  BY DEF WorkerTypeOK, TypeOK, StopsUnreported, disk, netVars, Phases
<1>2. Begins'
  BY DEF Begins, Fresh, Owners, BegunOnce, StopsUnreported, disk
<1>3. Turns'
  <2>1. OneAtATime'
    BY DEF Turns, OneAtATime, WorkersIdle, WorkerTypeOK, TypeOK, StopsUnreported
  <2>2. OneCall'
    BY DEF Turns, OneCall, StopsUnreported, netVars
  <2>3. OneAnswer'
    BY DEF Turns, OneAnswer, OneAtATime, WorkersIdle, WorkerTypeOK, StopsUnreported, netVars
  <2> QED
    BY <2>1, <2>2, <2>3 DEF Turns
<1>4. Closes'
  <2>1. \A u \in Remote : Over(u) => Over(u)'
    BY DEF Over, isTerminal, StopsUnreported, disk
  <2>2. AbandonedOnlyByFault'
    BY <2>1 DEF Closes, Ends, Over, AbandonedOnlyByFault, Underway, HandedOut,
       StopsUnreported, disk, netVars
  <2>3. Ends'
    BY CallKinds, <2>1 DEF Closes, Ends, StopsUnreported, netVars
  <2> QED
    BY <2>2, <2>3 DEF Closes
<1> QED
  BY <1>1, <1>2, <1>3, <1>4

(* The poll of a cancelled run.                                            *)
LEMMA PollKeepsInv ==
  ASSUME WInv, NEW t \in Remote, PollTaken(t) \/ PollReturns(t)
  PROVE  WInv'
<1> USE DEF WInv
<1>1. WorkerTypeOK'
  BY DEF WorkerTypeOK, TypeOK, PollTaken, PollReturns, vars, disk, memory, Phases
<1>2. Begins'
  BY DEF Begins, Fresh, Owners, BegunOnce, PollTaken, PollReturns, vars, disk
<1>3. Turns'
  <2>1. OneAtATime'
    BY DEF Turns, OneAtATime, WorkersIdle, WorkerTypeOK, TypeOK, PollTaken, PollReturns,
       vars, memory
  <2>2. OneCall'
    BY CallKinds, AnswerKinds DEF Turns, OneAtATime, OneCall, WorkerTypeOK, TypeOK,
       PollTaken, PollReturns
  <2>3. OneAnswer'
    BY DEF Turns, OneAnswer, OneAtATime, WorkersIdle, WorkerTypeOK, PollTaken, PollReturns, disk
  <2> QED
    BY <2>1, <2>2, <2>3 DEF Turns
<1>4. Closes'
  <2>1. \A u \in Remote : Over(u) => Over(u)'
    BY DEF Over, isTerminal, PollTaken, PollReturns, vars, disk
  <2>2. AbandonedOnlyByFault'
    BY <2>1 DEF Closes, Over, AbandonedOnlyByFault, Underway, HandedOut, WorkerTypeOK,
       TypeOK, PollTaken, PollReturns, vars, disk, memory
  <2>3. Ends'
    BY CallKinds, <2>1 DEF Closes, Ends, Over, WorkerTypeOK, TypeOK, isTerminal, Terminal,
       PollTaken, PollReturns, vars, memory
  <2> QED
    BY <2>2, <2>3 DEF Closes
<1> QED
  BY <1>1, <1>2, <1>3, <1>4

(* A message is lost.                                                      *)
LEMMA LossKeepsInv ==
  ASSUME WInv, MessageLost
  PROVE  WInv'
<1> USE DEF WInv
<1>1. WorkerTypeOK'
  BY DEF WorkerTypeOK, TypeOK, MessageLost, vars, disk, memory
<1>2. Begins'
  BY DEF Begins, Fresh, Owners, BegunOnce, MessageLost, vars, disk
<1>3. Turns'
  <2>1. OneAtATime'
    BY DEF Turns, OneAtATime, WorkersIdle, MessageLost, vars, memory
  <2>2. OneCall'
    BY DEF Turns, OneCall, MessageLost, vars, memory
  <2>3. OneAnswer'
    BY DEF Turns, OneAnswer, MessageLost, vars, disk
  <2> QED
    BY <2>1, <2>2, <2>3 DEF Turns
<1>4. Closes'
  <2>1. \A u \in Remote : Over(u) => Over(u)'
    BY DEF Over, isTerminal, MessageLost, vars, disk
  <2>2. AbandonedOnlyByFault'
    <3> SUFFICES ASSUME NEW t \in Remote, started[t] > 0, t \notin Underway', t \notin touched
                 PROVE  isTerminal(t)
      BY DEF AbandonedOnlyByFault, MessageLost, vars, disk, isTerminal
    <3>1. UNCHANGED <<exec, awaited, answers>>
      BY DEF MessageLost, vars, memory
    <3>2. CASE t \notin Underway
      BY <3>2 DEF Closes, AbandonedOnlyByFault
    <3>3. ASSUME NEW op \in {"complete", "fail"}, Report(op, t) \in outbox PROVE isTerminal(t)
      BY <3>1, <3>3, CallKinds DEF Closes, Ends, Over, Underway
    <3> QED
      BY <3>1, <3>2, <3>3 DEF Underway, HandedOut
  <2>3. Ends'
    BY CallKinds, <2>1 DEF Closes, Ends, MessageLost, vars, memory
  <2> QED
    BY <2>2, <2>3 DEF Closes
<1> QED
  BY <1>1, <1>2, <1>3, <1>4

(* The worker dies; what it carried out met a fault.                       *)
LEMMA DeathKeepsInv ==
  ASSUME WInv, WorkerDies
  PROVE  WInv'
<1> USE DEF WInv
<1>1. WorkerTypeOK'
  <2>1. touched' \subseteq Remote
    BY DEF WorkerDies, HandedOut, WorkerTypeOK
  <2> QED
    BY <2>1 DEF WorkerTypeOK, TypeOK, WorkerDies, disk, Phases
<1>2. Begins'
  BY DEF Begins, Fresh, Owners, BegunOnce, WorkerDies, disk
<1>3. Turns'
  <2>1. OneAtATime'
    BY DEF OneAtATime, WorkerDies
  <2>2. OneCall'
    BY DEF OneCall, WorkerDies
  <2>3. OneAnswer'
    BY DEF OneAnswer, WorkerDies
  <2> QED
    BY <2>1, <2>2, <2>3 DEF Turns
<1>4. Closes'
  <2>1. \A u \in Remote : Over(u) => Over(u)'
    BY DEF Over, isTerminal, WorkerDies, disk
  <2>2. AbandonedOnlyByFault'
    BY <2>1 DEF Closes, Over, AbandonedOnlyByFault, Underway, WorkerDies, disk
  <2>3. Ends'
    BY CallKinds, <2>1 DEF Closes, Ends, Over, WorkerDies
  <2> QED
    BY <2>2, <2>3 DEF Closes
<1> QED
  BY <1>1, <1>2, <1>3, <1>4

-----------------------------------------------------------------------------
(* The theorems.                                                           *)

LEMMA WorkerInitInv == WorkerInit => WInv
<1> SUFFICES ASSUME WorkerInit PROVE WInv
  OBVIOUS
<1> USE DEF WorkerInit, Init
<1>1. WorkerTypeOK
  BY TypeInit DEF WorkerTypeOK
<1>2. Begins
  BY DEF Begins, Fresh, Owners, BegunOnce
<1>3. Turns
  BY DEF Turns, OneAtATime, OneCall, OneAnswer
<1>4. Closes
  BY DEF Closes, AbandonedOnlyByFault, Ends
<1> QED
  BY <1>1, <1>2, <1>3, <1>4 DEF WInv

LEMMA WorkerStutterKeepsInv ==
  ASSUME WInv, UNCHANGED allVars
  PROVE  WInv'
<1> USE DEF WInv, allVars, vars, disk, memory, workerVars, netVars
<1>1. WorkerTypeOK'
  BY DEF WorkerTypeOK, TypeOK
<1>2. Begins'
  BY DEF Begins, Fresh, Owners, BegunOnce
<1>3. Turns'
  BY DEF Turns, OneAtATime, OneCall, OneAnswer, WorkersIdle
<1>4. Closes'
  BY DEF Closes, AbandonedOnlyByFault, Ends, Over, Underway, HandedOut, isTerminal
<1> QED
  BY <1>1, <1>2, <1>3, <1>4

LEMMA WorkerNextInv == WInv /\ [WorkerNext]_allVars => WInv'
<1> SUFFICES ASSUME WInv, [WorkerNext]_allVars PROVE WInv'
  OBVIOUS
<1>1. ASSUME NEW c \in Claims, HostTakesClaim(c) \/ ClaimFails(c) PROVE WInv'
  BY <1>1, HostTakesClaimKeepsInv, ClaimFailsKeepsInv
<1>2. ASSUME NEW r \in answers, ClaimReturns(r) \/ ReportReturns(r) PROVE WInv'
  BY <1>2, ClaimReturnsKeepsInv, ReportReturnsKeepsInv
<1>3. ASSUME NEW c \in Reports, HostTakesReport(c) \/ ReportFails(c) PROVE WInv'
  BY <1>3, HostTakesReportKeepsInv, ReportFailsKeepsInv
<1>4. ASSUME NEW t \in Remote, NEW a \in Approval, AgentAsks(t, a) \/ HostTakesAsk(t, a)
      PROVE  WInv'
  BY <1>4, AsksKeepInv, HostTakesAskKeepsInv
<1>5. ASSUME NEW t \in Remote, \/ RunEnds(t) \/ StopsUnreported(t)
                              \/ PollTaken(t) \/ PollReturns(t)
      PROVE  WInv'
  BY <1>5, RunEndsKeepsInv, StopsKeepInv, PollKeepsInv
<1> QED
  BY <1>1, <1>2, <1>3, <1>4, <1>5, SendClaimKeepsInv, LossKeepsInv, DeathKeepsInv,
     DecisionKeepsInv, HostStepsKeepInv, WorkerStutterKeepsInv DEF WorkerNext

(* The inductive invariant holds of every run of the worker and the host.  *)
THEOREM WorkerInvariance == WorkerSpec => []WInv
BY WorkerInitInv, WorkerNextInv, PTL DEF WorkerSpec

(* Every variable has its type, those of TaskLifecycle included.           *)
THEOREM WorkerTypesHold == WorkerSpec => []WorkerTypeOK
<1>1. WInv => WorkerTypeOK
  BY DEF WInv
<1> QED
  BY <1>1, WorkerInvariance, PTL

(* Whatever claims, answers and processes are lost, the worker begins a    *)
(* run at most once, and only one the host gave it.                        *)
THEOREM RunsBeginOnce == WorkerSpec => []BegunOnce
<1>1. WInv => BegunOnce
  BY DEF WInv, Begins
<1> QED
  BY <1>1, WorkerInvariance, PTL

(* The worker carries out one run at a time, and none while it claims.     *)
THEOREM WorkerRunsOne == WorkerSpec => []OneAtATime
<1>1. WInv => OneAtATime
  BY DEF WInv, Turns
<1> QED
  BY <1>1, WorkerInvariance, PTL

(* A run that was started and that nobody carries out or reports any more  *)
(* is over, unless a message was lost, the worker died or a decision came  *)
(* late.                                                                   *)
THEOREM RunsAreReported == WorkerSpec => []AbandonedOnlyByFault
<1>1. WInv => AbandonedOnlyByFault
  BY DEF WInv, Closes
<1> QED
  BY <1>1, WorkerInvariance, PTL

-----------------------------------------------------------------------------
(* Late calls.                                                             *)

FinishedStep == \A t \in Task : isTerminal(t) /\ status'[t] # status[t] => LeavesTerminal(t)

LEMMA LateCallsChangeNothing == WorkerTypeOK /\ [WorkerNext]_allVars => FinishedStep
<1> SUFFICES ASSUME WorkerTypeOK, [WorkerNext]_allVars,
                    NEW u \in Task, isTerminal(u), status'[u] # status[u]
             PROVE  LeavesTerminal(u)
  BY DEF FinishedStep
<1> USE DEF WorkerTypeOK, TypeOK, isTerminal, Terminal
<1>1. ASSUME NEW c \in Claims, HostTakesClaim(c) PROVE FALSE
  BY <1>1 DEF HostTakesClaim, HandOut, QueuedRemote, vars, disk
<1>2. ASSUME NEW c \in Reports, HostTakesReport(c) PROVE FALSE
  BY <1>2, CallKinds DEF HostTakesReport, markTaskFailed
<1>3. ASSUME NEW t \in Remote, NEW a \in Approval, HostTakesAsk(t, a) PROVE FALSE
  BY <1>3 DEF HostTakesAsk, OpenApproval, BlockApproval
<1>4. ASSUME NEW a \in Approval, NEW approved \in BOOLEAN, PersonDecides(a, approved)
      PROVE  LeavesTerminal(u)
  BY <1>4 DEF PersonDecides, resolveApproval, Settle, Decide, LeavesTerminal, PendingOf
<1>5. ASSUME NEW t \in Remote, CancelEnds(t) PROVE LeavesTerminal(u)
  BY <1>5 DEF CancelEnds, LeavesTerminal
<1>6. ASSUME NEW t \in Remote,
             \/ CreateRun(t) \/ PreflightGranted(t) \/ PreflightDenied(t) \/ CancelBegins(t)
             \/ \E a \in Approval : CreateRunWithPreflight(t, a)
      PROVE  FALSE
  BY <1>6 DEF CreateRun, PreflightGranted, PreflightDenied, CancelBegins,
              CreateRunWithPreflight, OpenApproval, markTaskFailed
<1>7. ASSUME NEW a \in Approval, ApprovalTimeout(a) PROVE FALSE
  BY <1>7 DEF ApprovalTimeout, markTaskFailed
<1>8. ASSUME Restart PROVE FALSE
  BY <1>8 DEF Restart
<1>9. status' # status
  OBVIOUS
<1>10. ASSUME HostSteps PROVE LeavesTerminal(u)
  BY <1>5, <1>6, <1>7, <1>8, <1>10 DEF HostSteps
<1>11. ASSUME NEW t \in Remote,
              \/ RunEnds(t) \/ StopsUnreported(t) \/ PollTaken(t) \/ PollReturns(t)
              \/ \E a \in Approval : AgentAsks(t, a)
       PROVE  FALSE
  BY <1>9, <1>11 DEF RunEnds, StopsUnreported, PollTaken, PollReturns, AgentAsks, vars, disk
<1>12. ASSUME NEW c, \/ SendClaim(c) \/ ClaimFails(c) \/ ReportFails(c)
                     \/ ClaimReturns(c) \/ ReportReturns(c)
       PROVE  FALSE
  BY <1>9, <1>12 DEF SendClaim, ClaimFails, ReportFails, ClaimReturns, ReportReturns, vars, disk
<1>13. ~MessageLost /\ ~WorkerDies /\ ~UNCHANGED allVars
  BY <1>9 DEF MessageLost, WorkerDies, allVars, vars, disk
<1> QED
  BY <1>1, <1>2, <1>3, <1>4, <1>10, <1>11, <1>12, <1>13 DEF WorkerNext

(* Over a network that loses and delays calls, only a cancellation under   *)
(* way or the decision of a left-over approval changes a finished run.     *)
THEOREM LateCallsAreRefused == WorkerSpec => TerminalLeftOnlyByRace
<1>1. WorkerTypeOK /\ [WorkerNext]_allVars => [FinishedStep]_vars
  BY LateCallsChangeNothing
<1>2. WorkerSpec => [][FinishedStep]_vars
  BY <1>1, WorkerTypesHold, PTL DEF WorkerSpec
<1> QED
  BY <1>2 DEF TerminalLeftOnlyByRace, FinishedStep
=============================================================================
