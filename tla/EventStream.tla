----------------------------- MODULE EventStream -----------------------------
(***************************************************************************)
(* A page of the browser that follows one run or one session: the events   *)
(* the host pushes over Server-Sent Events, and the answers to the GET     *)
(* requests by which the page loads what is on record.                     *)
(*                                                                         *)
(*   "task"     TaskDetailPage with useSSE, over /api/stream (routes/      *)
(*              sse.ts): an event carries its number in the log, and a     *)
(*              page that reconnects is sent what follows the last one.    *)
(*   "session"  the workbench (realAgentWorkbenchApi.streamSessionEvents,  *)
(*              useWorkbenchSessionLifecycle), over /api/agent/sessions/   *)
(*              :id/events: the snapshot of the session and then what      *)
(*              happens, numbered from 1 by each connection anew; a page   *)
(*              that reconnects is spared the numbers it has seen.         *)
(*                                                                         *)
(* The log holds what the page can miss: a piece of text, an approval or   *)
(* another event that makes it look again, and the end: "end" when the run *)
(* completed, "stop" when it was cancelled or failed.  Other frames        *)
(* (user.message, diff.updated, an approval's resolution) take numbers too *)
(* and are left out.  Two connections of one page need no telling apart:   *)
(* what the host writes to the earlier one is lost.                        *)
(***************************************************************************)
EXTENDS Integers, Sequences, FiniteSets

CONSTANTS
  Page,       \* the pages considered, of {"task", "session"}
  Load,       \* requests for what is on record that may be under way at once
  MaxEvents,  \* bound on the log
  MaxFaults   \* bound on faults

ASSUME StreamAssumption == /\ Page \subseteq {"task", "session"}
                           /\ MaxEvents \in Nat /\ MaxFaults \in Nat

VARIABLES
  page,    \* which page this is
  log,     \* what happened, in order
  conn,    \* "closed", "asking", "reading" (the handler awaits) or "open"
  asked,   \* the last number the page had when it connected
  detail,  \* entries of the log the handler read before it awaited
  from,    \* entries of the log when it subscribed
  told,    \* text up to this entry was sent on this connection
  nextId,  \* eventId
  wire,    \* frames under way
  lastId,  \* lastEventId of the page
  shown,   \* entries of the log on the page
  heard,   \* entries the stream has ever told it of
  running, \* the page takes the session to be in progress
  load, reply,       \* requests for what is on record, and their answers
  poll, pollReply,   \* reconcileRunningSession and its answer
  faults,  \* connections lost and requests failed
  failed   \* a request for what is on record has failed

hostVars == <<asked, detail, from, told, nextId>>
loadVars == <<load, reply>>
pollVars == <<poll, pollReply>>
faultVars == <<faults, failed>>
vars == <<page, log, conn, hostVars, wire, lastId, shown, heard, running, loadVars, pollVars,
          faultVars>>

Ends == {"end", "stop"}

Kind == {"text", "approval"} \cup Ends

Unused == {l \in Load : load[l] = "unused"}

Slot(free) == CHOOSE l \in free : TRUE

Over(entries) == Len(entries) > 0 /\ entries[Len(entries)] \in Ends

Ended == Over(log)

Init ==
  /\ page \in Page
  /\ log = <<>> /\ conn = "closed"
  /\ asked = 0 /\ detail = 0 /\ from = 0 /\ told = 0 /\ nextId = 0
  /\ wire = <<>> /\ lastId = 0
  /\ shown = {} /\ heard = {} /\ running = TRUE
  /\ load = [l \in Load |-> IF l = Slot(Load) THEN "asked" ELSE "unused"]
  /\ reply = [l \in Load |-> 0]
  /\ poll = "idle" /\ pollReply = 0
  /\ faults = 0 /\ failed = FALSE

-----------------------------------------------------------------------------
(* Frames.                                                                 *)

Frame(kind, covers) == [kind |-> kind, covers |-> covers]

TextIn(entries, first, last) == {i \in first..last : entries[i] = "text"}

(* The text of entries first..last, as one delta when there is any. *)
Delta(entries, first, last) ==
  LET covers == TextIn(entries, first, last)
  IN IF covers = {} THEN <<>> ELSE <<Frame("text", covers)>>

(* assistant.completed and session.completed, or session.cancelled alone.  *)
(* (session.failed is like it, but for one frame more in a snapshot.)      *)
Ending(kind, n) == (IF kind = "end" THEN <<Frame("completed", {})>> ELSE <<>>)
                   \o <<Frame("end", {n})>>

(* One frame for each approval, in order. *)
Approvals(entries) ==
  LET at == {i \in 1..Len(entries) : entries[i] = "approval"}
  IN [k \in 1..Cardinality(at) |->
        Frame("approval", {i \in at : Cardinality({j \in at : j <= i}) = k})]

(* The session in its messages' order: a text is one message that grows. *)
Snapshot(entries) ==
  LET n == Len(entries)
  IN <<Frame(IF Over(entries) THEN "over" ELSE "started", {})>>
     \o Delta(entries, 1, n) \o Approvals(entries)
     \o (IF Over(entries) THEN Ending(entries[n], n) ELSE <<>>)

(* sessionEventToAgentEvents for entry n: text and a completion bring the  *)
(* text along that was not sent yet, an approval and a stop do not.        *)
Live(entries, n) ==
  CASE entries[n] = "text" -> Delta(entries, told + 1, n)
    [] entries[n] = "approval" -> <<Frame("approval", {n})>>
    [] entries[n] = "end" -> Delta(entries, told + 1, n) \o Ending("end", n)
    [] entries[n] = "stop" -> Ending("stop", n)

CatchesUp(kind) == kind \in {"text", "end"}

(* Mutant: a frame the page has seen is written again. *)
NumberedAll(frames, after) ==
  [i \in 1..Len(frames) |->
     [id |-> after + i, kind |-> frames[i].kind, covers |-> frames[i].covers]]

(* write: every frame takes a number, and one the page has seen is skipped. *)
Numbered(frames, after) ==
  LET seen == IF asked > after THEN asked - after ELSE 0
  IN [i \in 1..(Len(frames) - seen) |->
        [id |-> after + seen + i,
         kind |-> frames[seen + i].kind, covers |-> frames[seen + i].covers]]

(* Mutant: events are numbered from 0. *)
TaskFramesFromZero(entries, first, last) ==
  [i \in 1..(last - first + 1) |->
     [id |-> first + i - 2, kind |-> entries[first + i - 1], covers |-> {first + i}]]

(* writeTaskEvent for the entries first..last *)
TaskFrames(entries, first, last) ==
  [i \in 1..(last - first + 1) |->
     [id |-> first + i - 1, kind |-> entries[first + i - 1], covers |-> {first + i - 1}]]

-----------------------------------------------------------------------------
(* The host records an event and writes it to whoever listens.             *)
Emit(kind) ==
  /\ ~Ended /\ Len(log) < MaxEvents
  /\ log' = Append(log, kind)
  /\ LET n == Len(log) + 1
     IN IF conn # "open"
        THEN UNCHANGED <<wire, told, nextId>>
        ELSE IF page = "task"
        THEN /\ wire' = wire \o TaskFrames(log', n, n)
             /\ UNCHANGED <<told, nextId>>
        ELSE LET frames == Live(log', n)
             IN /\ wire' = wire \o Numbered(frames, nextId)
                /\ nextId' = nextId + Len(frames)
                /\ told' = IF CatchesUp(kind) THEN n ELSE told
  /\ UNCHANGED <<page, conn, asked, detail, from, lastId, shown, heard, running, loadVars,
                 pollVars, faultVars>>

-----------------------------------------------------------------------------
(* Connecting.                                                             *)

(* connect, at once and 3 s after each error *)
Connect ==
  /\ conn = "closed"
  /\ conn' = "asking" /\ asked' = lastId
  /\ UNCHANGED <<page, log, detail, from, told, nextId, wire, lastId, shown, heard, running,
                 loadVars, pollVars, faultVars>>

(* Mutant: a page that reconnects is sent what is new only. *)
ServeTaskNew ==
  /\ page = "task" /\ conn = "asking"
  /\ conn' = "open" /\ wire' = <<>>
  /\ detail' = Len(log) /\ from' = Len(log)
  /\ UNCHANGED <<page, log, asked, told, nextId, lastId, shown, heard, running, loadVars,
                 pollVars, faultVars>>

(* GET /api/stream: the client is added and sent what it missed at once;   *)
(* one that has no number yet is sent nothing.                             *)
ServeTask ==
  /\ page = "task" /\ conn = "asking"
  /\ conn' = "open"
  /\ wire' = IF asked = 0 THEN <<>> ELSE TaskFrames(log, asked + 1, Len(log))
  /\ detail' = Len(log) /\ from' = Len(log)
  /\ UNCHANGED <<page, log, asked, told, nextId, lastId, shown, heard, running, loadVars,
                 pollVars, faultVars>>

(* GET /sessions/:id/events: getDetail, and then getGitInfoAsync is awaited *)
ReadDetail ==
  /\ page = "session" /\ conn = "asking"
  /\ conn' = "reading" /\ detail' = Len(log)
  /\ UNCHANGED <<page, log, asked, from, told, nextId, wire, lastId, shown, heard, running,
                 loadVars, pollVars, faultVars>>

(* Mutant: the numbers go on from the snapshot only. *)
WriteSnapshotAnew ==
  /\ page = "session" /\ conn = "reading"
  /\ LET frames == Snapshot(SubSeq(log, 1, detail))
     IN wire' = Numbered(frames, 0) /\ nextId' = Len(frames)
  /\ conn' = "open" /\ told' = detail /\ from' = Len(log)
  /\ UNCHANGED <<page, log, asked, detail, lastId, shown, heard, running, loadVars, pollVars,
                 faultVars>>

(* The snapshot is written as it was read, and the session subscribed to.  *)
WriteSnapshot ==
  /\ page = "session" /\ conn = "reading"
  /\ LET frames == Snapshot(SubSeq(log, 1, detail))
     IN /\ wire' = Numbered(frames, 0)
        /\ nextId' = IF Len(frames) > asked THEN Len(frames) ELSE asked
  /\ conn' = "open" /\ told' = detail /\ from' = Len(log)
  /\ UNCHANGED <<page, log, asked, detail, lastId, shown, heard, running, loadVars, pollVars,
                 faultVars>>

(* The connection is lost, the handler fails (git_info of a device that    *)
(* cannot be reached), or useSSE's watchdog gives it up.                   *)
ConnectionLost ==
  /\ conn # "closed" /\ faults < MaxFaults
  /\ conn' = "closed" /\ wire' = <<>>
  /\ asked' = 0 /\ detail' = 0 /\ from' = 0 /\ told' = 0 /\ nextId' = 0
  /\ faults' = faults + 1
  /\ UNCHANGED <<page, log, lastId, shown, heard, running, loadVars, pollVars, failed>>

-----------------------------------------------------------------------------
(* The page.                                                               *)

(* Mutant: the page adds events and loads nothing again. *)
ReceiveTaskOnly ==
  /\ page = "task" /\ conn = "open" /\ wire # <<>>
  /\ lastId' = Head(wire).id
  /\ shown' = shown \cup Head(wire).covers /\ heard' = heard \cup Head(wire).covers
  /\ wire' = Tail(wire)
  /\ UNCHANGED <<page, log, conn, hostVars, running, loadVars, pollVars, faultVars>>

(* onMessage of TaskDetailPage: what is new is added, and some events make *)
(* the page load everything again (refreshDetail).                         *)
ReceiveTask ==
  /\ page = "task" /\ conn = "open" /\ wire # <<>>
  /\ LET f == Head(wire)
         refresh == ~(f.covers \subseteq shown) /\ f.kind # "text"
     IN /\ lastId' = f.id
        /\ shown' = shown \cup f.covers
        /\ heard' = heard \cup f.covers
        /\ IF refresh
           THEN Unused # {} /\ load' = [load EXCEPT ![Slot(Unused)] = "asked"]
           ELSE UNCHANGED load
  /\ wire' = Tail(wire)
  /\ UNCHANGED <<page, log, conn, hostVars, running, reply, pollVars, faultVars>>

(* emit, appendEvent and statusFromEvent of the workbench.  (The list that *)
(* refreshSessions asks for at the end can only say that it is over.)      *)
ReceiveSession ==
  /\ page = "session" /\ conn = "open" /\ wire # <<>>
  /\ LET f == Head(wire)
     IN /\ lastId' = f.id
        /\ shown' = shown \cup f.covers
        /\ heard' = heard \cup f.covers
        /\ running' = CASE f.kind \in {"started", "text", "approval"} -> TRUE
                         [] f.kind \in {"over"} \cup Ends -> FALSE
                         [] f.kind = "completed" -> running
  /\ wire' = Tail(wire)
  /\ UNCHANGED <<page, log, conn, hostVars, loadVars, pollVars, faultVars>>

LoadServed(l) ==
  /\ load[l] = "asked"
  /\ load' = [load EXCEPT ![l] = "answered"]
  /\ reply' = [reply EXCEPT ![l] = Len(log)]
  /\ UNCHANGED <<page, log, conn, hostVars, wire, lastId, shown, heard, running, pollVars,
                 faultVars>>

(* load, refreshDetail and loadSessionEvents with replace: what the page   *)
(* showed makes room for the answer, however old it is.                    *)
LoadArrives(l) ==
  /\ load[l] = "answered"
  /\ load' = [load EXCEPT ![l] = "unused"]
  /\ reply' = [reply EXCEPT ![l] = 0]
  /\ shown' = 1..reply[l]
  /\ UNCHANGED <<page, log, conn, hostVars, wire, lastId, heard, running, pollVars, faultVars>>

LoadFails(l) ==
  /\ load[l] # "unused" /\ faults < MaxFaults
  /\ load' = [load EXCEPT ![l] = "unused"]
  /\ reply' = [reply EXCEPT ![l] = 0]
  /\ failed' = TRUE /\ faults' = faults + 1
  /\ UNCHANGED <<page, log, conn, hostVars, wire, lastId, shown, heard, running, pollVars>>

-----------------------------------------------------------------------------
(* reconcileRunningSession, every 3 s while the session seems in progress. *)
(* One round at a time: the first to find it over cancels the others, and  *)
(* those that do not change nothing.                                       *)

PollStarts ==
  /\ page = "session" /\ running /\ poll = "idle"
  /\ poll' = "listing"
  /\ UNCHANGED <<page, log, conn, hostVars, wire, lastId, shown, heard, running, loadVars,
                 pollReply, faultVars>>

ListServed ==
  /\ poll = "listing"
  /\ poll' = IF Ended THEN "over" ELSE "going on"
  /\ UNCHANGED <<page, log, conn, hostVars, wire, lastId, shown, heard, running, loadVars,
                 pollReply, faultVars>>

(* Mutant: the list is read for the events of a session that is over only. *)
ListArrivesForEvents ==
  /\ poll \in {"over", "going on"}
  /\ poll' = IF poll = "over" THEN "loading" ELSE "idle"
  /\ UNCHANGED <<page, log, conn, hostVars, wire, lastId, shown, heard, running, loadVars,
                 pollReply, faultVars>>

ListArrives ==
  /\ poll \in {"over", "going on"}
  /\ running' = (poll = "going on")
  /\ poll' = IF poll = "over" THEN "loading" ELSE "idle"
  /\ UNCHANGED <<page, log, conn, hostVars, wire, lastId, shown, heard, loadVars, pollReply,
                 faultVars>>

PollLoadServed ==
  /\ poll = "loading"
  /\ poll' = "loaded" /\ pollReply' = Len(log)
  /\ UNCHANGED <<page, log, conn, hostVars, wire, lastId, shown, heard, running, loadVars,
                 faultVars>>

(* mergeEvents *)
PollLoadArrives ==
  /\ poll = "loaded"
  /\ poll' = "idle" /\ pollReply' = 0
  /\ shown' = shown \cup 1..pollReply
  /\ UNCHANGED <<page, log, conn, hostVars, wire, lastId, heard, running, loadVars, faultVars>>

(* The page renders a session that is no longer in progress: the effect is *)
(* cleaned up, and the answer of a round under way will be dropped.        *)
PollCancelled ==
  /\ poll # "idle" /\ ~running
  /\ poll' = "idle" /\ pollReply' = 0
  /\ UNCHANGED <<page, log, conn, hostVars, wire, lastId, shown, heard, running, loadVars,
                 faultVars>>

PollFails ==
  /\ poll # "idle" /\ faults < MaxFaults
  /\ poll' = "idle" /\ pollReply' = 0
  /\ faults' = faults + 1
  /\ UNCHANGED <<page, log, conn, hostVars, wire, lastId, shown, heard, running, loadVars, failed>>

-----------------------------------------------------------------------------
Stream == Connect \/ ServeTask \/ ReadDetail \/ WriteSnapshot \/ ReceiveTask \/ ReceiveSession

Poll == PollStarts \/ ListServed \/ ListArrives \/ PollLoadServed \/ PollLoadArrives
        \/ PollCancelled

Next ==
  \/ \E kind \in Kind : Emit(kind)
  \/ Stream \/ ConnectionLost
  \/ \E l \in Load : LoadServed(l) \/ LoadArrives(l) \/ LoadFails(l)
  \/ Poll \/ PollFails

Spec == Init /\ [][Next]_vars

(* The host answers, the network delivers, and the page reconnects and     *)
(* polls by timers that run until it is closed.  Nothing need happen in    *)
(* the session.                                                            *)
Fairness ==
  /\ WF_vars(Stream)
  /\ WF_vars(\E l \in Load : LoadServed(l) \/ LoadArrives(l))
  /\ WF_vars(Poll)

FairSpec == Spec /\ Fairness

-----------------------------------------------------------------------------
Entries == 1..Len(log)

Frames == [id : Nat, kind : Kind \cup {"started", "over", "completed"}, covers : SUBSET Entries]

StreamShape ==
  /\ page \in Page /\ log \in Seq(Kind) /\ Len(log) <= MaxEvents
  /\ conn \in {"closed", "asking", "reading", "open"}
  /\ asked \in Nat /\ lastId \in Nat /\ nextId \in Nat
  /\ detail \in 0..Len(log) /\ from \in 0..Len(log) /\ told \in 0..Len(log)
  /\ wire \in Seq(Frames)
  /\ heard \subseteq Entries

PageShape ==
  /\ shown \subseteq Entries /\ running \in BOOLEAN
  /\ load \in [Load -> {"unused", "asked", "answered"}] /\ reply \in [Load -> 0..Len(log)]
  /\ poll \in {"idle", "listing", "over", "going on", "loading", "loaded"}
  /\ pollReply \in 0..Len(log) /\ faults \in 0..MaxFaults /\ failed \in BOOLEAN

(* Types; a page never shows, is never told of and is never sent what did  *)
(* not happen.                                                             *)
StreamTypeOK == StreamShape /\ PageShape

(* Frames under way carry rising numbers above the last one received: a    *)
(* connection that numbers anew (write) must not fall behind the one       *)
(* before, or its events would be skipped or move lastEventId back.        *)
NumbersRise ==
  /\ \A i \in 1..Len(wire) : wire[i].id > lastId
  /\ \A i, j \in 1..Len(wire) : i < j => wire[i].id < wire[j].id

(* A page whose connection is open and has nothing under way was told of   *)
(* everything since the connection subscribed, whatever was lost before;   *)
(* of the text that came while the handler awaited, once more text has;    *)
(* and, when it connected without a number, of the whole snapshot.         *)
StreamTellsAll ==
  conn = "open" /\ wire = <<>> =>
    /\ (from + 1)..Len(log) \subseteq heard
    /\ page = "session" => TextIn(log, detail + 1, told) \subseteq heard
    /\ page = "session" /\ asked = 0 => 1..detail \subseteq heard

(* The page of a run is told of every event after its first one, once and  *)
(* in order, across any number of connections, and catches up.             *)
Feed == INSTANCE LogFeed WITH length <- Len(log), at <- IF page = "task" THEN lastId ELSE 0

FeedSafe == Feed!SafeSpec
FeedSpec == Feed!Spec

(* The page of a session that is over comes to take it for over, although  *)
(* the end may be lost on a connection and an older list may arrive late.  *)
EndIsSeen == page = "session" => <>[](Ended => ~running)

(* The page of a run that was told of its end comes to show all of it,     *)
(* what it had missed too, unless the request for it fails.  (It need not  *)
(* stay: an older answer may still arrive.)                                *)
EndIsShown ==
  <>(page = "task" /\ Ended /\ Len(log) \in heard)
    => <>((Ended /\ shown = Entries) \/ failed)

(* What the documentation says of the events of a session (docs/api.md):   *)
(* the stream replays the snapshot, and then sends live updates.           *)
SnapshotReplayed ==
  page = "session" /\ conn = "open" /\ wire = <<>> => 1..detail \subseteq heard
=============================================================================
