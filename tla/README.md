# Verification of the workbench host

This directory holds TLA+ models of the host of the OxHorse / RAC agent
workbench (`apps/host`), the TLC runs that check them on small instances, and
TLAPS proofs of the properties that matter most for every instance.

Run from this directory:

    tlc -workers 2 -config MCTaskLifecycle.cfg MCTaskLifecycle
    tlapm TaskLifecycleProofs.tla

## 1. The system

The host is one Node.js process over a synchronous SQLite database.  People
reach it over HTTP (the web client), Telegram and SSE; agents run either in the
process' own executors or on remote workers that poll the host over HTTP and
keep a WebSocket open for terminals and files.
A *step* of the models is what Node.js runs without giving way: a request
handler up to its first `await`, a timer callback, a callback of an executor, or
the continuation of a promise.  Nothing inside a step can be interleaved;
everything between steps can.

| Component | State it keeps | Operations | Talks to | What makes it correct |
|---|---|---|---|---|
| **TaskService, runs** (`services/task-service.ts`) | rows of `tasks`, event log, maximum-duration timers | create, dispatch, execute, reports, cancel, time-out, claim | executors, workers, listeners | one start, one end; late reports change nothing; local runs end |
| **TaskService, approvals** | rows of `approvals`, `approvalResolvers`, `approvalTimers`, promises | request, decide, expire, reject on cancellation | executors, routes, Telegram | record, timer, resolver and promise agree; the asker is told what was recorded, once |
| **Recovery** (`bootstrap.ts`) | none | `recoverStuckTasks` at start | tasks, sessions | nothing stays in progress that nobody drives |
| **SessionService** (`services/session-service.ts`) | `sessions` (status, active run), messages, subscriptions | post, interrupt, archive, resume, approve, listen | TaskService in both directions | one run at a time; the session shows what its run does |
| **Remote worker** (`remote-worker.ts`, `routes/remote-worker.ts`) | one active run | claim, events, approval, complete, fail, poll | host over HTTP | no run lost or done twice |
| **Remote workspace** (`remote-workspace*.ts`, `native-terminal-service.ts`) | pending requests with timers | request, response, time-out, disconnect | worker over WebSocket | each request settled once, by its own connection |
| **Native terminal broker** (`native-terminal-*.ts`) | terminals, sockets, bridges, timers | open, attach, detach, kill, exit | browsers, workers | a live terminal has an owner; nothing leaks |
| **Telegram gateway** (`telegram-gateway.ts`) | last update, callback tokens, stream edits | updates, callbacks, rendering | SessionService | each update handled once |
| **Live streams** (`sse-manager.ts`, `routes/sse.ts`, `routes/agent-session-event-routes.ts`) | clients, numbers of frames | replay, snapshot, broadcast | browsers | a page that reconnects is told what it missed, once and in order |
| **Web client** (`TaskDetailPage.tsx`, `useSSE.ts`, the workbench) | what the page shows, the last number, requests under way | load, receive, merge, poll | host over HTTP and SSE | the page comes to show the end, whatever was lost |
| **Diff and discard** (`session-diff-discard*.ts`) | baselines | plan, discard, keep | git | only the agent's changes are discarded |
| **Permission rules** (`session-permission-evaluator.ts`, `packages/security/src/risk.ts`) | rules | evaluate | SessionService | the strictest decision wins |
| **Usage accounting** (`usage-accounting.ts`) | totals | record | sessions | nothing counted twice |
| **JSON-RPC client** (`provider-runtime.ts`) | pending requests | request, response, time-out, exit | Codex app server | each request settled once |
| **Rate limit** (`packages/security/src/rate-limit.ts`) | attempts, lock-outs | check, fail, reset, prune | login | boundaries of window and lock-out |
| Executors, providers, model registry, MCP, RAG, evaluation, metrics, notifications, configuration, projects, devices, audit, logger, shared types, AI service, presentation | | | | not modelled: child processes, parsing, CRUD, presentation |

`PROJECT.json` lists every component with its sources, and every hazard at the
line where it bites.

### The hard behaviours

* `cancelTask` gives way (`await executor.cancelTask`) between its check and its
  write; `resolveApproval` writes the run's status without a check at all.
* An approval may be decided, cancelled, expired or orphaned by a restart; an
  agent may have several pending at once, and a session message may have one
  before its run exists for any executor.
* The session's listener is called *inside* the handlers of TaskService.  When it
  throws, the handler stops half way; in a timer, and in the driver of a run, whose
  promise nobody looks at, nothing catches the exception (neither `uncaughtException`
  nor `unhandledRejection` is handled), so the process ends.
* The host restarts while workers go on; a worker dies while the host waits for it.
* A call of the worker may fail before or after the host has carried it out, and
  its request may still arrive after the worker has given it up.
* The two ends of a WebSocket learn of its end at different times, and the close of
  an old connection is heard after its successor has taken over.
* A page reads the same log by a stream, by requests and by a poll; each may be
  lost, and the answer to an old request replaces newer events.

## 2. The modules

**`ApprovalDesk`** is the abstract promise: a request is opened once, closed at
most once (granted, rejected or expired), its asker is told what was recorded in
the same step, and no request stays open for ever.  A restart abandons what was
open.

**`TaskLifecycle`** is TaskService with the executors, workers, timers, people
and the restart of the host around it.

| Variable | Code |
|---|---|
| `status`, `before` | `tasks.status`; the order of `tasks.createdAt` |
| `row`, `owner` | `approvals.status`, `approvals.taskId` |
| `started` | `task.started` events in the log |
| `resolver`, `timer` | keys of `approvalResolvers`, armed entries of `approvalTimers` |
| `answer` | the promise the asker awaits: `open`, `yes`, `no`, or `lost` with its process |
| `gate` | the preflight approval a session's driver awaits (`postMessage`) |
| `exec` | `startTask`: `on`, `stopping` (told to stop), `reported`, `off` |
| `clock` | armed maximum-duration timers |
| `cancels` | `cancelTask` calls at their `await` |

One action stands for one handler, callback or continuation; `PROJECT.json`
"map" names its lines.  `Quiet` says that a request or a timer does not run
while a driver's continuation is due: promise continuations run first.
Callbacks of executors are not held back, since they may be continuations
themselves.  Simplifications: one worker, with a reliable network, serves all
remote runs (that is what `RemoteWorker` replaces), and has the executors of all of
them, so that the list of executors it sends with a claim leaves no run out; an executor returns from `startTask` after it reported, or without a
report once it was told to stop; SQLite statements do not fail; listeners do not
throw (that is what `SessionLifecycle` adds); `retry` is the creation of another
run.  The definitions above a handler that are marked *Mutant* are faulty
variants kept to show that the properties can fail; no specification uses them.

**`SessionLifecycle`** extends TaskLifecycle with one session on the host's own
device: `session` and `active` (`sessions.status`, `activeTaskId`), `lastTask` (the
run of the latest message, for `latestTaskForSession`), `listening`
(subscriptions), `stops` (cancellations that belong to `interrupt`) and `down`
(the process died of an exception).  Each action conjoins the action of
TaskLifecycle with what the listener does in the same step.  Where the listener
would throw (`~Accepts`), an *Aborted* action writes exactly what the handler
wrote before the throw.  `DriverAborted` is one nobody would look for: between the
approval of a preflight and the continuation of its driver, the end of another
cancellation interrupts the session, `task.started` is refused, and the run is left
`running` without an executor in a process that ends.  The init_claude approval, forks, model switches,
slash commands and message contents are left out.

**`RemoteWorker`** puts a real worker and a network under the remote runs of
TaskLifecycle, whose host side it reuses; `exec` is here what the worker does.

| Variable | Code |
|---|---|
| `outbox`, `awaited`, `answers` | HTTP calls of `remote-worker.ts`: not yet at the host, still waited for, answered |
| `polled` | the answer `cancelled` of `GET /tasks/:id/status` on its way |
| `begun`, `touched` | history: how often the worker began a run; which runs a named fault met |

`SendClaim`, `ClaimReturns`, `AgentAsks`, `RunEnds`, `ReportReturns`, `PollReturns`
are the worker's loop, `runTask` and its callbacks; `HostTakes...` are the routes;
`MessageLost`, `ClaimFails`, `ReportFails`, `WorkerDies` the faults.  A call that
fails may have reached the host, or still reach it later.

**`WorkspaceBridge`** is the WebSocket of a remote device: `ws` is what the host
knows of each connection, `link` what the worker knows, `current` the entry of
`remoteWorkers`, `down` and `up` the messages under way, `online` and `shown` the
device's status; `request`, `via`, `deadline`, `working` are the requests of
`requestRemoteWorkspace` with their connection and timer.

**`NativeTerminal`** extends it with the terminals: `life`, `home`, `members`,
`sockets` and `timers` are the registry's records (`session.worker`,
`connection.sessions`, `session.sockets`, `idleTimer`, `maxTimer`), `browser` and `at`
the sockets of browsers, `pty` the processes themselves, `unreached` those whose
terminal ended while the worker could not hear of it (history).  Actions: opening
(also of a terminal that is live), keystrokes, kill and close messages, lost
sockets, both timers, exits, takeover, and the death of either process.

**`LogFeed`** is the abstract promise to the reader of a numbered log: wherever it
starts, every later entry once and in order, and it catches up.

**`EventStream`** is one page that follows one run (`TaskDetailPage`, over
`/api/stream`) or one session (the workbench, over `/api/agent/sessions/:id/events`).

| Variable | Code |
|---|---|
| `log` | rows of `task_events`, `messages` and `approvals` a page can miss: text, an approval, the end (`end` of a run that completed, `stop` of one that was cancelled or failed) |
| `conn`, `asked` | the EventSource or fetch, `lastEventId` it sent |
| `detail`, `from`, `told`, `nextId` | what the handler read, when it subscribed, how far text was sent, `eventId` |
| `wire`, `lastId` | frames under way, the last number the page has |
| `shown`, `heard`, `running` | events on the page; those the stream told it of (history); the session seems in progress |
| `load`, `reply`, `poll`, `pollReply` | requests of `load`/`refreshDetail` and of `reconcileRunningSession`, and their answers |

`ReadDetail` and `WriteSnapshot` are the two halves of the session's handler: it
reads the session, awaits the git information, and only then subscribes.  A
completion brings along the text that was not sent yet, a stop does not
(`CatchesUp`).  Other frames (`user.message`, `diff.updated`, an approval's resolution,
and the one more that a failed session has in its snapshot) take numbers too and are left
out: they are more of what can change the content behind a number, and `write` treats
them no differently.

**`TaskLifecycleProofs`**, **`SessionLifecycleProofs`**, **`RemoteWorkerProofs`**,
**`WorkerApprovalProofs`**, **`NativeTerminalProofs`**, **`TerminalProcessProofs`** and
**`EventStreamProofs`** hold the theorems.

**`MCTaskLifecycle`**, **`MCSessionLifecycle`**, **`MCRemoteWorker`**, **`MCNativeTerminal`**
and **`MCEventStream`** are the instances for TLC.

## 3. The runs

| Run | Question | Instance |
|---|---|---|
| `task` | Do record, timers and askers of approvals stay consistent, does nothing start without consent or twice, does nothing but the known races leave a terminal status, do local runs and accepted cancellations end, is every request closed (`ApprovalDesk`)? | a local and a remote run, 2 approvals, 1 cancellation in flight, 1 restart, fair |
| `task_expired` | *violated*: a run whose approval expired is over | 1 run, 2 approvals |
| `task_pending` | *violated*: a pending approval is decided some day | 1 run, 1 approval, 1 restart, fair |
| `task_preflight` | *violated*: an approved run continues | 1 remote run, 1 approval, fair |
| `session` | Does a session hear its runs, drive one at a time, wait only for what can be decided? | 2 messages, 2 approvals, 1 cancellation in flight, 1 resume or restart |
| `session_expiry` | *violated*: an expiry fails the run | as `session` |
| `session_rollback` | *violated*: a terminal session does not go back to running | as `session` |
| `worker` | Is a run begun at most once and alone, does only a named fault leave one in progress, does a cancellation reach the agent, do approvals asked for over such connections keep the promises of `task` (answerable while a run waits, consent, `ApprovalDesk`)? | 2 runs, 1 approval, 1 claim under way, 1 cancellation, 1 restart of the host; any number of lost calls and deaths of the worker |
| `terminal` | Do timers match sockets, do terminals follow the connection, are requests watched, is a process created once, killed after it was created and silent after its exit, does only an unreachable worker leave one behind? | a terminal of the worker and one of the host, 2 browsers, 2 connections used again without end, 1 request |
| `terminal_orphans` | *violated*: every terminal's process ends | 1 terminal, 1 browser, 1 connection, fair, a host that stays |
| `stream` | Is a page told what the numbers promise, does the page of a run implement `LogFeed`, does a page come to see and show the end? | both pages, 3 events, 2 faults, 2 requests under way, fair |
| `stream_snapshot` | *violated*: a workbench that connects is sent the snapshot | 3 events, 2 faults |

Bounds, and why they are enough.

* `task`: runs share only the worker's queue, so one local and one remote run show
  the interactions; two approvals give a run a preflight and a request, or two
  requests at once; one cancellation may overlap any end.  The theorems of section 4
  cover the safety part for every bound.  Two runs of one worker are in `worker`.
* `session`: two messages let the second be posted at any moment of the first one's
  end; `MaxUpsets` bounds resumes and restarts together.
* `worker`: `Slot` names claims under way: one name is taken again as soon as its claim
  is nowhere any more.  With two runs and one name, TLC covers a claim that is given up
  while its answer is already on its way, and the claim that follows.  A given-up request
  that is still on its way to the host keeps the name, so that one arriving beside a
  later claim is covered by the theorem `WorkerRunsOne` alone, which is about any number
  of names (two of them are above 1.4 million states, too many with the liveness of this
  run).
* `terminal`: two connections let the close of the old one be heard after the
  takeover, two browsers let one leave while the other comes; connections, browsers
  and the worker come back for ever.  Theorems cover any number of each.
* `stream`: `MaxEvents = 3` leaves room for something before, within and after a gap;
  `MaxFaults = 2` is shared by lost connections and failed requests, and lets a gap
  follow a gap; two requests under way let an older answer overtake.

Symmetry is used in runs without liveness only.  `CHECK_DEADLOCK FALSE` because ids
and logs are finite: when all is over and no id is left, the model stops.

Fairness.

* `task` (`FairSpec`): timers fire, continuations of settled promises run,
  `executor.cancelTask` returns (the executors close their process or connection in a
  `finally`), and a worker that is idle claims what is queued.  Nothing is assumed of
  executors, agents or people: `LocalRunEnds` rests on the maximum duration alone.
  What the model takes from the executors in `src/` is that `startTask` does not
  return before it has reported an outcome, unless the run was told to stop.
* `worker`: the host answers polls (weak), and not every answer to a poll is lost
  (strong, since each poll is a new attempt of an interval timer).
* `terminal_orphans` (`SteadySpec`): timers fire, what arrives is read, the worker
  reconnects, and the host does not end: the strongest conditions under which the
  statement could be expected to hold.
* `stream`: the host answers, the network delivers, and the page's reconnection and
  polling timers run (they do until the page is closed).  The three disjunctions
  are each fair as a whole: each is a finite chain of steps of one page.  Faults are
  finite; nothing need happen in the session.

### What the violations say

1. `task_expired`: `resolveApproval` sets the run to `running` without a look at its
   status (task-service.ts:696).  With two pending approvals, one expires and
   fails the run, and the decision of the other sets it running again, with no
   duration timer left.  `docs/architecture.md:236` promises a failed run.
2. `task_pending`: approvals pending at a restart have no timer and no resolver
   any more; they stay pending although `docs/security.md:47` has them rejected.
3. `task_preflight`: the preflight takes a remote run from `queued` to
   `waiting_approval` to `running`; the worker claims only `queued` runs.  Approve
   does not continue it (`docs/agent-workbench-acceptance.md:81`).
4. `session_expiry`: the approval of an archived (or failed) session expires; the
   listener refuses the transition inside the timer callback, so the run is not
   failed and the process ends.
5. `session_rollback`: `task.progress` writes `running` without the transition check
   that `tests/prd-acceptance.test.ts:55` relies on.
6. `terminal_orphans`: a terminal that ends while its worker is not connected is
   forgotten by the host; when the worker reconnects its process is still there and
   nobody kills it, although `docs/agent-workbench.md:62` says that orphaned PTYs are
   not left running.
7. `stream_snapshot`: each connection of the workbench numbers its frames from 1 anew
   and skips those up to the page's `lastEventId` (agent-session-event-routes.ts:50).
   After a loss, the frames skipped need not be the ones the page has seen: a text is one
   frame of the snapshot that keeps its number while it grows (the shortest trace), and
   live frames use up numbers that the next snapshot gives to others.  `docs/api.md:255`
   says the stream replays the snapshot first.  (`EndIsSeen` holds all the same: the recovery poll sees the end.)

### What the passing runs rest on

Some hold for a reason a reader would not expect, which the models keep:

* `BegunOnce` holds because a claim is a guarded update of `queued`: a repeated claim
  is answered with another run or none.  The price is `AbandonedOnlyByFault`: a run
  whose claim was answered in vain stays `running` for ever, for the host has no
  time limit for remote runs.
* `HomedOnCurrentBridge` needs both the takeover of all terminals of the device at a
  connection and the comparison `remoteWorkers.get(...) === connection` at a close.
* `ShownOnlyWhenConnected` cannot be turned round: a missed heartbeat hides a
  connection that is still open, and the heartbeat that follows sets the device online
  without showing its connection again, until the worker reconnects.
* `OrphanedOnlyByFault` excludes only what `unreached` names, the ends of terminals
  the worker could not be told of.  The host's own death is among them, and
  `TypingThrows` is one way there: keystrokes for a terminal whose connection is gone
  throw in the handler of a socket.
* `CreatedOnce` and `ExitIsLast` hold because the host asks for a process only in the
  step that makes the record of its terminal, and every later attach sends a resize:
  a terminal that moves to a new connection is never created again there.
* `OneRunAtATime` is about sessions nobody resumed: `resume` makes a session idle whatever
  is in progress, and a second run may start beside the first.  Nothing forbids it, so no
  property does; the runs of such sessions are in the model all the same.
* `StartNeedsConsent` holds of a worker because a claim takes only `queued` runs, and a
  run with a preflight never is (the other side of the third violation above).
* `EndIsShown` allows for the failure of a request, and says that the page shows the
  end at some time: an older answer that comes later replaces it.

## 4. What is proved

TLAPS proves the following for all sets of runs, approvals, messages, terminals,
browsers, connections and requests, and for all bounds.  The assumptions are the
named ones of the modules: `ConstantsAssumption` (remote runs are runs, the null
values are not ids, bounds are natural numbers), `SessionAssumption` (the session's
device is the host, so no run of it is remote), `NoBridgeAssumption` and
`TerminalAssumption` (null values are not ids), `WorkerAssumption` (no run has the
name of an answer), `StreamAssumption` (the pages are the
two there are, bounds are natural numbers).

| Theorem | Statement | Rests on |
|---|---|---|
| `TypeCorrect` | `TypeOK` | inductive by itself |
| `BrokerCorrect`, `AnswersCorrect` | `BrokerConsistent`, `AnswerMatchesRow` | `Broker`: the two with the types |
| `WaitingCorrect` | `WaitingIsAnswerable` | `Broker` |
| `DriverCorrect` | `DriverConsistent` | `Driver`: with `Broker` |
| `StartsOnce` | `StartedOnce` | `Driver`: a run that is queued, or whose driver waits, was not started |
| `ConsentCorrect`, `TerminalCorrect` | the action properties `StartNeedsConsent`, `TerminalLeftOnlyByRace` | `Driver` in the state before the step |
| `DeskCorrect` | the safety part of the refinement of `ApprovalDesk` | `Broker`: an asker's promise is open exactly when the row can still be decided |
| `SessionTypesHold`, `SessionHears`, `SessionRunsOne`, `SessionWaits` | the invariants of `session` | `SInv` |
| `SessionNeedsConsent` | `StartNeedsConsent` of a session's runs | `CInv`: `SInv` with `Preflights` |
| `SessionStartsOnce`, `SessionEndsStay` | `StartedOnce`, `TerminalLeftOnlyByRace` of a session's runs | `GInv`: `CInv` with `Gates` |
| `WorkerTypesHold`, `RunsBeginOnce`, `WorkerRunsOne`, `RunsAreReported` | the invariants of `worker` | `WInv` |
| `LateCallsAreRefused` | `TerminalLeftOnlyByRace` over the network of `worker` | types only: each route looks at the status |
| `WorkerBrokerHolds`, `WorkerWaits`, `WorkerLeavesGated`, `WorkerNeedsConsent` | `BrokerConsistent`, `WaitingIsAnswerable`, `DriverConsistent`, `StartNeedsConsent` over the network of `worker` | `WInv` and `AskInv`: `Driver` with `Launched` |
| `WorkerDeskHolds` | the safety part of the refinement of `ApprovalDesk`, over the network of `worker` | `AskInv` |
| `TypesHold`, `TimersMatch`, `TerminalsAreHomed`, `RequestsAreWatched`, `StatusIsHonest` | the invariants of `terminal` about terminals, requests and the device | `Inv`, their conjunction |
| `NoSilentOrphans`, `ProcessesStartOnce`, `LateProcessesAreKilled`, `ExitsAreFinal` | `OrphanedOnlyByFault`, `CreatedOnce`, `KilledAfterCreated`, `ExitIsLast` | `ProcessInv`, with `Inv` |
| `StreamTypes`, `NumbersAlwaysRise`, `StreamAlwaysTells` | the invariants of `stream` | `Inv` of EventStreamProofs |
| `PageFollowsFeed` | the safety part of the refinement of `LogFeed` | `Inv` before the step |

*TaskLifecycle.*  The key is `DriverConsistent`: `executeTask` overwrites the status
without looking at it, and starts the run.  That is safe only because a run whose
preflight is granted is still running, uncancelled and unreported when its driver
continues, which in turn holds because the continuation comes before the next
request or timer.  `StartedOnce` and `StartNeedsConsent` are not inductive without it.

*SessionLifecycle.*  Every action but the *Aborted* ones is shown to be a step of
TaskLifecycle with an effect on the session (`SessionStepIsRunStep`), so the facts
about runs are proved once for all of them; the five in which the listener throws
are proved one by one, because they write only part of what TaskLifecycle writes.
Such a state breaks TaskLifecycle's own invariants (an asker waits for a row that is
decided, say), so `SInv` keeps only what survives: `Drivers` (a run that does not exist has no
driver, one that is carried out waits for no preflight, a resolver has a row) and
`IdleIsFree` (a session that takes a message has nothing in progress), which is what
makes `OneRunAtATime` inductive.  `SessionNeedsConsent` needs to know in addition that a
granted answer has an approved row, and that an approval of a run whose driver
waits is the one it waits for.  `DriverConsistent` itself fails here (a rejection that
the listener refused leaves a driver waiting for ever); `Gates` says what is left
of it: a driver that is told yes finds its run running, uncancelled and never started.

*RemoteWorker.*  What the host does beside the worker's calls is a step of TaskLifecycle,
and leaves the worker's side of a run alone (`HostEffect`).  `WInv` adds that the worker
waits for one answer at a time (`OneCall`), that an answered claim is not in the outbox
any more and hands out a run that is not begun (`OneAnswer`), and that whatever the
worker takes for the end of a run - an answered report, a told-to-stop executor, a
report on its way that nobody waits for - is its end, or follows a fault (`Ends`).
The promises about approvals need one more fact, `Launched`: whatever the worker carries
out, reports or asks about was handed out.  A run whose preflight is open was not, so no
call meets it however late it is, and `Driver` of TaskLifecycle stays inductive; the steps
of the host beside the worker's calls take their proofs from there.

*NativeTerminal.*  The five invariants are inductive together: the timers of a terminal
can be said only of one whose browsers are on the connection the host holds, and a
request is watched only as long as its connection is not closed.

*Processes of the terminals.*  `OrphanedOnlyByFault` is about messages that are under way,
so the invariant follows them: where each stands in its queue (`Places`), that a process is
asked for at most once and before its kill, that its exit comes after it has ended, and
that only the connection the worker is on has messages to it (`QueuesOnLink`).  The lemmas say what
sending, taking and losing a message do to places; each action is then quiet for a terminal,
asks for its process, kills it or lets it exit.

*EventStream.*  `Inv` adds to the invariants where the numbers stand to each other
(`Numbering`: what a connection has sent is numbered above what the page had; `InOrder`:
what is under way to the page of a run is the end of the log, without a gap), that
nothing follows the end (`EndsOnce`), and what a connection owes the page, received or
under way (`Told`).  `StreamTellsAll` is `Told` with nothing under way.

Only model-checked: all liveness (`LocalRunEnds`, `CancelEndsRun`, `CancelReachesWorker`,
`EndIsSeen`, `EndIsShown`, the fairness parts of `DeskSpec` and `FeedSpec`), since liveness
under fairness is out of the prover's reach.  Every invariant and every safety action
property that a passing run checks is proved.

## 5. Not modelled

* *Sessions*: remote devices (there `postMessage` awaits the worker's baseline between
  its check and the creation of the run, so two messages may both pass); the guard
  against two sessions in one worktree; forks, switches of model, slash and native
  commands, the init_claude approval; retry of a run as a child with a count.
* *Terminals*: authorizations of shells, the replay buffer, the mirrored state; what
  the workspace operations do to files.
* *Streams*: heartbeats, partial text (not stored, so never sent again), the order of
  events within a timeline, and short pieces of text that the workbench takes for
  duplicates.  A page that leaves while the handler awaits is never unsubscribed (the
  handler listens for the close only afterwards); no property is about the host's
  memory.
* *Telegram*: its decisions are those of any person.  Its order of updates (by the
  largest number recorded), the tokens of buttons, and streamed edits racing the final
  one are real concurrency, but neither docs nor tests promise anything about them.
* *JSON-RPC client of the Codex app server, command-line executors*: what they can do
  to a run is the environment of TaskLifecycle (report, fail, ask, stop, or never
  answer).
* *Diff and discard*: git and the file system do the work.  *Permission rules*: pattern
  matching; only its three outcomes appear.  *Usage accounting*: sums of data.
  *Rate limit*: one call at a time over the clock.
* Model registry, provider configuration, evaluation, RAG, MCP, metrics, audit,
  projects, devices, logger, shared types, the AI service and presentation in the web
  client: CRUD, parsing and layout, without control of their own.

What could be taken next: a session of a remote device, with its await; the Telegram
gateway, once its behaviour under redelivery is documented.
