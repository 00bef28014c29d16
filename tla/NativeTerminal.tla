--------------------------- MODULE NativeTerminal ---------------------------
(***************************************************************************)
(* The terminals of apps/host/src/services/native-terminal-service.ts.     *)
(* A terminal is a PTY, on the host or on the worker of a remote device,   *)
(* and a record on the host that browsers attach to and leave.  The record *)
(* ends when the PTY exits, when a browser kills it, when it has had no    *)
(* browser for IDLE_TTL_MS or when it is MAX_SESSION_TTL_MS old.           *)
(***************************************************************************)
EXTENDS WorkspaceBridge, Naturals

CONSTANTS
  Terminal,
  Local,      \* the terminals on the host itself
  NoTerminal,
  Browser     \* sockets of browsers; one that is closed may be opened again

ASSUME TerminalAssumption == Local \subseteq Terminal /\ NoTerminal \notin Terminal

VARIABLES
  life,      \* "none", "live" (in the registry) or "over"
  home,      \* session.worker
  members,   \* connection.sessions of each connection
  sockets,   \* session.sockets
  timers,    \* the timers of a terminal that run: "idle", "max"
  browser,   \* "off", "open", or "closing": closed by the host, not yet heard of
  at,        \* the terminal whose handlers the socket has, or NoTerminal
  pty,       \* terminals whose process runs
  unreached  \* terminals that ended on the host while the worker could not hear it

termVars == <<life, home, members, sockets, timers, browser, at, pty, unreached>>
vars == <<wireVars, termVars>>

Remote == Terminal \ Local

Downward == [type : {"request"}, id : Request] \cup [type : {"create", "kill"}, id : Remote]
Upward == [type : {"result"}, id : Request] \cup [type : {"exit"}, id : Remote]

(* Mutant: the terminals of every device. *)
AliveAnywhere == {t \in Terminal : life[t] = "live"}

(* The terminals of the device that the host has on record. *)
Alive == {t \in Remote : life[t] = "live"}

(* Terminals that a message under way is going to kill. *)
KillsOn(b) == {t \in Remote : \E i \in 1..Len(down[b]) : down[b][i] = [type |-> "kill", id |-> t]}
Doomed == UNION {KillsOn(b) : b \in Bridge}

Init ==
  /\ WireInit
  /\ life = [t \in Terminal |-> "none"]
  /\ home = [t \in Terminal |-> NoBridge]
  /\ members = [b \in Bridge |-> {}]
  /\ sockets = [t \in Terminal |-> {}]
  /\ timers = [t \in Terminal |-> {}]
  /\ browser = [c \in Browser |-> "off"]
  /\ at = [c \in Browser |-> NoTerminal]
  /\ pty = {} /\ unreached = {}

-----------------------------------------------------------------------------
(* Browsers come.                                                          *)

Attached == UNION {sockets[t] : t \in Terminal}

Free(c) == browser[c] = "off" /\ c \notin Attached

(* Mutant: a browser that comes back leaves the idle timer running. *)
WatchLeavesIdle(t) == [timers EXCEPT ![t] = IF life[t] = "none" THEN {"max"} ELSE @]

(* A new terminal gets its maximum duration, an old one loses its idle timer. *)
Watch(t) == [timers EXCEPT ![t] = IF life[t] = "none" THEN {"max"} ELSE @ \ {"idle"}]

(* A new terminal, or one that is not over yet. *)
Resolve(t) == life[t] # "over" /\ life' = [life EXCEPT ![t] = "live"]

(* resolveSession, attachSocket: pty.spawn and the record of a new one. *)
OpenLocal(c, t) ==
  /\ Free(c) /\ t \in Local
  /\ Resolve(t)
  /\ timers' = Watch(t)
  /\ pty' = pty \cup {t}
  /\ sockets' = [sockets EXCEPT ![t] = @ \cup {c}]
  /\ browser' = [browser EXCEPT ![c] = "open"]
  /\ at' = [at EXCEPT ![c] = t]
  /\ UNCHANGED <<wireVars, home, members, unreached>>

(* The session belongs to the connection of the moment. *)
Rehome(t) == /\ home' = [home EXCEPT ![t] = current]
             /\ members' = [members EXCEPT ![current] = @ \cup {t}]

(* assertRemoteTerminalAllowed *)
TerminalAllowed == online /\ current # NoBridge

(* Mutant: every browser that opens the terminal has it created. *)
AskAgain(t) == Carried(down, current, [type |-> "create", id |-> t])

(* The worker is asked for the process of a new terminal. *)
AskFor(t) == IF life[t] = "none" THEN Carried(down, current, [type |-> "create", id |-> t])
                                 ELSE down

(* resolveRemoteSession, attachRemoteClient and the message to the worker. *)
(* The message throws when the connection is closing: the browser is sent  *)
(* away, without the handlers that would take it off the terminal.         *)
OpenRemote(c, t) ==
  /\ Free(c) /\ t \in Remote
  /\ TerminalAllowed
  /\ Resolve(t)
  /\ timers' = Watch(t)
  /\ sockets' = [sockets EXCEPT ![t] = @ \cup {c}]
  /\ Rehome(t)
  /\ IF Usable
       THEN /\ browser' = [browser EXCEPT ![c] = "open"]
            /\ at' = [at EXCEPT ![c] = t]
            /\ down' = AskFor(t)
       ELSE /\ browser' = [browser EXCEPT ![c] = "closing"]
            /\ UNCHANGED <<at, down>>
  /\ UNCHANGED <<ws, current, online, shown, link, up, requestVars, pty, unreached>>

-----------------------------------------------------------------------------
(* Terminals end.                                                          *)

(* The sockets of the terminals are asked to close. *)
Dismiss(ts) ==
  /\ browser' = [c \in Browser |->
                   IF browser[c] = "open" /\ \E t \in ts : c \in sockets[t]
                     THEN "closing" ELSE browser[c]]
  /\ sockets' = [t \in Terminal |-> IF t \in ts THEN {} ELSE sockets[t]]

End(t) == /\ life' = [life EXCEPT ![t] = "over"]
          /\ timers' = [timers EXCEPT ![t] = {}]
          /\ Dismiss({t})

(* Mutant: the record ends and the worker is not told. *)
TellNobody(t) == UNCHANGED <<down, unreached>>

(* Mutant: the kill overtakes what was sent before it. *)
TellFirst(t) ==
  IF Usable /\ Reaches(current)
    THEN /\ down' = [down EXCEPT ![current] = <<[type |-> "kill", id |-> t]>> \o @]
         /\ UNCHANGED unreached
    ELSE unreached' = unreached \cup {t} /\ UNCHANGED down

(* The worker is told to kill the process, if it can be. *)
TellWorker(t) ==
  IF Usable /\ Reaches(current)
    THEN down' = Carried(down, current, [type |-> "kill", id |-> t]) /\ UNCHANGED unreached
    ELSE unreached' = unreached \cup {t} /\ UNCHANGED down

(* killSession, killRemoteSession *)
Kill(t) ==
  /\ End(t)
  /\ members' = [b \in Bridge |-> IF b \in {current, home[t]} THEN members[b] \ {t}
                                                             ELSE members[b]]
  /\ IF t \in Local THEN pty' = pty \ {t} /\ UNCHANGED <<down, unreached>>
                    ELSE TellWorker(t) /\ UNCHANGED pty
  /\ UNCHANGED <<ws, current, online, shown, link, up, requestVars, home>>

(* The idle timer and the maximum duration. *)
IdleFires(t) == "idle" \in timers[t] /\ sockets[t] = {} /\ Kill(t) /\ UNCHANGED at
MaxFires(t) == "max" \in timers[t] /\ Kill(t) /\ UNCHANGED at

(* The process ends by itself.  On the host that ends the terminal, on the *)
(* worker it is reported over the connection of the moment.                *)
PtyExits(t) ==
  /\ t \in pty
  /\ pty' = pty \ {t}
  /\ IF t \in Local
       THEN End(t) /\ UNCHANGED up
       ELSE WorkerSends([type |-> "exit", id |-> t]) /\ UNCHANGED <<life, timers, browser, sockets>>
  /\ UNCHANGED <<ws, current, online, shown, link, down, requestVars, home, members, at, unreached>>

(* handleRemoteWorkerMessage, exit: from any connection of the device. *)
HostTakesExit(b) ==
  /\ ws[b] # "off" /\ up[b] # <<>> /\ Head(up[b]).type = "exit"
  /\ up' = [up EXCEPT ![b] = Tail(@)]
  /\ LET t == Head(up[b]).id
     IN  IF life[t] = "live"
           THEN End(t) /\ members' = [members EXCEPT ![b] = @ \ {t}]
           ELSE UNCHANGED <<life, timers, browser, sockets, members>>
  /\ UNCHANGED <<ws, current, online, shown, link, down, requestVars, home, at, pty, unreached>>

-----------------------------------------------------------------------------
(* The host ends.  It may be stopped or killed, and it dies of a message   *)
(* that throws in the handler of a socket, as nothing catches it.          *)
HostDies ==
  /\ HostGone
  /\ life' = [t \in Terminal |-> IF life[t] = "live" THEN "over" ELSE life[t]]
  /\ unreached' = unreached \cup Alive \cup Doomed
  /\ home' = [t \in Terminal |-> NoBridge]
  /\ members' = [b \in Bridge |-> {}]
  /\ sockets' = [t \in Terminal |-> {}]
  /\ timers' = [t \in Terminal |-> {}]
  /\ browser' = [c \in Browser |-> "off"]
  /\ at' = [c \in Browser |-> NoTerminal]
  /\ pty' = pty \ Local

-----------------------------------------------------------------------------
(* Browsers speak and go.  A socket the host has closed still delivers     *)
(* what was under way.                                                     *)

Listening(c) == browser[c] # "off" /\ at[c] # NoTerminal

(* Keystrokes and sizes for a terminal of the worker: the session is put   *)
(* on the connection of the moment, even when it is over.                  *)
BrowserTypes(c) ==
  /\ Listening(c) /\ at[c] \in Remote /\ Usable
  /\ Rehome(at[c])
  /\ UNCHANGED <<wireVars, life, sockets, timers, browser, at, pty, unreached>>

(* Without an open connection sendRemoteWorkerMessage throws. *)
TypingThrows(c) ==
  /\ Listening(c) /\ at[c] \in Remote /\ ~Usable
  /\ HostDies

Closing(c) == browser' = [browser EXCEPT ![c] = "closing"]

BrowserKills(c) ==
  /\ Listening(c)
  /\ IF life[at[c]] = "live"
       THEN Kill(at[c]) /\ UNCHANGED at
       ELSE Closing(c) /\ UNCHANGED <<wireVars, life, home, members, sockets, timers, at, pty, unreached>>

(* Any other message makes the host close the socket. *)
BrowserSaysClose(c) ==
  /\ Listening(c) /\ browser[c] = "open"
  /\ Closing(c)
  /\ UNCHANGED <<wireVars, life, home, members, sockets, timers, at, pty, unreached>>

(* scheduleIdleCleanup, scheduleRemoteIdleCleanup *)
IdleOnce(t, left) ==
  IF life[t] # "live" \/ left # {} THEN timers[t] ELSE timers[t] \cup {"idle"}

(* The close event of a socket.  One that was sent away has no handler. *)
BrowserCloses(c) ==
  /\ browser[c] # "off"
  /\ browser' = [browser EXCEPT ![c] = "off"]
  /\ at' = [at EXCEPT ![c] = NoTerminal]
  /\ IF at[c] = NoTerminal
       THEN UNCHANGED <<sockets, timers>>
       ELSE LET left == sockets[at[c]] \ {c}
            IN  /\ sockets' = [sockets EXCEPT ![at[c]] = left]
                /\ timers' = [timers EXCEPT ![at[c]] = IdleOnce(at[c], left)]
  /\ UNCHANGED <<wireVars, life, home, members, pty, unreached>>

-----------------------------------------------------------------------------
(* Connections come and go.                                                *)

(* The new connection takes over every terminal of the device. *)
BridgeConnects(b) ==
  /\ BridgeOpens(b)
  /\ home' = [t \in Terminal |-> IF t \in Alive THEN b ELSE home[t]]
  /\ members' = [members EXCEPT ![b] = Alive]
  /\ UNCHANGED <<life, sockets, timers, browser, at, pty, unreached>>

(* Mutant: whose connection a terminal has now is not asked. *)
AllOf(b) == members[b] \cap Alive

(* The terminals that are still on the connection that closes. *)
StrandedBy(b) == {t \in members[b] \cap Alive : home[t] = b}

(* The browsers of these terminals are sent away and their idle timers armed. *)
BridgeEnds(b) ==
  /\ BridgeCloses(b)
  /\ home' = [t \in Terminal |-> IF t \in StrandedBy(b) THEN NoBridge ELSE home[t]]
  /\ members' = [members EXCEPT ![b] = {}]
  /\ Dismiss(StrandedBy(b))
  /\ timers' = [t \in Terminal |-> IF t \in StrandedBy(b) THEN IdleOnce(t, {}) ELSE timers[t]]
  /\ unreached' = unreached \cup KillsOn(b)
  /\ UNCHANGED <<life, at, pty>>

WorkerLosesLink ==
  /\ LinkLost
  /\ unreached' = unreached \cup KillsOn(link)
  /\ UNCHANGED <<life, home, members, sockets, timers, browser, at, pty>>

(* The worker's process ends, and its terminals and requests with it. *)
WorkerDies ==
  /\ link' = NoBridge /\ working' = {}
  /\ down' = [b \in Bridge |-> <<>>]
  /\ pty' = pty \cap Local
  /\ UNCHANGED <<ws, current, online, shown, up, request, via, deadline,
                 life, home, members, sockets, timers, browser, at, unreached>>

(* createTerminal, which may fail, and handleTerminalBridgeCommand, kill. *)
WorkerTakesCommand ==
  /\ link # NoBridge /\ down[link] # <<>>
  /\ LET m == Head(down[link])
     IN  \/ m.type = "create" /\ pty' \in {pty, pty \cup {m.id}}
         \/ m.type = "kill" /\ pty' = pty \ {m.id}
  /\ down' = [down EXCEPT ![link] = Tail(@)]
  /\ UNCHANGED <<ws, current, online, shown, link, up, requestVars,
                 life, home, members, sockets, timers, browser, at, unreached>>

-----------------------------------------------------------------------------
WireSteps == /\ \/ HeartbeatMissed \/ HeartbeatArrives
                \/ \E b \in Bridge : PongTimeout(b) \/ HostTakesResult(b)
                \/ \E r \in Request : SendRequest(r) \/ RequestTimesOut(r) \/ WorkerAnswers(r)
                \/ WorkerTakesRequest
             /\ UNCHANGED termVars

Steps ==
  \/ \E c \in Browser : \/ \E t \in Terminal : OpenLocal(c, t) \/ OpenRemote(c, t)
                         \/ BrowserTypes(c) \/ BrowserKills(c)
                         \/ BrowserSaysClose(c) \/ BrowserCloses(c)
  \/ \E t \in Terminal : IdleFires(t) \/ MaxFires(t) \/ PtyExits(t)
  \/ \E b \in Bridge : BridgeConnects(b) \/ BridgeEnds(b) \/ HostTakesExit(b)
  \/ WorkerLosesLink \/ WorkerDies \/ WorkerTakesCommand
  \/ WireSteps

Next == Steps \/ HostDies \/ \E c \in Browser : TypingThrows(c)

Spec == Init /\ [][Next]_vars

(* The timers fire, the worker connects again when its connection is gone, *)
(* and what arrives is read.                                               *)
Fairness ==
  /\ \A t \in Terminal : WF_vars(IdleFires(t)) /\ WF_vars(MaxFires(t))
  /\ \A b \in Bridge : WF_vars(HostTakesExit(b))
  /\ WF_vars(\E b \in Bridge : BridgeConnects(b))
  /\ WF_vars(WorkerTakesCommand)

(* As long as the host does not end. *)
SteadySpec == Init /\ [][Steps]_vars /\ Fairness

-----------------------------------------------------------------------------
(* Properties.                                                             *)

WireTypeOK ==
  /\ ws \in [Bridge -> {"off", "open", "closing"}]
  /\ current \in Bridge \cup {NoBridge} /\ link \in Bridge \cup {NoBridge}
  /\ online \in BOOLEAN /\ shown \in BOOLEAN
  /\ down \in [Bridge -> Seq(Downward)] /\ up \in [Bridge -> Seq(Upward)]
  /\ request \in [Request -> {"none", "pending", "done", "failed"}]
  /\ via \in [Request -> Bridge \cup {NoBridge}]
  /\ deadline \subseteq Request /\ working \subseteq Request

(* Every variable has its type, those of the connections included.         *)
TerminalTypeOK ==
  /\ WireTypeOK
  /\ life \in [Terminal -> {"none", "live", "over"}]
  /\ home \in [Terminal -> Bridge \cup {NoBridge}]
  /\ members \in [Bridge -> SUBSET Remote]
  /\ sockets \in [Terminal -> SUBSET Browser]
  /\ timers \in [Terminal -> SUBSET {"idle", "max"}]
  /\ browser \in [Browser -> {"off", "open", "closing"}]
  /\ at \in [Browser -> Terminal \cup {NoTerminal}]
  /\ pty \subseteq Terminal /\ unreached \subseteq Remote

(* A live terminal always has its maximum duration, and its idle timer     *)
(* exactly while no socket is attached; one that is over has neither, and  *)
(* no socket: a timer never ends a terminal that a browser is using.       *)
TimersMatchSockets ==
  \A t \in Terminal :
    IF life[t] = "live" THEN /\ "max" \in timers[t]
                             /\ "idle" \in timers[t] <=> sockets[t] = {}
                        ELSE timers[t] = {} /\ sockets[t] = {}

(* The live terminals of the device are on the connection the host holds,  *)
(* which knows them, so its close will find them; without a connection     *)
(* they have no browser.  The late close of an earlier one changes nothing. *)
HomedOnCurrentBridge ==
  /\ current # NoBridge => ws[current] # "off"
  /\ \A t \in Alive : /\ home[t] = current
                      /\ current = NoBridge => sockets[t] = {}
                      /\ current # NoBridge => t \in members[current]

(* A request waits only while its timer runs and its connection is not     *)
(* closed: however it ends, it ends once and leaves no timer.              *)
PendingIsWatched ==
  /\ deadline = {r \in Request : request[r] = "pending"}
  /\ \A r \in deadline : via[r] \in Bridge /\ ws[via[r]] # "off"

(* The device is never shown connected without a connection.  (The other   *)
(* way round fails: a missed heartbeat hides a connection that stays.)     *)
ShownOnlyWhenConnected == shown => current # NoBridge /\ online

(* A process of the worker whose terminal is over is one that a message is *)
(* on its way to kill, or one that the host could not reach when it ended. *)
OrphanedOnlyByFault ==
  \A t \in pty : life[t] = "live" \/ t \in unreached \/ t \in Doomed

(* Where a message stands in a queue. *)
Places(queue, type, t) == {i \in 1..Len(queue) : queue[i] = [type |-> type, id |-> t]}

(* A process is asked for once: never while it runs, and never twice on    *)
(* the way, so no worker starts two processes for one terminal.            *)
CreatedOnce ==
  \A b \in Bridge, t \in Remote : \A i \in Places(down[b], "create", t) :
    t \notin pty /\ life[t] # "none" /\ Places(down[b], "create", t) = {i}

(* A process that is still to be created for a terminal that is over has   *)
(* its kill behind it in the queue, or was beyond the host's reach.        *)
KilledAfterCreated ==
  \A b \in Bridge, t \in Remote : \A i \in Places(down[b], "create", t) :
    \/ life[t] = "live" \/ t \in unreached
    \/ \E j \in Places(down[b], "kill", t) : j > i

(* An exit under way is the last of its process: it does not run, and no   *)
(* message will start it, so the end of the terminal orphans nothing.      *)
ExitIsLast ==
  \A b \in Bridge, t \in Remote :
    Places(up[b], "exit", t) # {} =>
      /\ t \notin pty /\ life[t] # "none"
      /\ \A x \in Bridge : Places(down[x], "create", t) = {}

(* docs/agent-workbench.md: detached terminals are cleaned up after an     *)
(* idle timeout and all have a maximum lifetime, so that orphaned PTYs are *)
(* not left running.  (One whose terminal ends while the worker is away is *)
(* never told.)                                                            *)
PtysEnd == \A t \in Terminal : t \in pty ~> t \notin pty
=============================================================================
