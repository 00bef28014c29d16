------------------------ MODULE NativeTerminalProofs ------------------------
(***************************************************************************)
(* What NativeTerminal keeps true for any number of terminals, browsers,   *)
(* connections and requests.                                               *)
(*                                                                         *)
(* The conjunction of the invariants is inductive: that the close of a     *)
(* connection finds every terminal it has to release rests on their homes, *)
(* and that an idle timer runs exactly when it should rests on that.       *)
(***************************************************************************)
EXTENDS NativeTerminal, TLAPS

Inv == /\ TerminalTypeOK
       /\ TimersMatchSockets
       /\ HomedOnCurrentBridge
       /\ PendingIsWatched
       /\ ShownOnlyWhenConnected

USE NoBridgeAssumption, TerminalAssumption

-----------------------------------------------------------------------------
(* The initial states satisfy the invariant. *)
LEMMA InitInv == Init => Inv
<1> SUFFICES ASSUME Init PROVE Inv
  OBVIOUS
<1>1. <<>> \in Seq(Downward) /\ <<>> \in Seq(Upward)
  OBVIOUS
<1>2. WireTypeOK
  BY <1>1 DEF Init, WireInit, WireTypeOK
<1>3. TerminalTypeOK
  BY <1>2 DEF Init, TerminalTypeOK
<1>4. Alive = {}
  BY DEF Init, Alive, Remote
<1>5. TimersMatchSockets
  BY DEF Init, TimersMatchSockets
<1> QED
  BY <1>3, <1>4, <1>5 DEF Init, WireInit, Inv, HomedOnCurrentBridge, PendingIsWatched,
                          ShownOnlyWhenConnected

-----------------------------------------------------------------------------
(* The steps of connections and requests that touch no terminal. *)

LEMMA HeartbeatMissedInv == ASSUME Inv, HeartbeatMissed, UNCHANGED termVars PROVE Inv'
  BY DEF Inv, HeartbeatMissed, termVars, requestVars, WireTypeOK, TerminalTypeOK,
         TimersMatchSockets, HomedOnCurrentBridge, PendingIsWatched, ShownOnlyWhenConnected, Alive, Remote

LEMMA HeartbeatArrivesInv == ASSUME Inv, HeartbeatArrives, UNCHANGED termVars PROVE Inv'
  BY DEF Inv, HeartbeatArrives, termVars, requestVars, WireTypeOK, TerminalTypeOK,
         TimersMatchSockets, HomedOnCurrentBridge, PendingIsWatched, ShownOnlyWhenConnected, Alive, Remote

LEMMA PongTimeoutInv ==
  ASSUME Inv, NEW b \in Bridge, PongTimeout(b), UNCHANGED termVars PROVE Inv'
  BY DEF Inv, PongTimeout, termVars, requestVars, WireTypeOK, TerminalTypeOK,
         TimersMatchSockets, HomedOnCurrentBridge, PendingIsWatched, ShownOnlyWhenConnected, Alive, Remote

(* Messages sent and read keep the queues what they are. *)
LEMMA CarriedType ==
  ASSUME WireTypeOK, NEW b \in Bridge, NEW m \in Downward
  PROVE  Carried(down, b, m) \in [Bridge -> Seq(Downward)]
  BY DEF Carried, WireTypeOK

LEMMA WorkerSendsType ==
  ASSUME WireTypeOK, NEW m \in Upward, WorkerSends(m)
  PROVE  up' \in [Bridge -> Seq(Upward)]
  BY DEF WorkerSends, WireTypeOK

LEMMA HeadDown ==
  ASSUME WireTypeOK, NEW b \in Bridge, down[b] # <<>>
  PROVE  /\ Head(down[b]) \in Downward
         /\ [down EXCEPT ![b] = Tail(@)] \in [Bridge -> Seq(Downward)]
  BY DEF WireTypeOK

LEMMA HeadUp ==
  ASSUME WireTypeOK, NEW b \in Bridge, up[b] # <<>>
  PROVE  /\ Head(up[b]) \in Upward
         /\ [up EXCEPT ![b] = Tail(@)] \in [Bridge -> Seq(Upward)]
  BY DEF WireTypeOK

LEMMA SendRequestInv ==
  ASSUME Inv, NEW r \in Request, SendRequest(r), UNCHANGED termVars PROVE Inv'
<1>1. current \in Bridge /\ [type |-> "request", id |-> r] \in Downward
  BY DEF Inv, SendRequest, Usable, TerminalTypeOK, WireTypeOK, Downward
<1>2. down' \in [Bridge -> Seq(Downward)]
  BY <1>1, CarriedType DEF Inv, SendRequest, TerminalTypeOK
<1>3. TerminalTypeOK'
  BY <1>1, <1>2 DEF Inv, SendRequest, termVars, TerminalTypeOK, WireTypeOK
<1>4. PendingIsWatched'
  BY <1>1 DEF Inv, SendRequest, Usable, PendingIsWatched, TerminalTypeOK, WireTypeOK
<1> QED
  BY <1>3, <1>4 DEF Inv, SendRequest, termVars,
         TimersMatchSockets, HomedOnCurrentBridge, ShownOnlyWhenConnected, Alive

LEMMA RequestTimesOutInv ==
  ASSUME Inv, NEW r \in Request, RequestTimesOut(r), UNCHANGED termVars PROVE Inv'
  BY DEF Inv, RequestTimesOut, Settle, termVars, bridgeVars, WireTypeOK, TerminalTypeOK,
         TimersMatchSockets, HomedOnCurrentBridge, PendingIsWatched, ShownOnlyWhenConnected, Alive, Remote

LEMMA WorkerTakesRequestInv == ASSUME Inv, WorkerTakesRequest, UNCHANGED termVars PROVE Inv'
<1>1. link \in Bridge /\ down[link] # <<>>
  BY DEF Inv, WorkerTakesRequest, TerminalTypeOK, WireTypeOK
<1>2. Head(down[link]).id \in Request
  BY <1>1, HeadDown DEF Inv, WorkerTakesRequest, TerminalTypeOK, Downward
<1>3. down' \in [Bridge -> Seq(Downward)]
  BY <1>1, HeadDown DEF Inv, WorkerTakesRequest, TerminalTypeOK
<1>4. TerminalTypeOK'
  BY <1>2, <1>3 DEF Inv, WorkerTakesRequest, termVars, TerminalTypeOK, WireTypeOK
<1> QED
  BY <1>4 DEF Inv, WorkerTakesRequest, termVars, TimersMatchSockets, HomedOnCurrentBridge,
              PendingIsWatched, ShownOnlyWhenConnected, Alive

LEMMA WorkerAnswersInv ==
  ASSUME Inv, NEW r \in Request, WorkerAnswers(r), UNCHANGED termVars PROVE Inv'
<1>1. up' \in [Bridge -> Seq(Upward)]
  <2>1. [type |-> "result", id |-> r] \in Upward
    BY DEF Upward
  <2> QED
    BY <2>1, WorkerSendsType DEF Inv, WorkerAnswers, TerminalTypeOK
<1>2. TerminalTypeOK'
  BY <1>1 DEF Inv, WorkerAnswers, termVars, TerminalTypeOK, WireTypeOK
<1> QED
  BY <1>2 DEF Inv, WorkerAnswers, termVars, TimersMatchSockets, HomedOnCurrentBridge,
              PendingIsWatched, ShownOnlyWhenConnected, Alive

LEMMA HostTakesResultInv ==
  ASSUME Inv, NEW b \in Bridge, HostTakesResult(b), UNCHANGED termVars PROVE Inv'
<1> DEFINE r == Head(up[b]).id
<1>1. r \in Request
  BY HeadUp DEF Inv, HostTakesResult, TerminalTypeOK, Upward
<1>2. up' \in [Bridge -> Seq(Upward)]
  BY HeadUp DEF Inv, HostTakesResult, TerminalTypeOK
<1>3. CASE request[r] = "pending" /\ via[r] = b
  <2>1. PICK how \in {"done", "failed"} : Settle(r, how)
    BY <1>3 DEF HostTakesResult
  <2> HIDE DEF r
  <2>2. TerminalTypeOK'
    BY <1>1, <1>2, <2>1 DEF Inv, HostTakesResult, Settle, termVars, TerminalTypeOK, WireTypeOK
  <2>3. PendingIsWatched'
    BY <1>1, <2>1 DEF Inv, HostTakesResult, Settle, PendingIsWatched, TerminalTypeOK, WireTypeOK
  <2> QED
    BY <2>2, <2>3 DEF Inv, HostTakesResult, termVars, TimersMatchSockets, HomedOnCurrentBridge,
                      ShownOnlyWhenConnected, Alive
<1>4. CASE ~(request[r] = "pending" /\ via[r] = b)
  <2>1. UNCHANGED <<request, via, deadline>>
    BY <1>4 DEF HostTakesResult
  <2> QED
    BY <1>2, <2>1 DEF Inv, HostTakesResult, termVars, TerminalTypeOK, WireTypeOK, TimersMatchSockets,
                      HomedOnCurrentBridge, PendingIsWatched, ShownOnlyWhenConnected, Alive
<1> QED
  BY <1>3, <1>4

LEMMA WireStepsInv == ASSUME Inv, WireSteps PROVE Inv'
  BY HeartbeatMissedInv, HeartbeatArrivesInv, PongTimeoutInv, SendRequestInv, RequestTimesOutInv,
     WorkerTakesRequestInv, WorkerAnswersInv, HostTakesResultInv DEF WireSteps

-----------------------------------------------------------------------------
(* Terminals end. *)

(* The end of a terminal that was live: it has no timer and no socket. *)
LEMMA EndInv ==
  ASSUME Inv, NEW t \in Terminal, End(t)
  PROVE  /\ life' \in [Terminal -> {"none", "live", "over"}]
         /\ timers' \in [Terminal -> SUBSET {"idle", "max"}]
         /\ sockets' \in [Terminal -> SUBSET Browser]
         /\ browser' \in [Browser -> {"off", "open", "closing"}]
         /\ TimersMatchSockets'
         /\ \A u \in Alive' : u \in Alive /\ u # t /\ sockets'[u] = sockets[u]
  BY DEF Inv, End, Dismiss, TerminalTypeOK, TimersMatchSockets, Alive, Remote

(* What a terminal that ends may leave of the connections. *)
LEMMA EndKeepsHomes ==
  ASSUME Inv, NEW t \in Terminal, End(t), UNCHANGED <<ws, current, home>>,
         \A b \in Bridge : members[b] \ {t} \subseteq members'[b]
  PROVE  HomedOnCurrentBridge'
  BY EndInv DEF Inv, HomedOnCurrentBridge, TerminalTypeOK, WireTypeOK

LEMMA KillInv == ASSUME Inv, NEW t \in Terminal, Kill(t), UNCHANGED at PROVE Inv'
<1>1. down' \in [Bridge -> Seq(Downward)] /\ pty' \subseteq Terminal /\ unreached' \subseteq Remote
  <2>1. CASE t \in Local
    BY <2>1 DEF Kill, Inv, TerminalTypeOK, WireTypeOK
  <2>2. CASE t \in Remote /\ Usable /\ Reaches(current)
    <3>1. [type |-> "kill", id |-> t] \in Downward /\ current \in Bridge
      BY <2>2 DEF Downward, Usable, Inv, TerminalTypeOK, WireTypeOK
    <3> QED
      BY <2>2, <3>1, CarriedType DEF Kill, TellWorker, Inv, TerminalTypeOK, Remote
  <2>3. CASE t \in Remote /\ ~(Usable /\ Reaches(current))
    BY <2>3 DEF Kill, TellWorker, Inv, TerminalTypeOK, WireTypeOK, Remote
  <2> QED
    BY <2>1, <2>2, <2>3 DEF Remote
<1>2. members' \in [Bridge -> SUBSET Remote] /\ \A b \in Bridge : members[b] \ {t} \subseteq members'[b]
  BY DEF Kill, Inv, TerminalTypeOK
<1>3. TerminalTypeOK'
  BY <1>1, <1>2, EndInv DEF Kill, requestVars, Inv, TerminalTypeOK, WireTypeOK
<1>4. HomedOnCurrentBridge'
  BY <1>2, EndKeepsHomes DEF Kill
<1> QED
  BY <1>3, <1>4, EndInv DEF Kill, requestVars, Inv, PendingIsWatched, ShownOnlyWhenConnected

LEMMA PtyExitsInv == ASSUME Inv, NEW t \in Terminal, PtyExits(t) PROVE Inv'
<1>1. CASE t \in Local
  <2>1. TerminalTypeOK'
    BY <1>1, EndInv DEF PtyExits, requestVars, Inv, TerminalTypeOK, WireTypeOK
  <2>2. HomedOnCurrentBridge'
    BY <1>1, EndKeepsHomes DEF PtyExits
  <2> QED
    BY <1>1, <2>1, <2>2, EndInv DEF PtyExits, requestVars, Inv, PendingIsWatched, ShownOnlyWhenConnected
<1>2. CASE t \notin Local
  <2>1. [type |-> "exit", id |-> t] \in Upward
    BY <1>2 DEF Upward, Remote
  <2>2. up' \in [Bridge -> Seq(Upward)]
    BY <1>2, <2>1, WorkerSendsType DEF PtyExits, Inv, TerminalTypeOK
  <2>3. TerminalTypeOK'
    BY <1>2, <2>2 DEF PtyExits, requestVars, Inv, TerminalTypeOK, WireTypeOK
  <2> QED
    BY <1>2, <2>3 DEF PtyExits, requestVars, Inv, TimersMatchSockets, HomedOnCurrentBridge,
                      PendingIsWatched, ShownOnlyWhenConnected, Alive
<1> QED
  BY <1>1, <1>2

LEMMA HostTakesExitInv == ASSUME Inv, NEW b \in Bridge, HostTakesExit(b) PROVE Inv'
<1> DEFINE t == Head(up[b]).id
<1>1. t \in Terminal
  BY HeadUp DEF Inv, HostTakesExit, TerminalTypeOK, Upward, Remote
<1>2. up' \in [Bridge -> Seq(Upward)]
  BY HeadUp DEF Inv, HostTakesExit, TerminalTypeOK
<1>3. CASE life[t] = "live"
  <2>1. End(t) /\ members' = [members EXCEPT ![b] = @ \ {t}]
    BY <1>3 DEF HostTakesExit
  <2> HIDE DEF t
  <2>2. members' \in [Bridge -> SUBSET Remote] /\ \A x \in Bridge : members[x] \ {t} \subseteq members'[x]
    BY <2>1 DEF Inv, TerminalTypeOK
  <2>3. TerminalTypeOK'
    BY <1>1, <1>2, <2>1, <2>2, EndInv DEF HostTakesExit, requestVars, Inv, TerminalTypeOK, WireTypeOK
  <2>4. HomedOnCurrentBridge'
    BY <1>1, <2>1, <2>2, EndKeepsHomes DEF HostTakesExit
  <2> QED
    BY <1>1, <2>1, <2>3, <2>4, EndInv DEF HostTakesExit, requestVars, Inv, PendingIsWatched, ShownOnlyWhenConnected
<1>4. CASE life[t] # "live"
  <2>1. UNCHANGED <<life, timers, browser, sockets, members>>
    BY <1>4 DEF HostTakesExit
  <2> QED
    BY <1>2, <2>1 DEF HostTakesExit, requestVars, Inv, TerminalTypeOK, WireTypeOK, TimersMatchSockets,
                      HomedOnCurrentBridge, PendingIsWatched, ShownOnlyWhenConnected, Alive
<1> QED
  BY <1>3, <1>4

LEMMA HostDiesInv == ASSUME Inv, HostDies PROVE Inv'
<1>1. <<>> \in Seq(Downward) /\ <<>> \in Seq(Upward)
  OBVIOUS
<1>2. WireTypeOK'
  BY <1>1 DEF HostDies, HostGone, Inv, TerminalTypeOK, WireTypeOK
<1>3. Alive \subseteq Remote /\ Doomed \subseteq Remote
  BY DEF Alive, Doomed, KillsOn
<1>4. TerminalTypeOK'
  BY <1>2, <1>3 DEF HostDies, HostGone, Inv, TerminalTypeOK
<1> QED
  BY <1>4 DEF HostDies, HostGone, Inv, TerminalTypeOK, WireTypeOK, TimersMatchSockets,
              HomedOnCurrentBridge, PendingIsWatched, ShownOnlyWhenConnected, Alive, Remote

-----------------------------------------------------------------------------
(* Browsers. *)

LEMMA OpenLocalInv ==
  ASSUME Inv, NEW c \in Browser, NEW t \in Terminal, OpenLocal(c, t) PROVE Inv'
<1>1. TerminalTypeOK'
  BY DEF OpenLocal, Resolve, Watch, wireVars, bridgeVars, requestVars, Inv, TerminalTypeOK, WireTypeOK
<1>2. TimersMatchSockets'
  BY DEF OpenLocal, Resolve, Watch, Inv, TerminalTypeOK, TimersMatchSockets
<1>3. Alive' = Alive /\ \A u \in Alive : sockets'[u] = sockets[u]
  BY DEF OpenLocal, Resolve, Alive, Remote, Inv, TerminalTypeOK
<1>4. HomedOnCurrentBridge'
  BY <1>3 DEF OpenLocal, wireVars, bridgeVars, Inv, HomedOnCurrentBridge
<1> QED
  BY <1>1, <1>2, <1>4 DEF OpenLocal, wireVars, bridgeVars, requestVars, Inv, PendingIsWatched,
                          ShownOnlyWhenConnected

(* A terminal that is put on the connection the host holds is there. *)
LEMMA RehomeType ==
  ASSUME Inv, NEW t \in Remote, current # NoBridge, Rehome(t)
  PROVE  /\ home' \in [Terminal -> Bridge \cup {NoBridge}]
         /\ members' \in [Bridge -> SUBSET Remote]
         /\ home'[t] = current /\ t \in members'[current]
         /\ \A u \in Terminal : u # t => home'[u] = home[u]
         /\ \A b \in Bridge : members[b] \subseteq members'[b]
  BY DEF Rehome, Inv, TerminalTypeOK, WireTypeOK, Remote

LEMMA OpenRemoteInv ==
  ASSUME Inv, NEW c \in Browser, NEW t \in Terminal, OpenRemote(c, t) PROVE Inv'
<1>1. current \in Bridge /\ t \in Remote /\ Rehome(t)
  BY DEF OpenRemote, TerminalAllowed, Inv, TerminalTypeOK, WireTypeOK
<1>2. /\ browser' \in [Browser -> {"off", "open", "closing"}]
      /\ at' \in [Browser -> Terminal \cup {NoTerminal}]
  BY DEF OpenRemote, Inv, TerminalTypeOK
<1>3. down' \in [Bridge -> Seq(Downward)]
  <2>1. [type |-> "create", id |-> t] \in Downward
    BY <1>1 DEF Downward
  <2>2. down' = down \/ down' = Carried(down, current, [type |-> "create", id |-> t])
    BY DEF OpenRemote, AskFor
  <2> QED
    BY <1>1, <2>1, <2>2, CarriedType DEF Inv, TerminalTypeOK, WireTypeOK
<1>4. TerminalTypeOK'
  BY <1>1, <1>2, <1>3, RehomeType DEF OpenRemote, Resolve, Watch, requestVars, Inv, TerminalTypeOK, WireTypeOK
<1>5. TimersMatchSockets'
  BY DEF OpenRemote, Resolve, Watch, Inv, TerminalTypeOK, TimersMatchSockets
<1>6. \A u \in Alive' : u = t \/ u \in Alive
  BY DEF OpenRemote, Resolve, Alive, Inv, TerminalTypeOK, Remote
<1>7. HomedOnCurrentBridge'
  BY <1>1, <1>6, RehomeType DEF OpenRemote, Inv, HomedOnCurrentBridge, Alive, Remote
<1> QED
  BY <1>4, <1>5, <1>7 DEF OpenRemote, requestVars, Inv, PendingIsWatched, ShownOnlyWhenConnected

LEMMA BrowserTypesInv == ASSUME Inv, NEW c \in Browser, BrowserTypes(c) PROVE Inv'
<1>1. at[c] \in Remote /\ current # NoBridge /\ Rehome(at[c])
  BY DEF BrowserTypes, Usable
<1>2. TerminalTypeOK'
  BY <1>1, RehomeType DEF BrowserTypes, wireVars, bridgeVars, requestVars, Inv, TerminalTypeOK, WireTypeOK
<1>3. Alive' = Alive
  BY DEF BrowserTypes, Alive
<1>4. HomedOnCurrentBridge'
  BY <1>1, <1>3, RehomeType DEF BrowserTypes, wireVars, bridgeVars, Inv, HomedOnCurrentBridge,
                                Alive, Remote, TerminalTypeOK, WireTypeOK
<1> QED
  BY <1>2, <1>4 DEF BrowserTypes, wireVars, bridgeVars, requestVars, Inv, TimersMatchSockets,
                    PendingIsWatched, ShownOnlyWhenConnected

LEMMA BrowserSaysCloseInv == ASSUME Inv, NEW c \in Browser, BrowserSaysClose(c) PROVE Inv'
  BY DEF BrowserSaysClose, Closing, wireVars, bridgeVars, requestVars, Inv, TerminalTypeOK, WireTypeOK,
         TimersMatchSockets, HomedOnCurrentBridge, PendingIsWatched, ShownOnlyWhenConnected, Alive, Remote

LEMMA BrowserKillsInv == ASSUME Inv, NEW c \in Browser, BrowserKills(c) PROVE Inv'
<1>1. CASE life[at[c]] = "live"
  BY <1>1, KillInv DEF BrowserKills, Listening, Inv, TerminalTypeOK
<1>2. CASE life[at[c]] # "live"
  <2>1. /\ browser' = [browser EXCEPT ![c] = "closing"]
        /\ UNCHANGED <<wireVars, life, home, members, sockets, timers, at, pty, unreached>>
    BY <1>2 DEF BrowserKills, Closing
  <2>2. TerminalTypeOK'
    BY <2>1 DEF wireVars, bridgeVars, requestVars, Inv, TerminalTypeOK, WireTypeOK
  <2> QED
    BY <2>1, <2>2 DEF wireVars, bridgeVars, requestVars, Inv, TimersMatchSockets, HomedOnCurrentBridge,
                      PendingIsWatched, ShownOnlyWhenConnected, Alive
<1> QED
  BY <1>1, <1>2

LEMMA BrowserClosesInv == ASSUME Inv, NEW c \in Browser, BrowserCloses(c) PROVE Inv'
<1>1. CASE at[c] = NoTerminal
  BY <1>1 DEF BrowserCloses, wireVars, bridgeVars, requestVars, Inv, TerminalTypeOK, WireTypeOK,
         TimersMatchSockets, HomedOnCurrentBridge, PendingIsWatched, ShownOnlyWhenConnected, Alive, Remote
<1>2. CASE at[c] # NoTerminal
  <2> DEFINE t == at[c]
             left == sockets[t] \ {c}
  <2>1. t \in Terminal
    BY <1>2 DEF Inv, TerminalTypeOK
  <2>2. /\ sockets' = [sockets EXCEPT ![t] = left]
        /\ timers' = [timers EXCEPT ![t] = IdleOnce(t, left)]
    BY <1>2 DEF BrowserCloses
  <2>3. left \subseteq Browser /\ left \subseteq sockets[t]
    BY <2>1 DEF Inv, TerminalTypeOK
  <2>4. IdleOnce(t, left) \in SUBSET {"idle", "max"}
    BY <2>1 DEF IdleOnce, Inv, TerminalTypeOK
  <2>5. TerminalTypeOK'
    BY <2>1, <2>2, <2>3, <2>4 DEF BrowserCloses, wireVars, bridgeVars, requestVars, Inv, TerminalTypeOK, WireTypeOK
  <2>6. TimersMatchSockets'
    BY <2>1, <2>2, <2>3 DEF BrowserCloses, IdleOnce, Inv, TerminalTypeOK, TimersMatchSockets
  <2>7. Alive' = Alive /\ \A u \in Alive : sockets'[u] \subseteq sockets[u]
    BY <2>1, <2>2, <2>3 DEF BrowserCloses, Alive, Remote, Inv, TerminalTypeOK
  <2>8. HomedOnCurrentBridge'
    BY <2>7 DEF BrowserCloses, wireVars, bridgeVars, Inv, HomedOnCurrentBridge
  <2> QED
    BY <2>5, <2>6, <2>8 DEF BrowserCloses, wireVars, bridgeVars, requestVars, Inv, PendingIsWatched,
                            ShownOnlyWhenConnected
<1> QED
  BY <1>1, <1>2

-----------------------------------------------------------------------------
(* Connections. *)

(* The new connection knows every terminal the host has on record. *)
LEMMA BridgeConnectsInv == ASSUME Inv, NEW b \in Bridge, BridgeConnects(b) PROVE Inv'
<1>1. ws' \in [Bridge -> {"off", "open", "closing"}]
  BY DEF BridgeConnects, BridgeOpens, ComesOnline, Inv, TerminalTypeOK, WireTypeOK
<1>2. \A x \in Bridge : ws[x] # "off" => ws'[x] # "off"
  BY DEF BridgeConnects, BridgeOpens, ComesOnline, Inv, TerminalTypeOK, WireTypeOK
<1>3. current' = b /\ ws'[b] = "open" /\ online' /\ shown'
  BY DEF BridgeConnects, BridgeOpens, ComesOnline
<1>4. Alive' = Alive /\ Alive \subseteq Remote /\ Alive \subseteq Terminal
  BY DEF BridgeConnects, Alive, Remote
<1>5. TerminalTypeOK'
  BY <1>1, <1>4 DEF BridgeConnects, BridgeOpens, ComesOnline, requestVars, Inv, TerminalTypeOK, WireTypeOK
<1>6. HomedOnCurrentBridge'
  BY <1>3, <1>4 DEF BridgeConnects, HomedOnCurrentBridge, Inv, TerminalTypeOK
<1>7. PendingIsWatched'
  BY <1>2 DEF BridgeConnects, BridgeOpens, ComesOnline, requestVars, Inv, PendingIsWatched
<1> QED
  BY <1>3, <1>5, <1>6, <1>7 DEF BridgeConnects, Inv, TimersMatchSockets, ShownOnlyWhenConnected

(* A connection that closes has the homes of all the terminals of the      *)
(* device, or of none.                                                     *)
LEMMA StrandedAllOrNone ==
  ASSUME Inv, NEW b \in Bridge
  PROVE  StrandedBy(b) = IF current = b THEN Alive ELSE {}
  BY DEF StrandedBy, Inv, HomedOnCurrentBridge, Alive

LEMMA BridgeEndsInv == ASSUME Inv, NEW b \in Bridge, BridgeEnds(b) PROVE Inv'
<1> DEFINE S == StrandedBy(b)
<1>1. S \subseteq Alive /\ Alive' = Alive /\ Alive \subseteq Remote /\ KillsOn(b) \subseteq Remote
  BY DEF BridgeEnds, StrandedBy, Alive, KillsOn
<1>2. S = IF current = b THEN Alive ELSE {}
  BY StrandedAllOrNone
<1>3. /\ home' = [t \in Terminal |-> IF t \in S THEN NoBridge ELSE home[t]]
      /\ sockets' = [t \in Terminal |-> IF t \in S THEN {} ELSE sockets[t]]
      /\ timers' = [t \in Terminal |-> IF t \in S THEN IdleOnce(t, {}) ELSE timers[t]]
      /\ members' = [members EXCEPT ![b] = {}]
      /\ browser' \in [Browser -> {"off", "open", "closing"}]
  BY DEF BridgeEnds, Dismiss, Inv, TerminalTypeOK
<1> HIDE DEF S
<1>4. /\ ws' = [ws EXCEPT ![b] = "off"]
      /\ current' = IF current = b THEN NoBridge ELSE current
      /\ shown' = IF current = b THEN FALSE ELSE shown
      /\ UNCHANGED <<online, link, working>>
  BY DEF BridgeEnds, BridgeCloses, Forget
<1>5. WireTypeOK'
  <2>1. <<>> \in Seq(Downward) /\ <<>> \in Seq(Upward)
    OBVIOUS
  <2>2. /\ request' \in [Request -> {"none", "pending", "done", "failed"}]
        /\ via' \in [Request -> Bridge \cup {NoBridge}]
        /\ deadline' \subseteq Request
    BY DEF BridgeEnds, BridgeCloses, FailOver, Inv, TerminalTypeOK, WireTypeOK
  <2>3. down' \in [Bridge -> Seq(Downward)] /\ up' \in [Bridge -> Seq(Upward)]
    BY <2>1 DEF BridgeEnds, BridgeCloses, Inv, TerminalTypeOK, WireTypeOK
  <2> QED
    BY <2>2, <2>3, <1>4 DEF Inv, TerminalTypeOK, WireTypeOK
<1>6. TerminalTypeOK'
  <2>1. \A t \in Terminal : IdleOnce(t, {}) \in SUBSET {"idle", "max"}
    BY DEF IdleOnce, Inv, TerminalTypeOK
  <2> QED
    BY <1>1, <1>3, <1>5, <2>1 DEF BridgeEnds, Inv, TerminalTypeOK
<1>7. TimersMatchSockets'
  BY <1>1, <1>3 DEF BridgeEnds, IdleOnce, Alive, Inv, TerminalTypeOK, TimersMatchSockets
<1>8. HomedOnCurrentBridge'
  <2>1. CASE current = b
    BY <1>1, <1>2, <1>3, <1>4, <2>1 DEF Inv, HomedOnCurrentBridge, Remote, TerminalTypeOK, WireTypeOK
  <2>2. CASE current # b
    BY <1>1, <1>2, <1>3, <1>4, <2>2 DEF Inv, HomedOnCurrentBridge, Remote, TerminalTypeOK, WireTypeOK
  <2> QED
    BY <2>1, <2>2
<1>9. PendingIsWatched'
  BY <1>4 DEF BridgeEnds, BridgeCloses, FailOver, RequestsOver, Inv, PendingIsWatched, TerminalTypeOK, WireTypeOK
<1> QED
  BY <1>4, <1>6, <1>7, <1>8, <1>9 DEF Inv, ShownOnlyWhenConnected

LEMMA WorkerLosesLinkInv == ASSUME Inv, WorkerLosesLink PROVE Inv'
<1>1. down' \in [Bridge -> Seq(Downward)]
  <2>1. <<>> \in Seq(Downward)
    OBVIOUS
  <2> QED
    BY <2>1 DEF WorkerLosesLink, LinkLost, Inv, TerminalTypeOK, WireTypeOK
<1>2. KillsOn(link) \subseteq Remote
  BY DEF KillsOn
<1>3. TerminalTypeOK'
  BY <1>1, <1>2 DEF WorkerLosesLink, LinkLost, requestVars, Inv, TerminalTypeOK, WireTypeOK
<1> QED
  BY <1>3 DEF WorkerLosesLink, LinkLost, requestVars, Inv, TimersMatchSockets,
              HomedOnCurrentBridge, PendingIsWatched, ShownOnlyWhenConnected, Alive

LEMMA WorkerDiesInv == ASSUME Inv, WorkerDies PROVE Inv'
<1>1. down' \in [Bridge -> Seq(Downward)]
  <2>1. <<>> \in Seq(Downward)
    OBVIOUS
  <2> QED
    BY <2>1 DEF WorkerDies
<1>2. TerminalTypeOK'
  BY <1>1 DEF WorkerDies, Inv, TerminalTypeOK, WireTypeOK
<1> QED
  BY <1>2 DEF WorkerDies, Inv, TimersMatchSockets,
              HomedOnCurrentBridge, PendingIsWatched, ShownOnlyWhenConnected, Alive

LEMMA WorkerTakesCommandInv == ASSUME Inv, WorkerTakesCommand PROVE Inv'
<1>1. link \in Bridge /\ down[link] # <<>>
  BY DEF Inv, WorkerTakesCommand, TerminalTypeOK, WireTypeOK
<1>2. pty' \subseteq Terminal
  BY <1>1, HeadDown DEF Inv, WorkerTakesCommand, TerminalTypeOK, Downward, Remote
<1>3. down' \in [Bridge -> Seq(Downward)]
  BY <1>1, HeadDown DEF Inv, WorkerTakesCommand, TerminalTypeOK
<1>4. TerminalTypeOK'
  BY <1>2, <1>3 DEF Inv, WorkerTakesCommand, requestVars, TerminalTypeOK, WireTypeOK
<1> QED
  BY <1>4 DEF Inv, WorkerTakesCommand, requestVars, TimersMatchSockets, HomedOnCurrentBridge,
              PendingIsWatched, ShownOnlyWhenConnected, Alive

-----------------------------------------------------------------------------
(* Every step keeps the invariant. *)
LEMMA NextInv == Inv /\ [Next]_vars => Inv'
<1> SUFFICES ASSUME Inv, [Next]_vars PROVE Inv'
  OBVIOUS
<1>1. CASE Steps
  BY <1>1, OpenLocalInv, OpenRemoteInv, BrowserTypesInv, BrowserKillsInv, BrowserSaysCloseInv,
     BrowserClosesInv, KillInv, PtyExitsInv, BridgeConnectsInv, BridgeEndsInv, HostTakesExitInv,
     WorkerLosesLinkInv, WorkerDiesInv, WorkerTakesCommandInv, WireStepsInv
     DEF Steps, IdleFires, MaxFires
<1>2. CASE HostDies \/ \E c \in Browser : TypingThrows(c)
  BY <1>2, HostDiesInv DEF TypingThrows
<1>3. CASE UNCHANGED vars
  BY <1>3 DEF vars, wireVars, bridgeVars, requestVars, termVars, Inv, TerminalTypeOK, WireTypeOK,
     TimersMatchSockets, HomedOnCurrentBridge, PendingIsWatched, ShownOnlyWhenConnected, Alive
<1> QED
  BY <1>1, <1>2, <1>3 DEF Next

THEOREM Invariance == Spec => []Inv
  BY InitInv, NextInv, PTL DEF Spec

(* Every variable keeps its type. *)
THEOREM TypesHold == Spec => []TerminalTypeOK
<1>1. Inv => TerminalTypeOK
  BY DEF Inv
<1> QED
  BY <1>1, Invariance, PTL

(* No timer ends a terminal in use, and none that is left runs without one: *)
(* whatever browsers, connections and processes come and go.               *)
THEOREM TimersMatch == Spec => []TimersMatchSockets
<1>1. Inv => TimersMatchSockets
  BY DEF Inv
<1> QED
  BY <1>1, Invariance, PTL

(* The terminals are on the connection the host holds, however many of the *)
(* earlier ones have still to close.                                       *)
THEOREM TerminalsAreHomed == Spec => []HomedOnCurrentBridge
<1>1. Inv => HomedOnCurrentBridge
  BY DEF Inv
<1> QED
  BY <1>1, Invariance, PTL

(* No request waits without a timer or on a connection that is closed.     *)
THEOREM RequestsAreWatched == Spec => []PendingIsWatched
<1>1. Inv => PendingIsWatched
  BY DEF Inv
<1> QED
  BY <1>1, Invariance, PTL

(* The status of a device never claims a connection that is not there.     *)
THEOREM StatusIsHonest == Spec => []ShownOnlyWhenConnected
<1>1. Inv => ShownOnlyWhenConnected
  BY DEF Inv
<1> QED
  BY <1>1, Invariance, PTL
=============================================================================
