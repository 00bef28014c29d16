--------------------------- MODULE WorkspaceBridge ---------------------------
(***************************************************************************)
(* The WebSocket that the worker of a remote device keeps open to the host *)
(* (apps/host/src/services/native-terminal-service.ts), and the requests   *)
(* the host sends over it to browse or edit files on the device.           *)
(*                                                                         *)
(* The two ends of a connection do not learn of its end at the same time:  *)
(* ws is what the host knows, link what the worker knows.  The host keeps  *)
(* one connection per device, the one that connected last; the close of an *)
(* earlier one may be heard long after.                                    *)
(***************************************************************************)
EXTENDS Sequences

CONSTANTS
  Bridge,    \* connections of the worker; one that is closed may be used again
  NoBridge,
  Request    \* workspace requests

ASSUME NoBridgeAssumption == NoBridge \notin Bridge

VARIABLES
  ws,        \* readyState of each connection on the host: "off" is closed
  current,   \* remoteWorkers.get(device)
  online,    \* devices.status = 'online'
  shown,     \* devices.bridgeStatus = 'connected'
  link,      \* the connection the worker sends over, or NoBridge
  down, up,  \* messages under way on each connection, to the worker and back
  request,   \* "none", "pending", "done" or "failed"
  via,       \* pending.connection
  deadline,  \* requests whose timer runs
  working    \* requests the worker is carrying out

bridgeVars == <<ws, current, online, shown, link, down, up>>
requestVars == <<request, via, deadline, working>>
wireVars == <<bridgeVars, requestVars>>

WireInit ==
  /\ ws = [b \in Bridge |-> "off"]
  /\ current = NoBridge /\ link = NoBridge
  /\ online \in BOOLEAN /\ shown = FALSE
  /\ down = [b \in Bridge |-> <<>>] /\ up = [b \in Bridge |-> <<>>]
  /\ request = [r \in Request |-> "none"]
  /\ via = [r \in Request |-> NoBridge]
  /\ deadline = {} /\ working = {}

-----------------------------------------------------------------------------
(* Sending.                                                                *)

Usable == current # NoBridge /\ ws[current] = "open"

(* The message is on its way only while the worker still listens there. *)
Reaches(b) == link = b

Carried(queues, b, m) ==
  IF Reaches(b) THEN [queues EXCEPT ![b] = Append(@, m)] ELSE queues

(* sendTerminalEvent: dropped when the socket is not open. *)
WorkerSends(m) ==
  up' = IF link # NoBridge /\ ws[link] # "off" THEN [up EXCEPT ![link] = Append(@, m)] ELSE up

-----------------------------------------------------------------------------
(* The device's status.                                                    *)

(* RemoteWorkerHealthService: no heartbeat for offlineTimeoutMs. *)
HeartbeatMissed ==
  /\ online
  /\ online' = FALSE /\ shown' = FALSE
  /\ UNCHANGED <<ws, current, link, down, up, requestVars>>

HeartbeatArrives ==
  /\ ~online
  /\ online' = TRUE
  /\ UNCHANGED <<ws, current, shown, link, down, up, requestVars>>

-----------------------------------------------------------------------------
(* Connections.                                                            *)

(* authenticateRemoteWorker: who connects is online. *)
ComesOnline == online' = TRUE

(* The worker connects: the host asks the previous connection to close and *)
(* keeps the new one.                                                      *)
BridgeOpens(b) ==
  /\ link = NoBridge /\ ws[b] = "off"
  /\ link' = b /\ current' = b
  /\ ws' = [x \in Bridge |-> CASE x = b -> "open"
                              [] x = current /\ ws[x] = "open" -> "closing"
                              [] OTHER -> ws[x]]
  /\ ComesOnline /\ shown' = TRUE
  /\ UNCHANGED <<down, up, requestVars>>

(* Two intervals without a pong, or a ping that throws: ws.close(). *)
PongTimeout(b) ==
  /\ ws[b] = "open"
  /\ ws' = [ws EXCEPT ![b] = "closing"]
  /\ UNCHANGED <<current, online, shown, link, down, up, requestVars>>

(* The worker's end closes: what it has not read is lost. *)
LinkLost ==
  /\ link # NoBridge
  /\ link' = NoBridge
  /\ down' = [down EXCEPT ![link] = <<>>]
  /\ UNCHANGED <<ws, current, online, shown, up, requestVars>>

RequestsOver(b) == {r \in Request : request[r] = "pending" /\ via[r] = b}

(* Mutant: the status of the device is left to the next connection. *)
ForgetKeepsStatus(b) == /\ current' = IF current = b THEN NoBridge ELSE current
                        /\ UNCHANGED shown

(* Only the connection the map holds is taken off it. *)
Forget(b) == IF current = b
               THEN current' = NoBridge /\ shown' = FALSE
               ELSE UNCHANGED <<current, shown>>

(* Mutant: the requests that wait on the connection are left to their timers. *)
FailNone(b) == UNCHANGED <<request, via, deadline>>

(* The requests sent over the connection fail at once. *)
FailOver(b) ==
  /\ request' = [r \in Request |-> IF r \in RequestsOver(b) THEN "failed" ELSE request[r]]
  /\ via' = [r \in Request |-> IF r \in RequestsOver(b) THEN NoBridge ELSE via[r]]
  /\ deadline' = deadline \ RequestsOver(b)

(* The host hears that a connection is closed. *)
BridgeCloses(b) ==
  /\ ws[b] # "off"
  /\ ws' = [ws EXCEPT ![b] = "off"]
  /\ down' = [down EXCEPT ![b] = <<>>]
  /\ up' = [up EXCEPT ![b] = <<>>]
  /\ Forget(b)
  /\ FailOver(b)
  /\ UNCHANGED <<online, link, working>>

-----------------------------------------------------------------------------
(* Requests.                                                               *)

(* requestRemoteWorkspace *)
SendRequest(r) ==
  /\ request[r] = "none" /\ online /\ Usable
  /\ request' = [request EXCEPT ![r] = "pending"]
  /\ via' = [via EXCEPT ![r] = current]
  /\ deadline' = deadline \cup {r}
  /\ down' = Carried(down, current, [type |-> "request", id |-> r])
  /\ UNCHANGED <<ws, current, online, shown, link, up, working>>

Settle(r, how) ==
  /\ request' = [request EXCEPT ![r] = how]
  /\ via' = [via EXCEPT ![r] = NoBridge]
  /\ deadline' = deadline \ {r}

(* The timer of a request fires. *)
RequestTimesOut(r) ==
  /\ r \in deadline
  /\ Settle(r, "failed")
  /\ UNCHANGED <<bridgeVars, working>>

(* The worker begins a request it reads. *)
WorkerTakesRequest ==
  /\ link # NoBridge /\ down[link] # <<>> /\ Head(down[link]).type = "request"
  /\ working' = working \cup {Head(down[link]).id}
  /\ down' = [down EXCEPT ![link] = Tail(@)]
  /\ UNCHANGED <<ws, current, online, shown, link, up, request, via, deadline>>

(* It answers over the connection it has by then. *)
WorkerAnswers(r) ==
  /\ r \in working
  /\ working' = working \ {r}
  /\ WorkerSends([type |-> "result", id |-> r])
  /\ UNCHANGED <<ws, current, online, shown, link, down, request, via, deadline>>

(* The host has the answer: one it does not wait for there is ignored. *)
HostTakesResult(b) ==
  /\ ws[b] # "off" /\ up[b] # <<>> /\ Head(up[b]).type = "result"
  /\ up' = [up EXCEPT ![b] = Tail(@)]
  /\ LET r == Head(up[b]).id
     IN  IF request[r] = "pending" /\ via[r] = b
           THEN \E how \in {"done", "failed"} : Settle(r, how)
           ELSE UNCHANGED <<request, via, deadline>>
  /\ UNCHANGED <<ws, current, online, shown, link, down, working>>

-----------------------------------------------------------------------------
(* The host ends, or its process is killed, and is started again: the      *)
(* requests end with it, and resetStaleBridgeState clears the status.      *)
HostGone ==
  /\ ws' = [b \in Bridge |-> "off"]
  /\ current' = NoBridge /\ shown' = FALSE
  /\ down' = [b \in Bridge |-> <<>>] /\ up' = [b \in Bridge |-> <<>>]
  /\ request' = [r \in Request |-> IF request[r] = "pending" THEN "failed" ELSE request[r]]
  /\ via' = [r \in Request |-> NoBridge]
  /\ deadline' = {}
  /\ UNCHANGED <<online, link, working>>
=============================================================================
