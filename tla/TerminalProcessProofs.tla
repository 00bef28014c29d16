------------------------ MODULE TerminalProcessProofs ------------------------
(***************************************************************************)
(* Processes of NativeTerminal: none is left without a record on the host, *)
(* a kill on its way, or a host that could not reach the worker.           *)
(*                                                                         *)
(* That does not follow from where the terminals are.  A terminal may end  *)
(* before its process begins, and its end be reported while a message is   *)
(* on its way: the argument is the order of the messages in the queues.    *)
(***************************************************************************)
EXTENDS NativeTerminalProofs

(* The worker leaves nothing unread on a connection it does not have.      *)
QueuesOnLink == \A b \in Bridge : b # link => down[b] = <<>>

(* A process has a terminal, and one of the host itself a live one.        *)
ProcessesKnown == \A t \in pty : life[t] # "none" /\ (t \in Local => life[t] = "live")

ProcessInv == /\ QueuesOnLink
              /\ ProcessesKnown
              /\ CreatedOnce
              /\ KilledAfterCreated
              /\ ExitIsLast
              /\ OrphanedOnlyByFault

-----------------------------------------------------------------------------
(* Places in a queue. *)

LEMMA PlacesNone ==
  ASSUME NEW type, NEW t PROVE Places(<<>>, type, t) = {}
  BY DEF Places

LEMMA PlacesAppend ==
  ASSUME NEW S, NEW s \in Seq(S), NEW m \in S, NEW type, NEW t
  PROVE  Places(Append(s, m), type, t) =
           Places(s, type, t) \cup (IF m = [type |-> type, id |-> t] THEN {Len(s) + 1} ELSE {})
  BY DEF Places

LEMMA PlacesTail ==
  ASSUME NEW S, NEW s \in Seq(S), s # <<>>, NEW type, NEW t
  PROVE  /\ 1 \in Places(s, type, t) <=> Head(s) = [type |-> type, id |-> t]
         /\ \A i \in Places(Tail(s), type, t) : i \in Nat /\ i + 1 \in Places(s, type, t)
         /\ \A i \in Places(s, type, t) : i \in Nat /\ (i # 1 => i - 1 \in Places(Tail(s), type, t))
<1>1. Len(s) \in Nat /\ Len(s) > 0 /\ Len(Tail(s)) = Len(s) - 1 /\ Head(s) = s[1]
  OBVIOUS
<1>2. \A i \in 1..(Len(s) - 1) : Tail(s)[i] = s[i + 1]
  OBVIOUS
<1> QED
  BY <1>1, <1>2 DEF Places

(* Places are before the end of the queue. *)
LEMMA PlacesBound ==
  ASSUME NEW S, NEW s \in Seq(S), NEW type, NEW t
  PROVE  \A i \in Places(s, type, t) : i \in Nat /\ i < Len(s) + 1
  BY DEF Places

(* A message that is sent is the last in the queue of the link, and moves *)
(* no other.                                                               *)
LEMMA PlacesSent ==
  ASSUME WireTypeOK, NEW b \in Bridge, NEW m \in Downward, down' = Carried(down, b, m)
  PROVE  /\ \A x \in Bridge : \A type, t :
              m.type # type \/ m.id # t => Places(down'[x], type, t) = Places(down[x], type, t)
         /\ \A x \in Bridge : Places(down'[x], m.type, m.id) \in
              {Places(down[x], m.type, m.id), Places(down[x], m.type, m.id) \cup {Len(down[x]) + 1}}
         /\ link = b => Len(down[b]) + 1 \in Places(down'[b], m.type, m.id)
<1>1. \A x \in Bridge : down[x] \in Seq(Downward)
  BY DEF WireTypeOK
<1>2. \A x \in Bridge : down'[x] = IF x = b /\ link = b THEN Append(down[x], m) ELSE down[x]
  BY DEF Carried, Reaches, WireTypeOK
<1>3. \A type, t : m = [type |-> type, id |-> t] <=> m.type = type /\ m.id = t
  BY DEF Downward
<1>4. \A x \in Bridge : \A type, t : Places(Append(down[x], m), type, t) =
        Places(down[x], type, t) \cup (IF m = [type |-> type, id |-> t] THEN {Len(down[x]) + 1} ELSE {})
  BY <1>1, PlacesAppend
<1>5. ASSUME NEW x \in Bridge, NEW type, NEW t, m.type # type \/ m.id # t
      PROVE  Places(down'[x], type, t) = Places(down[x], type, t)
  <2>1. m # [type |-> type, id |-> t]
    BY <1>3, <1>5
  <2>2. Places(Append(down[x], m), type, t) = Places(down[x], type, t) \cup {}
    BY <1>4, <2>1, Zenon
  <2> QED
    BY <1>2, <2>2
<1>6. \A x \in Bridge : Places(Append(down[x], m), m.type, m.id) =
        Places(down[x], m.type, m.id) \cup {Len(down[x]) + 1}
  BY <1>3, <1>4
<1> QED
  BY <1>2, <1>5, <1>6

(* The terminals a connection is going to kill, by places. *)
LEMMA KillsByPlaces ==
  ASSUME NEW b PROVE KillsOn(b) = {t \in Remote : Places(down[b], "kill", t) # {}}
  BY DEF KillsOn, Places

LEMMA DoomedByPlaces ==
  \A t : t \in Doomed <=> t \in Remote /\ \E b \in Bridge : Places(down[b], "kill", t) # {}
<1>1. \A t : t \in Doomed <=> \E b \in Bridge : t \in KillsOn(b)
  BY DEF Doomed
<1>2. \A b : KillsOn(b) = {t \in Remote : Places(down[b], "kill", t) # {}}
  BY KillsByPlaces
<1> QED
  BY <1>1, <1>2

LEMMA DoomedByPlacesNext ==
  \A t : t \in Doomed' <=> t \in Remote /\ \E b \in Bridge : Places(down'[b], "kill", t) # {}
<1>1. \A t : t \in Doomed' <=> \E b \in Bridge : t \in KillsOn(b)'
  BY DEF Doomed
<1>2. \A b : KillsOn(b)' = {t \in Remote : Places(down'[b], "kill", t) # {}}
  BY DEF KillsOn, Places, Remote
<1> QED
  BY <1>1, <1>2

-----------------------------------------------------------------------------
(* A step that brings no message: creates may be lost, and kills when that *)
(* is on record or has no consequence; a terminal that ends is out of      *)
(* reach, or its process is gone for good.                                 *)

Gone(t) == t \notin pty /\ (t \in Local \/ \A b \in Bridge : Places(down[b], "create", t) = {})

LEMMA QuietStep ==
  ASSUME ProcessInv, TerminalTypeOK, TerminalTypeOK', QueuesOnLink',
         \A t \in pty' : t \in pty \/ (t \in Local /\ life'[t] = "live"),
         unreached \subseteq unreached',
         \A t \in Terminal : \/ life'[t] = life[t] \/ life'[t] = "live"
                             \/ life'[t] = "over" /\ (Gone(t)' \/ t \in unreached'),
         \A b \in Bridge, t \in Remote :
           /\ Places(down'[b], "create", t) \in {{}, Places(down[b], "create", t)}
           /\ Places(down'[b], "kill", t) = Places(down[b], "kill", t) \/ t \in unreached' \/ Gone(t)'
           /\ Places(up'[b], "exit", t) # {} =>
                Places(up[b], "exit", t) # {} \/ (Gone(t)' /\ life'[t] # "none")
  PROVE  ProcessInv'
<1>1. Remote \subseteq Terminal /\ Remote \cap Local = {} /\ unreached' \subseteq Remote /\ pty \subseteq Terminal
  BY DEF Remote, TerminalTypeOK
<1>2. ProcessesKnown'
  BY <1>1 DEF ProcessInv, ProcessesKnown, Gone
<1>3. CreatedOnce'
  BY <1>1 DEF ProcessInv, CreatedOnce
<1>4. KilledAfterCreated'
  BY <1>1 DEF ProcessInv, KilledAfterCreated, Gone
<1>5. ExitIsLast'
  BY <1>1 DEF ProcessInv, ExitIsLast, Gone
<1>6. OrphanedOnlyByFault'
  BY <1>1, DoomedByPlaces, DoomedByPlacesNext DEF ProcessInv, OrphanedOnlyByFault, Gone
<1> QED
  BY <1>2, <1>3, <1>4, <1>5, <1>6 DEF ProcessInv

-----------------------------------------------------------------------------
(* The worker takes a message.  A process it creates for a terminal that   *)
(* is over has its kill among the messages that are left.                  *)
LEMMA MessageTaken ==
  ASSUME ProcessInv, TerminalTypeOK, TerminalTypeOK', link \in Bridge, down[link] # <<>>,
         down' = [down EXCEPT ![link] = Tail(@)], UNCHANGED <<link, life, unreached, up>>,
         NEW m, m = Head(down[link]),
         \/ m.type = "request" /\ pty' = pty
         \/ m.type = "create" /\ pty' \in {pty, pty \cup {m.id}}
         \/ m.type = "kill" /\ pty' = pty \ {m.id}
  PROVE  ProcessInv'
<1>1. /\ m.type = "create" => m.id \in Remote
      /\ Remote \subseteq Terminal /\ Remote \cap Local = {}
      /\ \A t : 1 \in Places(down[link], "create", t) <=> m.type = "create" /\ m.id = t
      /\ \A t : 1 \in Places(down[link], "kill", t) <=> m.type = "kill" /\ m.id = t
  <2>1. down[link] \in Seq(Downward) /\ m \in Downward
    BY HeadDown DEF TerminalTypeOK, WireTypeOK
  <2>2. m.type \in {"create", "kill"} => m = [type |-> m.type, id |-> m.id] /\ m.id \in Remote
    BY <2>1 DEF Downward
  <2>3. \A type, t : m = [type |-> type, id |-> t] => m.type = type /\ m.id = t
    OBVIOUS
  <2>4. \A type, t : 1 \in Places(down[link], type, t) <=> m = [type |-> type, id |-> t]
    BY <2>1, PlacesTail
  <2> QED
    BY <2>2, <2>3, <2>4 DEF Remote
<1>2. \A b \in Bridge \ {link} : \A type, t : Places(down[b], type, t) = {} /\ Places(down'[b], type, t) = {}
  BY PlacesNone DEF ProcessInv, QueuesOnLink, TerminalTypeOK, WireTypeOK
<1>3. \A type, t :
        /\ \A i \in Places(down'[link], type, t) : i \in Nat /\ i + 1 \in Places(down[link], type, t)
        /\ \A i \in Places(down[link], type, t) :
             i \in Nat /\ (i # 1 => i - 1 \in Places(down'[link], type, t))
  <2>1. down[link] \in Seq(Downward) /\ down'[link] = Tail(down[link])
    BY DEF TerminalTypeOK, WireTypeOK
  <2> QED
    BY <2>1, PlacesTail
<1>4. \A i \in Nat : i + 1 = 1 <=> i = 0
  OBVIOUS
<1>5. \A type, t : \A i \in Places(down'[link], type, t) : i # 0
  BY DEF Places
<1>6. QueuesOnLink'
  BY DEF ProcessInv, QueuesOnLink, TerminalTypeOK, WireTypeOK
<1>7. ProcessesKnown'
  <2>1. m.type = "create" => life[m.id] # "none"
    BY <1>1 DEF ProcessInv, CreatedOnce
  <2> QED
    BY <1>1, <2>1 DEF ProcessInv, ProcessesKnown
<1>8. CreatedOnce'
  <2> SUFFICES ASSUME NEW b \in Bridge, NEW t \in Remote, NEW i \in Places(down'[b], "create", t)
               PROVE  t \notin pty' /\ life[t] # "none" /\ Places(down'[b], "create", t) = {i}
    BY DEF CreatedOnce
  <2> b = link
    BY <1>2
  <2>1. i + 1 \in Places(down[link], "create", t) /\ i \in Nat /\ i # 0
    BY <1>3, <1>5
  <2>2. t \notin pty /\ life[t] # "none" /\ Places(down[link], "create", t) = {i + 1}
    BY <2>1 DEF ProcessInv, CreatedOnce
  <2>3. ~(m.type = "create" /\ m.id = t)
    BY <1>1, <1>4, <2>1, <2>2
  <2>4. \A j \in Places(down'[link], "create", t) : j \in Nat /\ j + 1 = i + 1
    BY <1>3, <2>2
  <2>5. \A j \in Places(down'[link], "create", t) : j = i
    BY <2>1, <2>4
  <2>6. t \notin pty'
    BY <1>1, <2>2, <2>3
  <2> QED
    BY <2>2, <2>5, <2>6
<1>9. KilledAfterCreated'
  <2> SUFFICES ASSUME NEW t \in Remote, NEW i \in Places(down'[link], "create", t),
                      life[t] # "live", t \notin unreached
               PROVE  \E j \in Places(down'[link], "kill", t) : j > i
    BY <1>2 DEF KilledAfterCreated
  <2>1. i + 1 \in Places(down[link], "create", t) /\ i \in Nat
    BY <1>3
  <2>2. PICK j \in Places(down[link], "kill", t) : j > i + 1
    BY <2>1 DEF ProcessInv, KilledAfterCreated
  <2>3. j \in Nat /\ j - 1 > i /\ j # 1
    BY <1>3, <2>1, <2>2
  <2>4. j - 1 \in Places(down'[link], "kill", t)
    BY <1>3, <2>2, <2>3
  <2> QED
    BY <2>3, <2>4
<1>10. ExitIsLast'
  <2> SUFFICES ASSUME NEW b \in Bridge, NEW t \in Remote, Places(up[b], "exit", t) # {}
               PROVE  /\ t \notin pty' /\ life[t] # "none"
                      /\ \A x \in Bridge : Places(down'[x], "create", t) = {}
    BY DEF ExitIsLast
  <2>1. /\ t \notin pty /\ life[t] # "none"
        /\ \A x \in Bridge : Places(down[x], "create", t) = {}
    BY DEF ProcessInv, ExitIsLast
  <2>2. ~(m.type = "create" /\ m.id = t)
    BY <1>1, <2>1
  <2>3. t \notin pty'
    BY <2>1, <2>2
  <2>4. \A i \in Places(down'[link], "create", t) : FALSE
    BY <1>3, <2>1
  <2> QED
    BY <1>2, <2>1, <2>3, <2>4
<1>11. OrphanedOnlyByFault'
  <2> SUFFICES ASSUME NEW t \in pty', life[t] # "live", t \notin unreached
               PROVE  t \in Doomed'
    BY DEF OrphanedOnlyByFault
  <2>1. t \in Remote /\ \E j \in Places(down[link], "kill", t) : j # 1
    <3>1. CASE t \in pty
      <4>1. t \in Remote /\ \E b \in Bridge : Places(down[b], "kill", t) # {}
        BY <3>1, DoomedByPlaces DEF ProcessInv, OrphanedOnlyByFault
      <4>2. PICK j \in Places(down[link], "kill", t) : TRUE
        BY <1>2, <4>1
      <4>3. ~(m.type = "kill" /\ m.id = t)
        OBVIOUS
      <4> QED
        BY <1>1, <4>1, <4>2, <4>3
    <3>2. CASE t \notin pty
      <4>1. t \in Remote /\ 1 \in Places(down[link], "create", t)
        BY <1>1, <3>2
      <4>2. PICK j \in Places(down[link], "kill", t) : j > 1
        BY <4>1 DEF ProcessInv, KilledAfterCreated
      <4>3. j # 1
        BY <1>3, <4>2
      <4> QED
        BY <4>1, <4>3
    <3> QED
      BY <3>1, <3>2
  <2> QED
    BY <1>3, <2>1, DoomedByPlacesNext
<1> QED
  BY <1>6, <1>7, <1>8, <1>9, <1>10, <1>11 DEF ProcessInv

-----------------------------------------------------------------------------
(* Messages that the host sends. *)

(* The host asks for the process of a new terminal. *)
LEMMA ProcessAsked ==
  ASSUME ProcessInv, TerminalTypeOK, TerminalTypeOK', NEW t \in Remote, life[t] = "none",
         current \in Bridge, down' = Carried(down, current, [type |-> "create", id |-> t]),
         life' = [life EXCEPT ![t] = "live"], UNCHANGED <<link, pty, unreached, up>>
  PROVE  ProcessInv'
<1>1. /\ Remote \subseteq Terminal /\ Remote \cap Local = {} /\ t \notin pty
      /\ life'[t] = "live" /\ \A u \in Terminal \ {t} : life'[u] = life[u]
  BY DEF ProcessInv, ProcessesKnown, TerminalTypeOK, Remote
<1>2. QueuesOnLink'
  BY DEF ProcessInv, QueuesOnLink, Carried, Reaches, TerminalTypeOK, WireTypeOK
<1>3. \A b \in Bridge : Places(down[b], "create", t) = {} /\ Places(up[b], "exit", t) = {}
  BY DEF ProcessInv, CreatedOnce, ExitIsLast
<1>4. /\ \A b \in Bridge : \A i \in Places(down'[b], "create", t) : Places(down'[b], "create", t) = {i}
      /\ \A b \in Bridge : \A u : u # t => Places(down'[b], "create", u) = Places(down[b], "create", u)
      /\ \A b \in Bridge : \A u : Places(down'[b], "kill", u) = Places(down[b], "kill", u)
  <2> DEFINE m == [type |-> "create", id |-> t]
  <2>1. m \in Downward /\ down' = Carried(down, current, m)
    BY DEF Downward
  <2>2. m.type = "create" /\ m.id = t /\ m.type # "kill"
    OBVIOUS
  <2> HIDE DEF m
  <2>3. WireTypeOK
    BY DEF TerminalTypeOK
  <2>4. \A x \in Bridge : \A type, u :
          m.type # type \/ m.id # u => Places(down'[x], type, u) = Places(down[x], type, u)
    BY <2>1, <2>3, PlacesSent, Zenon
  <2>5. \A x \in Bridge : Places(down'[x], m.type, m.id) \in
          {Places(down[x], m.type, m.id), Places(down[x], m.type, m.id) \cup {Len(down[x]) + 1}}
    BY <2>1, <2>3, PlacesSent, Zenon
  <2>6. \A b \in Bridge : \A i \in Places(down'[b], "create", t) : Places(down'[b], "create", t) = {i}
    BY <1>3, <2>2, <2>5
  <2>7. \A b \in Bridge : \A u : u # t => Places(down'[b], "create", u) = Places(down[b], "create", u)
    BY <2>2, <2>4, Zenon
  <2>8. \A b \in Bridge : \A u : Places(down'[b], "kill", u) = Places(down[b], "kill", u)
    BY <2>2, <2>4, Zenon
  <2> QED
    BY <2>6, <2>7, <2>8, Zenon
<1>5. ProcessesKnown'
  BY <1>1 DEF ProcessInv, ProcessesKnown
<1>6. CreatedOnce'
  BY <1>1, <1>4 DEF ProcessInv, CreatedOnce
<1>7. KilledAfterCreated'
  BY <1>1, <1>4 DEF ProcessInv, KilledAfterCreated
<1>8. ExitIsLast'
  BY <1>1, <1>3, <1>4 DEF ProcessInv, ExitIsLast
<1>9. OrphanedOnlyByFault'
  <2>1. \A u : u \in Doomed => u \in Doomed'
    BY <1>4, DoomedByPlaces, DoomedByPlacesNext
  <2> QED
    BY <1>1, <2>1 DEF ProcessInv, OrphanedOnlyByFault, TerminalTypeOK
<1> QED
  BY <1>2, <1>5, <1>6, <1>7, <1>8, <1>9 DEF ProcessInv

(* The kill of a terminal is the last in the queue. *)
LEMMA ProcessKilled ==
  ASSUME ProcessInv, TerminalTypeOK, TerminalTypeOK', NEW t \in Remote, life[t] # "none",
         current \in Bridge, link = current, down' = Carried(down, current, [type |-> "kill", id |-> t]),
         life' = [life EXCEPT ![t] = "over"], UNCHANGED <<link, pty, unreached, up>>
  PROVE  ProcessInv'
<1>1. /\ Remote \subseteq Terminal /\ Remote \cap Local = {}
      /\ life'[t] = "over" /\ \A u \in Terminal \ {t} : life'[u] = life[u]
  BY DEF TerminalTypeOK, Remote
<1>2. QueuesOnLink'
  BY DEF ProcessInv, QueuesOnLink, Carried, Reaches, TerminalTypeOK, WireTypeOK
<1>3. /\ \A b \in Bridge : \A u : Places(down'[b], "create", u) = Places(down[b], "create", u)
      /\ \A b \in Bridge : \A u : Places(down[b], "kill", u) \subseteq Places(down'[b], "kill", u)
      /\ Len(down[link]) + 1 \in Places(down'[link], "kill", t)
  <2> DEFINE m == [type |-> "kill", id |-> t]
  <2>1. m \in Downward /\ down' = Carried(down, current, m)
    BY DEF Downward
  <2>2. m.type = "kill" /\ m.id = t /\ m.type # "create"
    OBVIOUS
  <2> HIDE DEF m
  <2>3. WireTypeOK
    BY DEF TerminalTypeOK
  <2>4. \A x \in Bridge : \A type, u :
          m.type # type \/ m.id # u => Places(down'[x], type, u) = Places(down[x], type, u)
    BY <2>1, <2>3, PlacesSent, Zenon
  <2>5. \A x \in Bridge : Places(down'[x], m.type, m.id) \in
          {Places(down[x], m.type, m.id), Places(down[x], m.type, m.id) \cup {Len(down[x]) + 1}}
    BY <2>1, <2>3, PlacesSent, Zenon
  <2>6. Len(down[link]) + 1 \in Places(down'[link], m.type, m.id)
    BY <2>1, <2>3, PlacesSent, Zenon
  <2>7. \A b \in Bridge : Places(down[b], "kill", t) \subseteq Places(down'[b], "kill", t)
    BY <2>2, <2>5
  <2>8. \A b \in Bridge : \A u : u # t => Places(down'[b], "kill", u) = Places(down[b], "kill", u)
    BY <2>2, <2>4, Zenon
  <2>9. \A b \in Bridge : \A u : Places(down'[b], "create", u) = Places(down[b], "create", u)
    BY <2>2, <2>4, Zenon
  <2>10. \A b \in Bridge : \A u : Places(down[b], "kill", u) \subseteq Places(down'[b], "kill", u)
    BY <2>7, <2>8
  <2> QED
    BY <2>2, <2>6, <2>9, <2>10
<1>4. ProcessesKnown'
  BY <1>1 DEF ProcessInv, ProcessesKnown
<1>5. CreatedOnce'
  <2> SUFFICES ASSUME NEW b \in Bridge, NEW u \in Remote, NEW i \in Places(down'[b], "create", u)
               PROVE  u \notin pty /\ life'[u] # "none" /\ Places(down'[b], "create", u) = {i}
    BY DEF CreatedOnce
  <2>1. i \in Places(down[b], "create", u)
    BY <1>3
  <2>2. u \notin pty /\ life[u] # "none" /\ Places(down[b], "create", u) = {i}
    BY <2>1 DEF ProcessInv, CreatedOnce
  <2> QED
    BY <1>1, <1>3, <2>2
<1>6. KilledAfterCreated'
  <2> SUFFICES ASSUME NEW b \in Bridge, NEW u \in Remote, NEW i \in Places(down'[b], "create", u),
                      life'[u] # "live", u \notin unreached
               PROVE  \E j \in Places(down'[b], "kill", u) : j > i
    BY DEF KilledAfterCreated
  <2>1. i \in Places(down[b], "create", u)
    BY <1>3
  <2>2. b = link /\ i \in Nat /\ i < Len(down[link]) + 1 /\ Len(down[link]) \in Nat
    BY <2>1, PlacesNone, PlacesBound DEF ProcessInv, QueuesOnLink, TerminalTypeOK, WireTypeOK
  <2>3. CASE u = t
    BY <1>3, <2>2, <2>3
  <2>4. CASE u # t
    BY <1>1, <1>3, <2>1, <2>4 DEF ProcessInv, KilledAfterCreated
  <2> QED
    BY <2>3, <2>4
<1>7. ExitIsLast'
  <2> SUFFICES ASSUME NEW b \in Bridge, NEW u \in Remote, Places(up[b], "exit", u) # {}
               PROVE  /\ u \notin pty /\ life'[u] # "none"
                      /\ \A x \in Bridge : Places(down'[x], "create", u) = {}
    BY DEF ExitIsLast
  <2>1. /\ u \notin pty /\ life[u] # "none"
        /\ \A x \in Bridge : Places(down[x], "create", u) = {}
    BY DEF ProcessInv, ExitIsLast
  <2> QED
    BY <1>1, <1>3, <2>1
<1>8. OrphanedOnlyByFault'
  <2>1. \A u : u \in Doomed => u \in Doomed'
    BY <1>3, DoomedByPlaces, DoomedByPlacesNext
  <2>2. t \in Doomed'
    BY <1>3, DoomedByPlacesNext
  <2> QED
    BY <1>1, <2>1, <2>2 DEF ProcessInv, OrphanedOnlyByFault, TerminalTypeOK
<1> QED
  BY <1>2, <1>4, <1>5, <1>6, <1>7, <1>8 DEF ProcessInv

-----------------------------------------------------------------------------
(* The steps.  First those that send and take no message. *)
LEMMA SameQueues ==
  ASSUME ProcessInv, TerminalTypeOK, TerminalTypeOK', UNCHANGED <<link, down, up>>,
         \A t \in pty' : t \in pty \/ (t \in Local /\ life'[t] = "live"),
         unreached \subseteq unreached',
         \A t \in Terminal : \/ life'[t] = life[t] \/ life'[t] = "live"
                             \/ life'[t] = "over" /\ t \notin pty' /\ t \in Local
                             \/ life'[t] = "over" /\ t \in unreached'
  PROVE  ProcessInv'
<1>1. QueuesOnLink'
  BY DEF ProcessInv, QueuesOnLink
<1>2. \A t \in Terminal : \/ life'[t] = life[t] \/ life'[t] = "live"
                          \/ life'[t] = "over" /\ (Gone(t)' \/ t \in unreached')
  BY DEF Gone
<1> QED
  BY <1>1, <1>2, QuietStep

LEMMA QuietWires ==
  ASSUME Inv, Inv', ProcessInv, UNCHANGED termVars,
         \/ HeartbeatMissed \/ HeartbeatArrives
         \/ \E b \in Bridge : PongTimeout(b)
         \/ \E r \in Request : RequestTimesOut(r)
  PROVE  ProcessInv'
<1>1. UNCHANGED <<link, down, up, life, pty, unreached>>
  BY DEF termVars, HeartbeatMissed, HeartbeatArrives, PongTimeout, RequestTimesOut, bridgeVars
<1> QED
  BY <1>1, SameQueues DEF Inv

LEMMA SendRequestProcess ==
  ASSUME Inv, Inv', ProcessInv, UNCHANGED termVars, NEW r \in Request, SendRequest(r)
  PROVE  ProcessInv'
<1> DEFINE m == [type |-> "request", id |-> r]
<1>1. m \in Downward /\ current \in Bridge /\ down' = Carried(down, current, m)
  BY DEF SendRequest, Usable, Downward, Inv, TerminalTypeOK, WireTypeOK
<1>2. m.type # "create" /\ m.type # "kill"
  OBVIOUS
<1>3. QueuesOnLink'
  BY <1>1 DEF SendRequest, ProcessInv, QueuesOnLink, Carried, Reaches, Inv, TerminalTypeOK, WireTypeOK
<1> HIDE DEF m
<1>4. WireTypeOK
  BY DEF Inv, TerminalTypeOK
<1>5. \A x \in Bridge : \A type, t :
        m.type # type \/ m.id # t => Places(down'[x], type, t) = Places(down[x], type, t)
  BY <1>1, <1>4, PlacesSent, Zenon
<1>6. \A x \in Bridge : \A t : /\ Places(down'[x], "create", t) = Places(down[x], "create", t)
                           /\ Places(down'[x], "kill", t) = Places(down[x], "kill", t)
  BY <1>2, <1>5, Zenon
<1>7. UNCHANGED <<up, life, pty, unreached>>
  BY DEF SendRequest, termVars
<1> QED
  BY <1>3, <1>6, <1>7, QuietStep DEF Inv

(* What the worker sends is the last in the queue of its link. *)
LEMMA PlacesReported ==
  ASSUME WireTypeOK, NEW m \in Upward, WorkerSends(m)
  PROVE  \A x \in Bridge : \A type, t :
           m.type # type \/ m.id # t => Places(up'[x], type, t) = Places(up[x], type, t)
<1> SUFFICES ASSUME NEW x \in Bridge, NEW type, NEW t, m.type # type \/ m.id # t
             PROVE  Places(up'[x], type, t) = Places(up[x], type, t)
  OBVIOUS
<1>1. up[x] \in Seq(Upward)
  BY DEF WireTypeOK
<1>2. up'[x] = up[x] \/ up'[x] = Append(up[x], m)
  BY DEF WorkerSends, WireTypeOK
<1>3. m # [type |-> type, id |-> t]
  BY DEF Upward
<1>4. Places(Append(up[x], m), type, t) =
        Places(up[x], type, t) \cup (IF m = [type |-> type, id |-> t] THEN {Len(up[x]) + 1} ELSE {})
  BY <1>1, PlacesAppend
<1>5. Places(Append(up[x], m), type, t) = Places(up[x], type, t) \cup {}
  BY <1>3, <1>4, Zenon
<1> QED
  BY <1>2, <1>5

LEMMA WorkerAnswersProcess ==
  ASSUME Inv, Inv', ProcessInv, UNCHANGED termVars, NEW r \in Request, WorkerAnswers(r)
  PROVE  ProcessInv'
<1> DEFINE m == [type |-> "result", id |-> r]
<1>1. m \in Upward /\ WorkerSends(m) /\ m.type # "exit"
  BY DEF WorkerAnswers, Upward
<1> HIDE DEF m
<1>2. WireTypeOK
  BY DEF Inv, TerminalTypeOK
<1>3. \A x \in Bridge : \A t : Places(up'[x], "exit", t) = Places(up[x], "exit", t)
  BY <1>1, <1>2, PlacesReported, Zenon
<1>4. UNCHANGED <<link, down, life, pty, unreached>>
  BY DEF WorkerAnswers, termVars
<1>5. QueuesOnLink'
  BY <1>4 DEF ProcessInv, QueuesOnLink
<1> QED
  BY <1>3, <1>4, <1>5, QuietStep DEF Inv

(* What the host reads is taken off. *)
LEMMA PlacesRead ==
  ASSUME WireTypeOK, NEW b \in Bridge, up[b] # <<>>, up' = [up EXCEPT ![b] = Tail(@)]
  PROVE  \A x \in Bridge : \A type, t : Places(up'[x], type, t) # {} => Places(up[x], type, t) # {}
<1> SUFFICES ASSUME NEW x \in Bridge, NEW type, NEW t, NEW i \in Places(up'[x], type, t)
             PROVE  Places(up[x], type, t) # {}
  OBVIOUS
<1>1. up[x] \in Seq(Upward)
  BY DEF WireTypeOK
<1>2. up'[x] = up[x] \/ (up[x] # <<>> /\ up'[x] = Tail(up[x]))
  BY DEF WireTypeOK
<1>3. up[x] # <<>> => \A j \in Places(Tail(up[x]), type, t) : j + 1 \in Places(up[x], type, t)
  BY <1>1, PlacesTail
<1> QED
  BY <1>2, <1>3

LEMMA HostTakesResultProcess ==
  ASSUME Inv, Inv', ProcessInv, UNCHANGED termVars, NEW b \in Bridge, HostTakesResult(b)
  PROVE  ProcessInv'
<1>1. UNCHANGED <<link, down, life, pty, unreached>>
  BY DEF HostTakesResult, termVars
<1>2. \A x \in Bridge : \A type, t : Places(up'[x], type, t) # {} => Places(up[x], type, t) # {}
  BY PlacesRead DEF HostTakesResult, Inv, TerminalTypeOK
<1>3. QueuesOnLink'
  BY <1>1 DEF ProcessInv, QueuesOnLink
<1> QED
  BY <1>1, <1>2, <1>3, QuietStep DEF Inv

LEMMA WorkerTakesRequestProcess ==
  ASSUME Inv, Inv', ProcessInv, UNCHANGED termVars, WorkerTakesRequest
  PROVE  ProcessInv'
<1>1. /\ link \in Bridge /\ down[link] # <<>> /\ Head(down[link]).type = "request"
      /\ down' = [down EXCEPT ![link] = Tail(@)]
      /\ UNCHANGED <<link, life, unreached, up, pty>>
  BY DEF WorkerTakesRequest, termVars, Inv, TerminalTypeOK, WireTypeOK
<1> QED
  BY <1>1, MessageTaken DEF Inv

LEMMA WorkerTakesCommandProcess ==
  ASSUME Inv, Inv', ProcessInv, WorkerTakesCommand
  PROVE  ProcessInv'
<1> DEFINE m == Head(down[link])
<1>1. /\ link \in Bridge /\ down[link] # <<>>
      /\ down' = [down EXCEPT ![link] = Tail(@)]
      /\ UNCHANGED <<link, life, unreached, up>>
      /\ \/ m.type = "create" /\ pty' \in {pty, pty \cup {m.id}}
         \/ m.type = "kill" /\ pty' = pty \ {m.id}
  BY DEF WorkerTakesCommand, Inv, TerminalTypeOK, WireTypeOK
<1> QED
  BY <1>1, MessageTaken DEF Inv

LEMMA WireStepsProcess == ASSUME Inv, Inv', ProcessInv, WireSteps PROVE ProcessInv'
  BY QuietWires, SendRequestProcess, WorkerAnswersProcess, HostTakesResultProcess,
     WorkerTakesRequestProcess DEF WireSteps

-----------------------------------------------------------------------------
(* Terminals end. *)

(* A live terminal that is killed: its process goes with it, or is told by *)
(* a message behind all others, or that it is not is on record.            *)
LEMMA KillProcess ==
  ASSUME Inv, Inv', ProcessInv, NEW t \in Terminal, life[t] = "live", Kill(t)
  PROVE  ProcessInv'
<1>1. life' = [life EXCEPT ![t] = "over"] /\ UNCHANGED <<link, up>>
  BY DEF Kill, End
<1>2. \A u \in Terminal : life'[u] = life[u] \/ (u = t /\ life'[u] = "over")
  BY <1>1 DEF Inv, TerminalTypeOK
<1>3. CASE t \in Local
  <2>1. pty' = pty \ {t} /\ UNCHANGED <<down, unreached>>
    BY <1>3 DEF Kill
  <2> QED
    BY <1>1, <1>2, <1>3, <2>1, SameQueues DEF Inv
<1>4. CASE t \notin Local /\ Usable /\ Reaches(current)
  <2>1. /\ t \in Remote /\ current \in Bridge /\ link = current
        /\ down' = Carried(down, current, [type |-> "kill", id |-> t])
        /\ UNCHANGED <<pty, unreached>>
    BY <1>4 DEF Kill, TellWorker, Reaches, Usable, Remote, Inv, TerminalTypeOK, WireTypeOK
  <2> QED
    BY <1>1, <2>1, ProcessKilled DEF Inv
<1>5. CASE t \notin Local /\ ~(Usable /\ Reaches(current))
  <2>1. unreached' = unreached \cup {t} /\ UNCHANGED <<down, pty>>
    BY <1>5 DEF Kill, TellWorker
  <2> QED
    BY <1>1, <1>2, <2>1, SameQueues DEF Inv
<1> QED
  BY <1>3, <1>4, <1>5

(* Only live terminals have timers. *)
LEMMA TimersProcess ==
  ASSUME Inv, Inv', ProcessInv, NEW t \in Terminal, IdleFires(t) \/ MaxFires(t)
  PROVE  ProcessInv'
<1>1. timers[t] # {} /\ Kill(t)
  BY DEF IdleFires, MaxFires
<1>2. life[t] = "live"
  BY <1>1 DEF Inv, TimersMatchSockets
<1> QED
  BY <1>1, <1>2, KillProcess

(* A process that ends: no message will start it again. *)
LEMMA PtyExitsProcess ==
  ASSUME Inv, Inv', ProcessInv, NEW t \in Terminal, PtyExits(t)
  PROVE  ProcessInv'
<1>1. t \in pty /\ pty' = pty \ {t} /\ UNCHANGED <<link, down, unreached>>
  BY DEF PtyExits
<1>2. CASE t \in Local
  <2>1. life' = [life EXCEPT ![t] = "over"] /\ UNCHANGED up
    BY <1>2 DEF PtyExits, End
  <2>2. \A u \in Terminal : life'[u] = life[u] \/ (u = t /\ life'[u] = "over")
    BY <2>1 DEF Inv, TerminalTypeOK
  <2> QED
    BY <1>1, <1>2, <2>1, <2>2, SameQueues DEF Inv
<1>3. CASE t \notin Local
  <2> DEFINE m == [type |-> "exit", id |-> t]
  <2>1. t \in Remote /\ m \in Upward /\ WorkerSends(m) /\ life' = life
    BY <1>3 DEF PtyExits, Upward, Remote
  <2>2. m.type = "exit" /\ m.id = t
    OBVIOUS
  <2> HIDE DEF m
  <2>3. \A x \in Bridge : \A type, u :
          m.type # type \/ m.id # u => Places(up'[x], type, u) = Places(up[x], type, u)
    BY <2>1, PlacesReported DEF Inv, TerminalTypeOK
  <2>4. \A x \in Bridge : \A u : u # t => Places(up'[x], "exit", u) = Places(up[x], "exit", u)
    BY <2>2, <2>3, Zenon
  <2>5. \A x \in Bridge : Places(down[x], "create", t) = {}
    BY <1>1, <2>1 DEF ProcessInv, CreatedOnce
  <2>6. Gone(t)' /\ life'[t] # "none"
    BY <1>1, <2>1, <2>5 DEF Gone, ProcessInv, ProcessesKnown
  <2>7. QueuesOnLink'
    BY <1>1 DEF ProcessInv, QueuesOnLink
  <2> QED
    BY <1>1, <2>1, <2>4, <2>6, <2>7, QuietStep DEF Inv
<1> QED
  BY <1>2, <1>3

LEMMA HostTakesExitProcess ==
  ASSUME Inv, Inv', ProcessInv, NEW b \in Bridge, HostTakesExit(b)
  PROVE  ProcessInv'
<1> PICK t \in Remote : t = Head(up[b]).id /\ Head(up[b]) = [type |-> "exit", id |-> t]
  BY HeadUp DEF HostTakesExit, Upward, Inv, TerminalTypeOK, WireTypeOK
<1>1. UNCHANGED <<link, down, pty, unreached>>
  BY DEF HostTakesExit
<1>2. \A x \in Bridge : \A type, u : Places(up'[x], type, u) # {} => Places(up[x], type, u) # {}
  BY PlacesRead DEF HostTakesExit, Inv, TerminalTypeOK
<1>3. QueuesOnLink'
  BY <1>1 DEF ProcessInv, QueuesOnLink
<1>4. Gone(t)'
  <2>1. up[b] \in Seq(Upward) /\ up[b] # <<>>
    BY DEF HostTakesExit, Inv, TerminalTypeOK, WireTypeOK
  <2>2. Places(up[b], "exit", t) # {}
    BY <2>1, PlacesTail
  <2>3. t \notin pty /\ \A x \in Bridge : Places(down[x], "create", t) = {}
    BY <2>2 DEF ProcessInv, ExitIsLast
  <2> QED
    BY <1>1, <2>3 DEF Gone
<1>5. life' = life \/ life' = [life EXCEPT ![t] = "over"]
  BY DEF HostTakesExit, End
<1>6. \A u \in Terminal : life'[u] = life[u] \/ (life'[u] = "over" /\ u = t)
  BY <1>5 DEF Inv, TerminalTypeOK
<1>7. \A u \in Terminal : life'[u] = life[u] \/ (life'[u] = "over" /\ Gone(u)')
  BY <1>4, <1>6
<1> QED
  BY <1>1, <1>2, <1>3, <1>7, QuietStep DEF Inv

-----------------------------------------------------------------------------
(* Queues that are emptied. *)

LEMMA HostDiesProcess == ASSUME Inv, Inv', ProcessInv, HostDies PROVE ProcessInv'
<1>1. /\ \A b \in Bridge : down'[b] = <<>> /\ up'[b] = <<>>
      /\ unreached' = unreached \cup Alive \cup Doomed /\ pty' = pty \ Local
      /\ \A t \in Terminal : life'[t] = IF life[t] = "live" THEN "over" ELSE life[t]
  BY DEF HostDies, HostGone
<1>2. \A b \in Bridge : \A type, t : Places(down'[b], type, t) = {} /\ Places(up'[b], type, t) = {}
  BY <1>1, PlacesNone
<1>3. QueuesOnLink'
  BY <1>1 DEF QueuesOnLink
<1>4. \A t \in Terminal : life'[t] = life[t] \/ (life'[t] = "over" /\ (Gone(t)' \/ t \in unreached'))
  BY <1>1 DEF Gone, Alive, Remote
<1>5. \A b \in Bridge, t \in Remote : Places(down[b], "kill", t) # {} => t \in unreached'
  BY <1>1, DoomedByPlaces
<1> QED
  BY <1>1, <1>2, <1>3, <1>4, <1>5, QuietStep DEF Inv

(* The new connection starts empty, as the worker had none. *)
LEMMA BridgeConnectsProcess ==
  ASSUME Inv, Inv', ProcessInv, NEW b \in Bridge, BridgeConnects(b) PROVE ProcessInv'
<1>1. link = NoBridge /\ UNCHANGED <<down, up, life, pty, unreached>>
  BY DEF BridgeConnects, BridgeOpens
<1>2. QueuesOnLink'
  BY <1>1, NoBridgeAssumption DEF ProcessInv, QueuesOnLink
<1> QED
  BY <1>1, <1>2, QuietStep DEF Inv

LEMMA BridgeEndsProcess ==
  ASSUME Inv, Inv', ProcessInv, NEW b \in Bridge, BridgeEnds(b) PROVE ProcessInv'
<1>1. /\ down' = [down EXCEPT ![b] = <<>>] /\ up' = [up EXCEPT ![b] = <<>>]
      /\ unreached' = unreached \cup KillsOn(b) /\ UNCHANGED <<link, life, pty>>
  BY DEF BridgeEnds, BridgeCloses
<1>2. \A x \in Bridge : \A type, t : /\ Places(down'[x], type, t) = IF x = b THEN {} ELSE Places(down[x], type, t)
                                 /\ Places(up'[x], type, t) = IF x = b THEN {} ELSE Places(up[x], type, t)
  BY <1>1, PlacesNone DEF Inv, TerminalTypeOK, WireTypeOK
<1>3. QueuesOnLink'
  BY <1>1 DEF ProcessInv, QueuesOnLink, Inv, TerminalTypeOK, WireTypeOK
<1>4. \A t \in Remote : Places(down[b], "kill", t) # {} => t \in unreached'
  BY <1>1, KillsByPlaces
<1>5. \A x \in Bridge, t \in Remote :
        /\ Places(down'[x], "create", t) \in {{}, Places(down[x], "create", t)}
        /\ Places(down'[x], "kill", t) = Places(down[x], "kill", t) \/ t \in unreached'
        /\ Places(up'[x], "exit", t) # {} => Places(up[x], "exit", t) # {}
  BY <1>2, <1>4
<1>6. unreached \subseteq unreached'
  BY <1>1
<1> QED
  BY <1>1, <1>3, <1>5, <1>6, QuietStep DEF Inv

LEMMA WorkerLosesLinkProcess == ASSUME Inv, Inv', ProcessInv, WorkerLosesLink PROVE ProcessInv'
<1>1. /\ link \in Bridge /\ link' = NoBridge /\ down' = [down EXCEPT ![link] = <<>>]
      /\ unreached' = unreached \cup KillsOn(link) /\ UNCHANGED <<up, life, pty>>
  BY DEF WorkerLosesLink, LinkLost, Inv, TerminalTypeOK, WireTypeOK
<1>2. \A x \in Bridge : \A type, t :
        Places(down'[x], type, t) = IF x = link THEN {} ELSE Places(down[x], type, t)
  BY <1>1, PlacesNone DEF Inv, TerminalTypeOK, WireTypeOK
<1>3. QueuesOnLink'
  BY <1>1 DEF ProcessInv, QueuesOnLink, Inv, TerminalTypeOK, WireTypeOK
<1>4. \A t \in Remote : Places(down[link], "kill", t) # {} => t \in unreached'
  BY <1>1, KillsByPlaces
<1>5. \A x \in Bridge, t \in Remote :
        /\ Places(down'[x], "create", t) \in {{}, Places(down[x], "create", t)}
        /\ Places(down'[x], "kill", t) = Places(down[x], "kill", t) \/ t \in unreached'
  BY <1>2, <1>4
<1>6. unreached \subseteq unreached'
  BY <1>1
<1> QED
  BY <1>1, <1>3, <1>5, <1>6, QuietStep DEF Inv

LEMMA WorkerDiesProcess == ASSUME Inv, Inv', ProcessInv, WorkerDies PROVE ProcessInv'
<1>1. /\ \A b \in Bridge : down'[b] = <<>>
      /\ pty' = pty \cap Local /\ UNCHANGED <<up, life, unreached>>
  BY DEF WorkerDies
<1>2. \A b \in Bridge : \A type, t : Places(down'[b], type, t) = {}
  BY <1>1, PlacesNone
<1>3. QueuesOnLink'
  BY <1>1 DEF QueuesOnLink
<1>4. \A t \in Remote : Gone(t)'
  BY <1>1, <1>2 DEF Gone, Remote
<1> QED
  BY <1>1, <1>2, <1>3, <1>4, QuietStep DEF Inv

-----------------------------------------------------------------------------
(* Browsers. *)

LEMMA OpenLocalProcess ==
  ASSUME Inv, Inv', ProcessInv, NEW c \in Browser, NEW t \in Terminal, OpenLocal(c, t)
  PROVE  ProcessInv'
<1>1. /\ t \in Local /\ life' = [life EXCEPT ![t] = "live"] /\ pty' = pty \cup {t}
      /\ UNCHANGED <<link, down, up, unreached>>
  BY DEF OpenLocal, Resolve, wireVars, bridgeVars
<1>2. life'[t] = "live" /\ \A u \in Terminal : life'[u] = life[u] \/ life'[u] = "live"
  BY <1>1 DEF Inv, TerminalTypeOK
<1> QED
  BY <1>1, <1>2, SameQueues DEF Inv

LEMMA OpenRemoteProcess ==
  ASSUME Inv, Inv', ProcessInv, NEW c \in Browser, NEW t \in Terminal, OpenRemote(c, t)
  PROVE  ProcessInv'
<1>1. /\ t \in Remote /\ current \in Bridge /\ life' = [life EXCEPT ![t] = "live"]
      /\ UNCHANGED <<link, up, pty, unreached>>
  BY DEF OpenRemote, TerminalAllowed, Resolve, Inv, TerminalTypeOK, WireTypeOK
<1>2. CASE down' = down
  <2>1. \A u \in Terminal : life'[u] = life[u] \/ life'[u] = "live"
    BY <1>1 DEF Inv, TerminalTypeOK
  <2> QED
    BY <1>1, <1>2, <2>1, SameQueues DEF Inv
<1>3. CASE life[t] = "none" /\ down' = Carried(down, current, [type |-> "create", id |-> t])
  BY <1>1, <1>3, ProcessAsked DEF Inv
<1> QED
  BY <1>2, <1>3 DEF OpenRemote, AskFor

LEMMA BrowserProcess ==
  ASSUME Inv, Inv', ProcessInv, NEW c \in Browser,
         BrowserTypes(c) \/ BrowserSaysClose(c) \/ BrowserCloses(c)
  PROVE  ProcessInv'
<1>1. UNCHANGED <<link, down, up, life, pty, unreached>>
  BY DEF BrowserTypes, BrowserSaysClose, BrowserCloses, wireVars, bridgeVars
<1> QED
  BY <1>1, SameQueues DEF Inv

LEMMA BrowserKillsProcess ==
  ASSUME Inv, Inv', ProcessInv, NEW c \in Browser, BrowserKills(c) PROVE ProcessInv'
<1>1. CASE life[at[c]] = "live"
  BY <1>1, KillProcess DEF BrowserKills, Listening, Inv, TerminalTypeOK
<1>2. CASE life[at[c]] # "live"
  <2>1. UNCHANGED <<link, down, up, life, pty, unreached>>
    BY <1>2 DEF BrowserKills, wireVars, bridgeVars
  <2> QED
    BY <2>1, SameQueues DEF Inv
<1> QED
  BY <1>1, <1>2

-----------------------------------------------------------------------------
LEMMA InitProcess == Init => ProcessInv
<1> SUFFICES ASSUME Init PROVE ProcessInv
  OBVIOUS
<1>1. \A b \in Bridge : down[b] = <<>> /\ up[b] = <<>>
  BY DEF Init, WireInit
<1>2. \A b \in Bridge : \A type, t : Places(down[b], type, t) = {} /\ Places(up[b], type, t) = {}
  BY <1>1, PlacesNone
<1> QED
  BY <1>1, <1>2 DEF Init, ProcessInv, QueuesOnLink, ProcessesKnown, CreatedOnce, KilledAfterCreated,
                    ExitIsLast, OrphanedOnlyByFault

LEMMA NextProcess == Inv /\ Inv' /\ ProcessInv /\ [Next]_vars => ProcessInv'
<1> SUFFICES ASSUME Inv, Inv', ProcessInv, [Next]_vars PROVE ProcessInv'
  OBVIOUS
<1>1. CASE Steps
  BY <1>1, OpenLocalProcess, OpenRemoteProcess, BrowserProcess, BrowserKillsProcess, TimersProcess,
     PtyExitsProcess, BridgeConnectsProcess, BridgeEndsProcess, HostTakesExitProcess,
     WorkerLosesLinkProcess, WorkerDiesProcess, WorkerTakesCommandProcess, WireStepsProcess DEF Steps
<1>2. CASE HostDies \/ \E c \in Browser : TypingThrows(c)
  BY <1>2, HostDiesProcess DEF TypingThrows
<1>3. CASE UNCHANGED vars
  <2>1. UNCHANGED <<link, down, up, life, pty, unreached>>
    BY <1>3 DEF vars, wireVars, bridgeVars, termVars
  <2> QED
    BY <2>1, SameQueues DEF Inv
<1> QED
  BY <1>1, <1>2, <1>3 DEF Next

LEMMA ProcessInvariance == Spec => []ProcessInv
  BY InitProcess, NextProcess, Invariance, PTL DEF Spec

(* Whatever is lost and whoever dies, a process that runs has a terminal   *)
(* on record, or its kill is on the way, or the host could not reach the   *)
(* worker: no order of messages leaves one behind unnoticed.               *)
THEOREM NoSilentOrphans == Spec => []OrphanedOnlyByFault
<1>1. ProcessInv => OrphanedOnlyByFault
  BY DEF ProcessInv
<1> QED
  BY <1>1, ProcessInvariance, PTL

(* No process is asked for twice, or while it runs.                        *)
THEOREM ProcessesStartOnce == Spec => []CreatedOnce
<1>1. ProcessInv => CreatedOnce
  BY DEF ProcessInv
<1> QED
  BY <1>1, ProcessInvariance, PTL

(* A process that begins after the end of its terminal is killed by the    *)
(* messages that follow.                                                   *)
THEOREM LateProcessesAreKilled == Spec => []KilledAfterCreated
<1>1. ProcessInv => KilledAfterCreated
  BY DEF ProcessInv
<1> QED
  BY <1>1, ProcessInvariance, PTL

(* The exit that ends a terminal is that of a process that never returns.  *)
THEOREM ExitsAreFinal == Spec => []ExitIsLast
<1>1. ProcessInv => ExitIsLast
  BY DEF ProcessInv
<1> QED
  BY <1>1, ProcessInvariance, PTL
=============================================================================
