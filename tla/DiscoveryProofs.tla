-------------------------- MODULE DiscoveryProofs ---------------------------
(***************************************************************************)
(* connectNWS keeps its last socket in one variable of discovery.js.  For  *)
(* any number of calls of it: the variable never holds a closed socket,    *)
(* and a socket that was the only one alive gets its own peers and is what *)
(* its call resolves to.  The other calls send JSONP requests, all those   *)
(* of a function under one callback name; as long as they end in the order *)
(* they nest, each is settled by the reply to it.  The sockets and the     *)
(* requests share no state, so each has an invariant of its own.           *)
(***************************************************************************)
EXTENDS Discovery, SequenceFacts

ConnRecord == [ws : {"none", "connecting", "open", "closing", "closed"}, told : Nat, filed : Nat,
               result : Connects \cup {Null, "pending"}]

Types == /\ conn \in [Connects -> ConnRecord] /\ networkWS \in Connects \cup {Null}
         /\ timers \in Seq(Connects) /\ shared \subseteq Connects

\* Two living sockets are both shared; a living socket that is not is the variable's.
HoldsLiving == networkWS # Null => networkWS \in Living
Together    == \A m, n \in Living : m # n => m \in shared
AloneHeld   == \A n \in Living \ shared : networkWS = n
NotYetTold  == \A n \in Connects \ shared :
                 conn[n].ws \in {"none", "connecting"} => conn[n].told = 0 /\ conn[n].filed = 0
TimersOfBegun == \A k \in DOMAIN timers : conn[timers[k]].ws # "none"

SocketInv == Types /\ HoldsLiving /\ Together /\ AloneHeld /\ NotYetTold /\ TimersOfBegun /\ SocketOwn

\* The initial state: no socket was asked for.
LEMMA InitSocketInv == Init => SocketInv
<1> SUFFICES ASSUME Init PROVE SocketInv
  OBVIOUS
<1>1. /\ networkWS = Null /\ timers = <<>> /\ shared = {}
      /\ conn = [n \in Connects |-> [ws |-> "none", told |-> 0, filed |-> 0, result |-> "pending"]]
  BY DEF Init
<1>2. \A n \in Connects : conn[n] = [ws |-> "none", told |-> 0, filed |-> 0, result |-> "pending"]
  BY <1>1
<1>3. Types
  BY <1>1 DEF Types, ConnRecord
<1>4. Living = {} /\ DOMAIN timers = {}
  BY <1>1, <1>2 DEF Living
<1>5. NotYetTold /\ SocketOwn
  BY <1>2 DEF NotYetTold, SocketOwn
<1> QED BY <1>1, <1>3, <1>4, <1>5 DEF SocketInv, HoldsLiving, Together, AloneHeld, TimersOfBegun

\* A new socket: alone when none is alive, shared with all that are otherwise.
LEMMA ConnectNWSKeeps == ASSUME SocketInv, NEW n \in Connects, ConnectNWS(n) PROVE SocketInv'
<1>1. /\ conn[n].ws = "none" /\ networkWS' = n /\ timers' = Append(timers, n)
      /\ conn' = [conn EXCEPT ![n].ws = "connecting"]
      /\ shared' = IF Living # {} THEN shared \cup Living \cup {n} ELSE shared
  BY DEF ConnectNWS
<1>2. /\ \A m \in Connects : conn[m] \in ConnRecord
      /\ conn'[n] = [conn[n] EXCEPT !.ws = "connecting"]
      /\ \A m \in Connects : m # n => conn'[m] = conn[m]
  BY <1>1 DEF SocketInv, Types
<1>3. /\ conn'[n].ws = "connecting" /\ conn'[n].told = conn[n].told /\ conn'[n].filed = conn[n].filed
      /\ conn'[n].result = conn[n].result
  BY <1>2 DEF ConnRecord
<1>4. Living' = Living \cup {n} /\ n \notin Living
  BY <1>1, <1>2, <1>3 DEF Living
<1>5. Types'
  <2>1. conn'[n] \in ConnRecord
    BY <1>2 DEF ConnRecord
  <2>2. conn' \in [Connects -> ConnRecord]
    BY <1>1, <1>2, <2>1 DEF SocketInv, Types
  <2>3. timers' \in Seq(Connects)
    BY <1>1 DEF SocketInv, Types
  <2>4. shared' \subseteq Connects
    BY <1>1 DEF SocketInv, Types, Living
  <2> QED BY <1>1, <2>2, <2>3, <2>4 DEF Types
<1>6. HoldsLiving' /\ Together' /\ AloneHeld'
  BY <1>1, <1>4 DEF SocketInv, HoldsLiving, Together, AloneHeld
<1>7. NotYetTold'
  BY <1>1, <1>2, <1>3 DEF SocketInv, NotYetTold
<1>8. TimersOfBegun'
  <2>1. /\ timers \in Seq(Connects) /\ Len(timers) \in Nat /\ DOMAIN timers = 1..Len(timers)
        /\ DOMAIN timers' = 1..(Len(timers) + 1)
        /\ \A k \in 1..Len(timers) : timers'[k] = timers[k]
        /\ timers'[Len(timers) + 1] = n
    BY <1>1, AppendProperties, LenProperties DEF SocketInv, Types
  <2>2. ASSUME NEW k \in DOMAIN timers' PROVE conn'[timers'[k]].ws # "none"
    <3>1. CASE k \in 1..Len(timers)
      <4>1. timers[k] \in Connects /\ conn[timers[k]].ws # "none"
        BY <2>1, <3>1 DEF SocketInv, TimersOfBegun
      <4>2. timers'[k] = timers[k]
        BY <2>1, <3>1
      <4>3. CASE timers[k] = n
        BY <1>3, <4>2, <4>3
      <4>4. CASE timers[k] # n
        BY <1>2, <4>1, <4>2, <4>4
      <4> QED BY <4>3, <4>4
    <3>2. CASE k = Len(timers) + 1
      BY <1>3, <2>1, <3>2
    <3> QED BY <2>1, <3>1, <3>2
  <2> QED BY <2>2 DEF TimersOfBegun
<1>9. SocketOwn'
  BY <1>1, <1>2, <1>3 DEF SocketInv, SocketOwn
<1> QED BY <1>5, <1>6, <1>7, <1>8, <1>9 DEF SocketInv

\* onopen changes the state of a living socket.
LEMMA OpensKeeps == ASSUME SocketInv, NEW n \in Connects, Opens(n) PROVE SocketInv'
<1>1. conn[n].ws = "connecting" /\ conn' = [conn EXCEPT ![n].ws = "open"] /\ UNCHANGED <<networkWS, timers, shared>>
  BY DEF Opens
<1>2. /\ \A m \in Connects : conn[m] \in ConnRecord
      /\ conn'[n] = [conn[n] EXCEPT !.ws = "open"]
      /\ \A m \in Connects : m # n => conn'[m] = conn[m]
  BY <1>1 DEF SocketInv, Types
<1>3. /\ conn'[n].ws = "open" /\ conn'[n].told = conn[n].told /\ conn'[n].filed = conn[n].filed
      /\ conn'[n].result = conn[n].result
  BY <1>2 DEF ConnRecord
<1>4. Living' = Living
  BY <1>1, <1>2, <1>3 DEF Living
<1>5. Types'
  <2>1. conn'[n] \in ConnRecord
    BY <1>2 DEF ConnRecord
  <2>2. conn' \in [Connects -> ConnRecord]
    BY <1>1, <1>2, <2>1 DEF SocketInv, Types
  <2> QED BY <1>1, <2>2 DEF SocketInv, Types
<1>6. HoldsLiving' /\ Together' /\ AloneHeld'
  BY <1>1, <1>4 DEF SocketInv, HoldsLiving, Together, AloneHeld
<1>7. NotYetTold' /\ SocketOwn'
  BY <1>1, <1>2, <1>3 DEF SocketInv, NotYetTold, SocketOwn
<1>8. TimersOfBegun'
  BY <1>1, <1>2, <1>3 DEF SocketInv, Types, TimersOfBegun
<1> QED BY <1>5, <1>6, <1>7, <1>8 DEF SocketInv

\* The peer is filed under the variable's socket, which is n when n is alone.
LEMMA OnConnectKeeps == ASSUME SocketInv, NEW n \in Connects, OnConnect(n) PROVE SocketInv'
<1>1. /\ conn[n].ws = "open" /\ conn[n].told = 0 /\ UNCHANGED <<networkWS, timers, shared>>
      /\ conn' = [m \in Connects |->
                    [conn[m] EXCEPT !.told = IF m = n THEN 1 ELSE @,
                                    !.filed = IF m = networkWS THEN @ + 1 ELSE @]]
  BY DEF OnConnect
<1>2. ASSUME NEW m \in Connects
      PROVE  /\ conn[m] \in ConnRecord /\ conn'[m] \in ConnRecord
             /\ conn'[m].ws = conn[m].ws /\ conn'[m].result = conn[m].result
             /\ conn'[m].told = IF m = n THEN 1 ELSE conn[m].told
             /\ conn'[m].filed = IF m = networkWS THEN conn[m].filed + 1 ELSE conn[m].filed
  <2> DEFINE a == IF m = n THEN 1 ELSE conn[m].told
             b == IF m = networkWS THEN conn[m].filed + 1 ELSE conn[m].filed
  <2>1. conn[m] \in ConnRecord
    BY DEF SocketInv, Types
  <2>2. conn'[m] = [conn[m] EXCEPT !.told = a, !.filed = b]
    BY <1>1, <2>1 DEF ConnRecord
  <2>3. a \in Nat /\ b \in Nat
    BY <2>1 DEF ConnRecord
  <2> HIDE DEF a, b
  <2>4. /\ conn'[m] \in ConnRecord /\ conn'[m].ws = conn[m].ws /\ conn'[m].result = conn[m].result
        /\ conn'[m].told = a /\ conn'[m].filed = b
    BY <2>1, <2>2, <2>3 DEF ConnRecord
  <2> QED BY <2>1, <2>4 DEF a, b
<1>3. Living' = Living /\ n \in Living
  BY <1>1, <1>2 DEF Living
<1>4. Types'
  BY <1>1, <1>2 DEF SocketInv, Types
<1>5. HoldsLiving' /\ Together' /\ AloneHeld' /\ TimersOfBegun'
  <2>1. HoldsLiving' /\ Together' /\ AloneHeld'
    BY <1>1, <1>3 DEF SocketInv, HoldsLiving, Together, AloneHeld
  <2>2. \A k \in DOMAIN timers : timers[k] \in Connects /\ conn[timers[k]].ws # "none"
    BY DEF SocketInv, Types, TimersOfBegun
  <2>3. timers' = timers /\ \A m \in Connects : conn'[m].ws = conn[m].ws
    BY <1>1, <1>2
  <2>4. TimersOfBegun'
    BY <2>2, <2>3 DEF TimersOfBegun
  <2> QED BY <2>1, <2>4
<1>6. ASSUME NEW m \in Connects \ shared, m # n PROVE m \notin Living /\ m # networkWS
  <2>1. m \notin Living
    BY <1>3, <1>6 DEF SocketInv, Together
  <2> QED BY <2>1, NullAssumption DEF SocketInv, HoldsLiving
<1>7. NotYetTold'
  <2>1. ASSUME NEW m \in Connects \ shared, conn'[m].ws \in {"none", "connecting"}
        PROVE  conn'[m].told = 0 /\ conn'[m].filed = 0
    <3>1. conn[m].ws \in {"none", "connecting"} /\ m # n
      BY <1>1, <1>2, <2>1
    <3>2. conn[m].told = 0 /\ conn[m].filed = 0 /\ m # networkWS
      BY <1>6, <3>1 DEF SocketInv, NotYetTold
    <3> QED BY <1>2, <3>1, <3>2
  <2> QED BY <1>1, <2>1 DEF NotYetTold
<1>8. ASSUME NEW m \in Connects \ shared, conn[m].ws = "open"
      PROVE  conn'[m].filed = conn'[m].told
  <2>1. m = n
    BY <1>6, <1>8 DEF Living
  <2>2. networkWS = n
    BY <1>3, <1>8, <2>1 DEF SocketInv, AloneHeld
  <2>3. conn[n].filed = 0
    BY <1>1, <1>8, <2>1 DEF SocketInv, SocketOwn
  <2> QED BY <1>2, <2>1, <2>2, <2>3
<1>9. SocketOwn'
  <2>1. ASSUME NEW m \in Connects \ shared
        PROVE  /\ conn'[m].result \in {"pending", m} \/ conn'[m].ws = "closed"
               /\ conn'[m].ws = "open" => conn'[m].filed = conn'[m].told
    <3>1. conn'[m].ws = conn[m].ws /\ conn'[m].result = conn[m].result
      BY <1>2
    <3>2. conn[m].result \in {"pending", m} \/ conn[m].ws = "closed"
      BY DEF SocketInv, SocketOwn
    <3> QED BY <1>8, <3>1, <3>2
  <2> QED BY <1>1, <2>1 DEF SocketOwn
<1> QED BY <1>4, <1>5, <1>7, <1>9 DEF SocketInv

\* n closes and so does the variable's socket: two that live are shared.
LEMMA OnCloseKeeps == ASSUME SocketInv, NEW n \in Connects, OnClose(n) PROVE SocketInv'
<1>1. /\ n \in Living /\ networkWS' = Null /\ UNCHANGED <<timers, shared>>
      /\ conn' = [m \in Connects |->
                    [conn[m] EXCEPT !.ws = IF m = n THEN "closed"
                                           ELSE IF m = networkWS /\ m \in Living THEN "closing" ELSE @,
                                    !.filed = IF m = networkWS THEN 0 ELSE @]]
  BY DEF OnClose
<1>2. ASSUME NEW m \in Connects
      PROVE  /\ conn[m] \in ConnRecord /\ conn'[m] \in ConnRecord
             /\ conn'[m].ws = IF m = n THEN "closed"
                              ELSE IF m = networkWS /\ m \in Living THEN "closing" ELSE conn[m].ws
             /\ conn'[m].result = conn[m].result /\ conn'[m].told = conn[m].told
             /\ conn'[m].filed = IF m = networkWS THEN 0 ELSE conn[m].filed
  <2> DEFINE a == IF m = n THEN "closed"
                  ELSE IF m = networkWS /\ m \in Living THEN "closing" ELSE conn[m].ws
             b == IF m = networkWS THEN 0 ELSE conn[m].filed
  <2>1. conn[m] \in ConnRecord
    BY DEF SocketInv, Types
  <2>2. conn'[m] = [conn[m] EXCEPT !.ws = a, !.filed = b]
    BY <1>1, <2>1 DEF ConnRecord
  <2>3. a \in {"none", "connecting", "open", "closing", "closed"} /\ b \in Nat
    BY <2>1 DEF ConnRecord
  <2> HIDE DEF a, b
  <2>4. /\ conn'[m] \in ConnRecord /\ conn'[m].result = conn[m].result /\ conn'[m].told = conn[m].told
        /\ conn'[m].ws = a /\ conn'[m].filed = b
    BY <2>1, <2>2, <2>3 DEF ConnRecord
  <2> QED BY <2>1, <2>4 DEF a, b
<1>3. Living' = Living \ {n}
  <2>1. ASSUME NEW m \in Connects
        PROVE  conn'[m].ws \in {"connecting", "open", "closing"}
                 <=> m # n /\ conn[m].ws \in {"connecting", "open", "closing"}
    <3>1. CASE m = n
      BY <1>2, <3>1
    <3>2. CASE m # n /\ m = networkWS /\ m \in Living
      BY <1>2, <3>2 DEF Living
    <3>3. CASE m # n /\ ~(m = networkWS /\ m \in Living)
      BY <1>2, <3>3
    <3> QED BY <3>1, <3>2, <3>3
  <2> QED BY <2>1 DEF Living
<1>4. Types'
  BY <1>1, <1>2 DEF SocketInv, Types
<1>5. ASSUME NEW m \in Connects \ shared, m # n PROVE m \notin Living /\ m # networkWS
  <2>1. m \notin Living
    BY <1>1, <1>5 DEF SocketInv, Together
  <2> QED BY <2>1, NullAssumption DEF SocketInv, HoldsLiving
<1>6. HoldsLiving' /\ Together' /\ AloneHeld'
  BY <1>1, <1>3, <1>5 DEF SocketInv, HoldsLiving, Together, AloneHeld, Living
<1>7. TimersOfBegun'
  <2>1. \A k \in DOMAIN timers : timers[k] \in Connects /\ conn[timers[k]].ws # "none"
    BY DEF SocketInv, Types, TimersOfBegun
  <2>2. \A m \in Connects : conn[m].ws # "none" => conn'[m].ws # "none"
    BY <1>2
  <2> QED BY <1>1, <2>1, <2>2 DEF TimersOfBegun
<1>8. ASSUME NEW m \in Connects \ shared
      PROVE  /\ conn'[m].ws \in {"none", "connecting"} => conn'[m].told = 0 /\ conn'[m].filed = 0
             /\ conn'[m].result \in {"pending", m} \/ conn'[m].ws = "closed"
             /\ conn'[m].ws = "open" => conn'[m].filed = conn'[m].told
  <2>1. CASE m = n
    <3>1. conn'[m].ws = "closed"
      BY <1>2, <2>1
    <3> QED BY <3>1
  <2>2. CASE m # n
    <3>1. m # networkWS
      BY <1>5, <2>2
    <3>2. /\ conn'[m].ws = conn[m].ws /\ conn'[m].told = conn[m].told
          /\ conn'[m].filed = conn[m].filed /\ conn'[m].result = conn[m].result
      BY <1>2, <2>2, <3>1
    <3> QED BY <3>2 DEF SocketInv, NotYetTold, SocketOwn
  <2> QED BY <2>1, <2>2
<1>9. NotYetTold' /\ SocketOwn'
  BY <1>1, <1>8 DEF NotYetTold, SocketOwn
<1> QED BY <1>4, <1>6, <1>7, <1>9 DEF SocketInv

\* The timer of n resolves with n while n is alone and alive.
LEMMA ConnectTimerKeeps == ASSUME SocketInv, ConnectTimer PROVE SocketInv'
<1> DEFINE n == timers[1]
<1>1. timers # <<>> /\ timers \in Seq(Connects)
  BY DEF ConnectTimer, SocketInv, Types
<1>2. /\ n \in Connects /\ Head(timers) = n /\ timers' \in Seq(Connects)
      /\ Len(timers) \in Nat /\ DOMAIN timers = 1..Len(timers) /\ 1 \in DOMAIN timers
      /\ DOMAIN timers' = 1..(Len(timers) - 1)
      /\ \A k \in DOMAIN timers' : k + 1 \in DOMAIN timers /\ timers'[k] = timers[k + 1]
  BY <1>1 DEF ConnectTimer
<1>3. conn[n].ws # "none"
  BY <1>2 DEF SocketInv, TimersOfBegun
<1> HIDE DEF n
<1>4. UNCHANGED <<networkWS, shared>> /\ conn' = [conn EXCEPT ![n].result = networkWS]
  BY <1>2 DEF ConnectTimer
<1>5. ASSUME NEW m \in Connects
      PROVE  /\ conn[m] \in ConnRecord /\ conn'[m] \in ConnRecord
             /\ conn'[m].ws = conn[m].ws /\ conn'[m].told = conn[m].told /\ conn'[m].filed = conn[m].filed
             /\ conn'[m].result = IF m = n THEN networkWS ELSE conn[m].result
  BY <1>2, <1>4 DEF SocketInv, Types, ConnRecord
<1>6. Living' = Living
  BY <1>5 DEF Living
<1>7. Types'
  BY <1>2, <1>4, <1>5 DEF SocketInv, Types
<1>8. HoldsLiving' /\ Together' /\ AloneHeld' /\ NotYetTold'
  BY <1>4, <1>5, <1>6 DEF SocketInv, HoldsLiving, Together, AloneHeld, NotYetTold
<1>9. TimersOfBegun'
  BY <1>2, <1>5 DEF SocketInv, Types, TimersOfBegun
<1>10. n \in Living \/ conn[n].ws = "closed"
  BY <1>2, <1>3, <1>5 DEF Living, ConnRecord
<1>11. SocketOwn'
  BY <1>4, <1>5, <1>10 DEF SocketInv, AloneHeld, SocketOwn
<1> QED BY <1>7, <1>8, <1>9, <1>11 DEF SocketInv

\* What leaves the sockets alone keeps the invariant: every action of the calls.
LEMMA CallKeeps == ASSUME SocketInv, UNCHANGED sockets PROVE SocketInv'
BY DEF sockets, SocketInv, Types, HoldsLiving, Together, AloneHeld, NotYetTold, TimersOfBegun, SocketOwn, Living

\* Every step keeps the invariant.
LEMMA StepKeepsSocketInv == ASSUME SocketInv, [Next]_vars PROVE SocketInv'
<1>1. ASSUME NEW n \in Connects, Connection(n) PROVE SocketInv'
  BY <1>1, ConnectNWSKeeps, OpensKeeps, OnConnectKeeps, OnCloseKeeps DEF Connection
<1>2. CASE ConnectTimer
  BY <1>2, ConnectTimerKeeps
<1>3. ASSUME NEW c \in Calls, Call(c) PROVE UNCHANGED sockets
  BY <1>3 DEF Call, Ask, BrowserSettles, BrowserRefuses, Loads, LoadsEmpty, Fails, Finish, ExtraTimer
<1>4. CASE UNCHANGED vars
  BY <1>4, CallKeeps DEF vars
<1> QED BY <1>1, <1>2, <1>3, <1>4, CallKeeps DEF Next

\* The invariant holds of every behaviour.
THEOREM SocketInvAlways == Spec => []SocketInv
<1> QED BY InitSocketInv, StepKeepsSocketInv, PTL DEF Spec

\* getDevices never lists the peers of a socket whose close was handled (discovery.js
\* 1681-1690): onclose forgets the socket in the script's variable.
THEOREM VariableNotClosed == Spec => []NotClosed
<1>1. SocketInv => NotClosed
  BY DEF SocketInv, HoldsLiving, Living, NotClosed
<1> QED BY <1>1, SocketInvAlways, PTL

\* A connectNWS whose socket is alone resolves with it, and files the peers it is told of.
THEOREM AloneGetsItsOwn == Spec => []SocketOwn
<1>1. SocketInv => SocketOwn
  BY DEF SocketInv
<1> QED BY <1>1, SocketInvAlways, PTL

-----------------------------------------------------------------------------
(* Requests.  Those of one function nest like brackets as long as none ends *)
(* before a newer one: each found the handler of the one before it.         *)

Words == {Null, "native", "false", "notWorking"}
AllWays == (UNION { Ways(f) : f \in Asked }) \cup {Null}
CallRecord == [pc : Stages, fn : Asked \cup {Null}, way : AllWays,
               reply : {Null, "data", "empty", "error"}, answer : Calls \cup Words]

HttpTypes ==
  /\ call \in [Calls -> CallRecord]
  /\ window \in [Asked -> Calls \cup {Null}]
  /\ found \in [Calls -> Calls \cup {Null}] /\ box \in [Calls -> Calls \cup {Null}]
  /\ wire \in Seq(Calls) /\ crossed \subseteq Calls

Sent(c) == call[c].pc \notin {"idle", "browser"}

\* A call on its way stands once in wire; nothing is kept for one that is not.
WireExact ==
  /\ IsInjective(wire)
  /\ \A c \in Calls : call[c].pc = "wire" <=> c \in ToSet(wire)
  /\ \A c \in Calls : c \notin ToSet(wire) => found[c] = Null /\ box[c] = Null

\* Under a function's name there are handlers of its own requests only.
HandlersOf ==
  /\ \A c \in Calls : call[c].pc # "idle" => call[c].fn \in Asked
  /\ \A f \in Asked : window[f] # Null => Sent(window[f]) /\ call[window[f]].fn = f
  /\ \A c \in Calls : found[c] # Null => Sent(found[c]) /\ Alike(found[c], c)

\* d is the next request of the function of c.
Follows(c, d) ==
  /\ Before(wire, c, d) /\ Alike(c, d)
  /\ \A b \in Calls : ~(Before(wire, c, b) /\ Before(wire, b, d) /\ Alike(b, c))

Nest ==
  /\ \A c \in crossed : Sent(c)
  /\ \A c, d \in Calls : Before(wire, c, d) /\ Alike(c, d) /\ d \in crossed => c \in crossed
  /\ \A c, d \in Calls \ crossed : Follows(c, d) => found[d] = c
  /\ \A c \in ToSet(wire) \ crossed : ~Outlasted(c) => window[call[c].fn] = c

\* Only the end of a request brings a reply.
Unanswered == \A c \in Calls : call[c].pc \in {"idle", "browser", "wire"} => call[c].reply = Null

HttpInv == HttpTypes /\ Unanswered /\ WireExact /\ HandlersOf /\ Nest /\ OwnAnswer

\* The order of a sequence without repetitions.
LEMMA BeforeOrders ==
  ASSUME NEW s \in Seq(Calls), IsInjective(s)
  PROVE  /\ \A a, b : Before(s, a, b) => a \in ToSet(s) /\ b \in ToSet(s) /\ a # b
         /\ \A a, b : ~(Before(s, a, b) /\ Before(s, b, a))
         /\ \A a, b, d : Before(s, a, b) /\ Before(s, b, d) => Before(s, a, d)
         /\ \A a, b \in ToSet(s) : a = b \/ Before(s, a, b) \/ Before(s, b, a)
         /\ ToSet(s) \subseteq Calls
<1>1. DOMAIN s = 1..Len(s) /\ Len(s) \in Nat /\ \A k \in DOMAIN s : s[k] \in Calls
  BY LenProperties
<1>2. \A j, k \in DOMAIN s : s[j] = s[k] => j = k
  BY DEF IsInjective
<1> QED BY <1>1, <1>2 DEF Before, ToSet

LEMMA BeforeAppended ==
  ASSUME NEW s \in Seq(Calls), IsInjective(s), NEW c \in Calls, c \notin ToSet(s)
  PROVE  /\ Append(s, c) \in Seq(Calls) /\ IsInjective(Append(s, c))
         /\ ToSet(Append(s, c)) = ToSet(s) \cup {c}
         /\ \A a, b : Before(Append(s, c), a, b) <=> Before(s, a, b) \/ (a \in ToSet(s) /\ b = c)
<1> DEFINE t == Append(s, c)
<1>1. /\ DOMAIN s = 1..Len(s) /\ Len(s) \in Nat /\ t \in Seq(Calls)
      /\ DOMAIN t = 1..(Len(s) + 1) /\ t[Len(s) + 1] = c
      /\ \A k \in DOMAIN s : t[k] = s[k]
  BY AppendProperties, LenProperties
<1> HIDE DEF t
<1>2. \A k \in DOMAIN t : k \in DOMAIN s \/ k = Len(s) + 1
  BY <1>1
<1>3. DOMAIN s \subseteq DOMAIN t /\ Len(s) + 1 \in DOMAIN t
  BY <1>1
<1>4. ToSet(t) = ToSet(s) \cup {c}
  BY <1>1, <1>2, <1>3 DEF ToSet
<1>5. IsInjective(t)
  BY <1>1, <1>2 DEF IsInjective, ToSet
<1>6. ASSUME NEW a, NEW b, Before(t, a, b) PROVE Before(s, a, b) \/ (a \in ToSet(s) /\ b = c)
  <2>1. PICK j, k \in DOMAIN t : j < k /\ t[j] = a /\ t[k] = b
    BY <1>6 DEF Before
  <2>2. j \in DOMAIN s
    BY <1>1, <1>2, <2>1
  <2> QED BY <1>1, <1>2, <2>1, <2>2 DEF Before, ToSet
<1>7. ASSUME NEW a, NEW b, Before(s, a, b) \/ (a \in ToSet(s) /\ b = c) PROVE Before(t, a, b)
  <2>1. CASE Before(s, a, b)
    BY <1>1, <1>3, <2>1 DEF Before
  <2>2. CASE a \in ToSet(s) /\ b = c
    <3>1. PICK j \in DOMAIN s : s[j] = a
      BY <2>2 DEF ToSet
    <3>2. j < Len(s) + 1 /\ t[j] = a
      BY <1>1, <3>1
    <3> QED BY <1>1, <1>3, <2>2, <3>1, <3>2 DEF Before
  <2> QED BY <1>7, <2>1, <2>2
<1> QED BY <1>1, <1>4, <1>5, <1>6, <1>7 DEF t

LEMMA BeforeRemoved ==
  ASSUME NEW s \in Seq(Calls), IsInjective(s), NEW p \in DOMAIN s
  PROVE  /\ RemoveAt(s, p) \in Seq(Calls) /\ IsInjective(RemoveAt(s, p))
         /\ ToSet(RemoveAt(s, p)) = ToSet(s) \ {s[p]}
         /\ \A a, b : Before(RemoveAt(s, p), a, b) <=> Before(s, a, b) /\ a # s[p] /\ b # s[p]
<1> DEFINE t == RemoveAt(s, p)
           Old(k) == IF k < p THEN k ELSE k + 1
           New(k) == IF k < p THEN k ELSE k - 1
<1>1. /\ t \in Seq(Calls) /\ Len(t) = Len(s) - 1 /\ \A k \in DOMAIN t : t[k] = s[Old(k)]
      /\ DOMAIN s = 1..Len(s) /\ Len(s) \in Nat /\ DOMAIN t = 1..Len(t) /\ Len(t) \in Nat
  BY RemoveAtParts, LenProperties
<1> HIDE DEF t
<1>2. \A k \in DOMAIN t : Old(k) \in DOMAIN s /\ Old(k) # p
  BY <1>1
<1>3. \A k \in DOMAIN s : k # p => New(k) \in DOMAIN t /\ Old(New(k)) = k
  BY <1>1
<1>4. \A j, k \in DOMAIN t : (j < k <=> Old(j) < Old(k)) /\ (Old(j) = Old(k) => j = k)
  BY <1>1
<1>5. \A j, k \in DOMAIN s : j # p /\ k # p /\ j < k => New(j) < New(k)
  BY <1>1
<1> HIDE DEF Old, New
<1>6. \A j, k \in DOMAIN s : s[j] = s[k] => j = k
  BY DEF IsInjective
<1>7. IsInjective(t)
  BY <1>1, <1>2, <1>4, <1>6 DEF IsInjective
<1>8. ToSet(t) = ToSet(s) \ {s[p]}
  BY <1>1, <1>2, <1>3, <1>6 DEF ToSet
<1>9. ASSUME NEW a, NEW b, Before(t, a, b) PROVE Before(s, a, b) /\ a # s[p] /\ b # s[p]
  <2>1. PICK j, k \in DOMAIN t : j < k /\ t[j] = a /\ t[k] = b
    BY <1>9 DEF Before
  <2>2. Old(j) < Old(k) /\ s[Old(j)] = a /\ s[Old(k)] = b
    BY <1>1, <1>4, <2>1
  <2> QED BY <1>2, <1>6, <2>1, <2>2 DEF Before
<1>10. ASSUME NEW a, NEW b, Before(s, a, b), a # s[p], b # s[p] PROVE Before(t, a, b)
  <2>1. PICK j, k \in DOMAIN s : j < k /\ s[j] = a /\ s[k] = b
    BY <1>10 DEF Before
  <2>2. j # p /\ k # p
    BY <1>10, <2>1
  <2>3. New(j) \in DOMAIN t /\ New(k) \in DOMAIN t /\ New(j) < New(k)
    BY <1>3, <1>5, <2>1, <2>2
  <2>4. t[New(j)] = a /\ t[New(k)] = b
    BY <1>1, <1>3, <2>1, <2>2, <2>3
  <2> QED BY <2>3, <2>4 DEF Before
<1> QED BY <1>1, <1>7, <1>8, <1>9, <1>10 DEF t

LEMMA InitHttpInv == Init => HttpInv
<1> SUFFICES ASSUME Init PROVE HttpInv
  OBVIOUS
<1>1. \A c \in Calls : /\ call[c] = [pc |-> "idle", fn |-> Null, way |-> Null, reply |-> Null, answer |-> Null]
                       /\ found[c] = Null /\ box[c] = Null
  BY DEF Init
<1>2. /\ wire = <<>> /\ crossed = {} /\ \A f \in Asked : window[f] = Null
  BY DEF Init
<1>3. HttpTypes
  BY <1>1, <1>2 DEF Init, HttpTypes, CallRecord, AllWays, Words, Stages
<1>4. ToSet(wire) = {} /\ IsInjective(wire) /\ \A a, b : ~Before(wire, a, b)
  BY <1>2 DEF ToSet, IsInjective, Before
<1>5. WireExact /\ Unanswered
  BY <1>1, <1>4 DEF WireExact, Unanswered
<1>6. HandlersOf /\ OwnAnswer
  BY <1>1, <1>2 DEF HandlersOf, OwnAnswer
<1>7. Nest
  BY <1>2, <1>4 DEF Nest, Follows
<1> QED BY <1>3, <1>5, <1>6, <1>7 DEF HttpInv

\* A step of a call that is not on its way and sends nothing.
LEMMA CallMoves ==
  ASSUME HttpInv, NEW c \in Calls, UNCHANGED http,
         call'[c] \in CallRecord, call' = [call EXCEPT ![c] = call'[c]],
         call[c].pc # "wire", call'[c].pc \notin {"idle", "wire"},
         call[c].pc # "idle" => call'[c].fn = call[c].fn, call'[c].fn \in Asked,
         Sent(c) => call'[c].pc # "browser",
         call'[c].reply = call[c].reply, 
         call'[c].answer = call[c].answer \/ call[c].reply = Null,
         call'[c].pc = "settled" => call[c].pc = "timer" \/ call[c].reply = Null,
         call'[c].pc # "timer"
  PROVE  HttpInv'
<1>0. \A d \in Calls : d # c => call'[d] = call[d]
  BY DEF HttpInv, HttpTypes
<1>1. HttpTypes'
  BY DEF HttpInv, HttpTypes, http
<1>2. Unanswered' /\ WireExact'
  BY <1>0 DEF HttpInv, WireExact, Unanswered, http, Sent
<1>3. \A d \in Calls : Sent(d) => Sent(d)' /\ call'[d].fn = call[d].fn
  BY <1>0 DEF Sent
<1>5. c \notin ToSet(wire) /\ found[c] = Null
  BY DEF HttpInv, WireExact
<1>4. HandlersOf'
  <2>1. \A d \in Calls : call'[d].pc # "idle" => call'[d].fn \in Asked
    BY <1>0 DEF HttpInv, HandlersOf
  <2>2. \A f \in Asked : window'[f] # Null => Sent(window[f])' /\ call'[window'[f]].fn = f
    <3> SUFFICES ASSUME NEW f \in Asked, window'[f] # Null
                 PROVE  Sent(window[f])' /\ call'[window'[f]].fn = f
      OBVIOUS
    <3>1. window' = window /\ window[f] \in Calls
      BY DEF http, HttpInv, HttpTypes
    <3>2. Sent(window[f]) /\ call[window[f]].fn = f
      BY <3>1 DEF HttpInv, HandlersOf
    <3>3. call'[window'[f]].pc \notin {"idle", "browser"} /\ call'[window'[f]].fn = f
      BY <1>3, <3>1, <3>2 DEF Sent
    <3> QED BY <3>3 DEF Sent
  <2>3. ASSUME NEW d \in Calls, found'[d] # Null PROVE Sent(found[d])' /\ Alike(found[d], d)'
    <3>1. found' = found /\ d # c /\ found[d] \in Calls
      BY <1>5, <2>3 DEF http, HttpInv, HttpTypes
    <3>2. Sent(found[d]) /\ call[found[d]].fn = call[d].fn /\ call'[d].fn = call[d].fn
      BY <1>0, <2>3, <3>1 DEF HttpInv, HandlersOf, Alike
    <3>3. call'[found'[d]].pc \notin {"idle", "browser"} /\ call'[found'[d]].fn = call'[d].fn
      BY <1>3, <3>1, <3>2 DEF Sent
    <3> QED BY <3>3 DEF Alike, Sent
  <2> QED BY <2>1, <2>2, <2>3 DEF HandlersOf
<1>6. Nest'
  <2>1. \A a, b : Before(wire', a, b) => a \in Calls \ {c} /\ b \in Calls \ {c}
    BY <1>5, BeforeOrders DEF HttpInv, HttpTypes, WireExact, http
  <2>2. UNCHANGED <<wire, crossed, window, found>> /\ c \notin ToSet(wire)
    BY <1>5 DEF http
  <2>3. \A a, b \in Calls \ {c} : Alike(a, b)' <=> Alike(a, b)
    BY <1>0 DEF Alike
  <2>4. \A a \in crossed : Sent(a)'
    BY <1>3 DEF HttpInv, HttpTypes, Nest
  <2>5. \A a, b \in Calls : Before(wire, a, b) => a # c /\ b # c
    BY <2>1, <2>2
  <2>6. \A a, b \in Calls : Follows(a, b)' => Follows(a, b)
    BY <2>2, <2>3, <2>5 DEF Follows
  <2>7. \A a \in Calls : (~Outlasted(a))' => ~Outlasted(a)
    BY <2>2, <2>3, <2>5 DEF Outlasted
  <2>8. \A a \in ToSet(wire) : a \in Calls /\ call'[a].fn = call[a].fn
    BY <1>0, <2>2, BeforeOrders DEF HttpInv, HttpTypes, WireExact
  <2>9. \A a \in ToSet(wire') \ crossed' : (~Outlasted(a))' => window'[call'[a].fn] = a
    BY <2>2, <2>7, <2>8 DEF HttpInv, Nest
  <2>10. \A a, b \in Calls : Before(wire', a, b) /\ Alike(a, b)' /\ b \in crossed' => a \in crossed'
    BY <2>2, <2>3, <2>5 DEF HttpInv, Nest
  <2>11. \A a, b \in Calls \ crossed' : Follows(a, b)' => found'[b] = a
    BY <2>2, <2>6 DEF HttpInv, Nest
  <2> QED BY <2>2, <2>4, <2>9, <2>10, <2>11 DEF Nest
<1>7. OwnAnswer'
  BY <1>0, NullAssumption DEF HttpInv, OwnAnswer, http
<1> QED BY <1>1, <1>2, <1>4, <1>6, <1>7 DEF HttpInv

\* A request goes out: it nests in the newest of its function.
LEMMA SendKeeps ==
  ASSUME HttpInv, NEW c \in Calls, NEW f \in Asked, NEW w \in AllWays,
         call[c].pc \in {"idle", "browser"}, call[c].pc = "browser" => call[c].fn = f,
         Send(c, f, w)
  PROVE  HttpInv'
<1>0. /\ call \in [Calls -> CallRecord] /\ window \in [Asked -> Calls \cup {Null}]
      /\ found \in [Calls -> Calls \cup {Null}] /\ box \in [Calls -> Calls \cup {Null}]
      /\ wire \in Seq(Calls) /\ crossed \subseteq Calls /\ IsInjective(wire)
      /\ c \notin ToSet(wire) /\ ~Sent(c) /\ c \notin crossed /\ call[c].reply = Null
  BY DEF HttpInv, HttpTypes, WireExact, Unanswered, Nest, Sent
<1>1. /\ call' = [call EXCEPT ![c].pc = "wire", ![c].fn = f, ![c].way = w]
      /\ found' = [found EXCEPT ![c] = window[f]] /\ window' = [window EXCEPT ![f] = c]
      /\ wire' = Append(wire, c) /\ box' = box /\ crossed' = crossed
  BY DEF Send
<1>2. /\ call'[c].pc = "wire" /\ call'[c].fn = f /\ call'[c].reply = call[c].reply
      /\ call'[c] \in CallRecord
      /\ \A d \in Calls : d # c => call'[d] = call[d]
  <2>1. call[c] \in CallRecord /\ call'[c] = [call[c] EXCEPT !.pc = "wire", !.fn = f, !.way = w]
    BY <1>0, <1>1 DEF CallRecord
  <2>2. call'[c].pc = "wire" /\ call'[c].fn = f /\ call'[c].reply = call[c].reply /\ call'[c] \in CallRecord
    BY <2>1 DEF CallRecord, Stages
  <2> QED BY <1>0, <1>1, <2>2
<1>3. /\ window'[f] = c /\ \A g \in Asked : g # f => window'[g] = window[g]
      /\ found'[c] = window[f] /\ \A d \in Calls : d # c => found'[d] = found[d]
  BY <1>0, <1>1
<1>4. /\ wire' \in Seq(Calls) /\ IsInjective(wire') /\ ToSet(wire') = ToSet(wire) \cup {c}
      /\ \A a, b : Before(wire', a, b) <=> Before(wire, a, b) \/ (a \in ToSet(wire) /\ b = c)
  BY <1>0, <1>1, BeforeAppended
<1>5. /\ \A a, b : Before(wire, a, b) => a \in ToSet(wire) /\ b \in ToSet(wire)
      /\ \A a, b \in ToSet(wire) : a = b \/ Before(wire, a, b) \/ Before(wire, b, a)
      /\ ToSet(wire) \subseteq Calls \ {c}
  BY <1>0, BeforeOrders
<1>6. HttpTypes'
  <2>1. call' \in [Calls -> CallRecord]
    BY <1>0, <1>1, <1>2
  <2>2. window' \in [Asked -> Calls \cup {Null}] /\ found' \in [Calls -> Calls \cup {Null}]
    BY <1>0, <1>1
  <2> QED BY <1>0, <1>1, <1>4, <2>1, <2>2 DEF HttpTypes
<1>7. Unanswered' /\ WireExact' /\ OwnAnswer'
  <2>1. Unanswered'
    BY <1>0, <1>2 DEF HttpInv, Unanswered
  <2>2. WireExact'
    BY <1>1, <1>2, <1>3, <1>4 DEF HttpInv, WireExact
  <2>3. OwnAnswer'
    BY <1>1, <1>2 DEF HttpInv, OwnAnswer
  <2> QED BY <2>1, <2>2, <2>3
<1>8. \A d \in Calls : Sent(d) => d # c /\ Sent(d)' /\ call'[d].fn = call[d].fn
  BY <1>0, <1>2 DEF Sent
<1>9. HandlersOf'
  <2>1. \A d \in Calls : call'[d].pc # "idle" => call'[d].fn \in Asked
    BY <1>2 DEF HttpInv, HandlersOf
  <2>2. ASSUME NEW g \in Asked, window'[g] # Null
        PROVE  call'[window'[g]].pc \notin {"idle", "browser"} /\ call'[window'[g]].fn = g
    <3>1. CASE g = f
      BY <1>2, <1>3, <3>1
    <3>2. CASE g # f
      <4>1. window'[g] = window[g] /\ window[g] \in Calls
        BY <1>0, <1>3, <2>2, <3>2
      <4>2. Sent(window[g]) /\ call[window[g]].fn = g
        BY <2>2, <4>1 DEF HttpInv, HandlersOf
      <4> QED BY <1>8, <4>1, <4>2 DEF Sent
    <3> QED BY <3>1, <3>2
  <2>3. ASSUME NEW d \in Calls, found'[d] # Null
        PROVE  call'[found'[d]].pc \notin {"idle", "browser"} /\ call'[found'[d]].fn = call'[d].fn
    <3>1. CASE d = c
      <4>1. found'[d] = window[f] /\ window[f] \in Calls /\ call'[d].fn = f
        BY <1>0, <1>2, <1>3, <2>3, <3>1
      <4>2. Sent(window[f]) /\ call[window[f]].fn = f
        BY <2>3, <4>1 DEF HttpInv, HandlersOf
      <4> QED BY <1>8, <4>1, <4>2 DEF Sent
    <3>2. CASE d # c
      <4>1. found'[d] = found[d] /\ found[d] \in Calls /\ call'[d].fn = call[d].fn
        BY <1>0, <1>2, <1>3, <2>3, <3>2
      <4>2. Sent(found[d]) /\ call[found[d]].fn = call[d].fn
        BY <2>3, <4>1 DEF HttpInv, HandlersOf, Alike
      <4> QED BY <1>8, <4>1, <4>2 DEF Sent
    <3> QED BY <3>1, <3>2
  <2> QED BY <2>1, <2>2, <2>3 DEF HandlersOf, Sent, Alike
<1>10. \A a, b \in Calls \ {c} : Alike(a, b)' <=> Alike(a, b)
  BY <1>2 DEF Alike
<1>11. Nest'
  <2>1. \A a \in crossed' : Sent(a)'
    BY <1>0, <1>1, <1>8 DEF HttpInv, Nest
  <2>2. \A a, b \in Calls : Before(wire', a, b) /\ Alike(a, b)' /\ b \in crossed' => a \in crossed'
    BY <1>0, <1>1, <1>4, <1>5, <1>10 DEF HttpInv, Nest
  <2>3. ASSUME NEW a \in Calls \ crossed', NEW b \in Calls \ crossed', Follows(a, b)'
        PROVE  found'[b] = a
    <3>1. /\ Before(wire', a, b) /\ Alike(a, b)' /\ a \in ToSet(wire) /\ a # c
          /\ \A d \in Calls : ~(Before(wire', a, d) /\ Before(wire', d, b) /\ Alike(d, a)')
      BY <1>4, <1>5, <2>3 DEF Follows
    <3>2. CASE b = c
      <4>1. call[a].fn = f
        BY <1>2, <3>1, <3>2 DEF Alike
      <4>2. ~Outlasted(a)
        <5> SUFFICES ASSUME NEW d \in Calls, Before(wire, a, d), Alike(a, d) PROVE FALSE
          BY DEF Outlasted
        <5>1. d \in ToSet(wire) /\ d # c
          BY <1>5
        <5>2. Before(wire', a, d) /\ Before(wire', d, b)
          BY <1>4, <3>2, <5>1
        <5>3. Alike(d, a)
          BY DEF Alike
        <5> QED BY <1>10, <3>1, <5>1, <5>2, <5>3
      <4>3. window[f] = a
        BY <1>1, <3>1, <4>1, <4>2 DEF HttpInv, Nest
      <4> QED BY <1>3, <3>2, <4>3
    <3>3. CASE b # c
      <4>1. Before(wire, a, b) /\ b \in Calls \ {c}
        BY <1>4, <3>1, <3>3
      <4>2. Follows(a, b)
        BY <1>4, <1>5, <1>10, <3>1, <4>1 DEF Follows
      <4> QED BY <1>1, <1>3, <3>3, <4>2 DEF HttpInv, Nest
    <3> QED BY <3>2, <3>3
  <2>4. ASSUME NEW a \in ToSet(wire') \ crossed', (~Outlasted(a))'
        PROVE  window'[call'[a].fn] = a
    <3>0. a \in Calls /\ \A d \in Calls : ~(Before(wire', a, d) /\ Alike(a, d)')
      BY <1>4, <1>5, <2>4 DEF Outlasted
    <3>1. CASE a = c
      BY <1>2, <1>3, <3>1
    <3>2. CASE a # c
      <4>1. a \in ToSet(wire) /\ Before(wire', a, c)
        BY <1>4, <2>4, <3>2
      <4>2. call'[a].fn = call[a].fn /\ call[a].fn # f
        BY <1>2, <3>0, <3>2, <4>1 DEF Alike
      <4>3. ~Outlasted(a)
        BY <1>4, <1>5, <1>10, <3>0, <3>2 DEF Outlasted
      <4>4. window[call[a].fn] = a
        BY <1>1, <2>4, <4>1, <4>3 DEF HttpInv, Nest
      <4>5. call[a].fn \in Asked
        BY <3>0, <4>1 DEF HttpInv, WireExact, HandlersOf
      <4> QED BY <1>3, <4>2, <4>4, <4>5
    <3> QED BY <3>1, <3>2
  <2> QED BY <2>1, <2>2, <2>3, <2>4 DEF Nest
<1> QED BY <1>6, <1>7, <1>9, <1>11 DEF HttpInv

\* A request ends.  The newest of its function takes its handler with it, and the one
\* it nests in has the name again; when another ends, those left no longer nest.
LEMMA FinishKeeps ==
  ASSUME HttpInv, NEW c \in Calls, call[c].pc = "wire",
         NEW reply \in {"data", "empty", "error"}, NEW got \in Calls \cup {Null},
         NEW answer \in Calls \cup Words, NEW boxes \in [Calls -> Calls \cup {Null}],
         \A d \in Calls \ ToSet(wire) : boxes[d] = Null,
         c \notin crossed /\ ~Outlasted(c) =>
           (reply = "data" => answer = c) /\ (reply = "error" => answer = "notWorking"),
         Finish(c, reply, got, answer, boxes)
  PROVE  HttpInv'
<1>0. /\ call \in [Calls -> CallRecord] /\ window \in [Asked -> Calls \cup {Null}]
      /\ found \in [Calls -> Calls \cup {Null}] /\ box \in [Calls -> Calls \cup {Null}]
      /\ wire \in Seq(Calls) /\ crossed \subseteq Calls /\ IsInjective(wire)
      /\ c \in ToSet(wire) /\ call[c].fn \in Asked
  BY DEF HttpInv, HttpTypes, WireExact, HandlersOf
<1>1. PICK pc1 \in {"timer", "stuck", "settled"} :
        call' = [call EXCEPT ![c].pc = pc1, ![c].reply = reply, ![c].answer = answer]
  BY DEF Finish, Settle
<1>2. /\ call'[c].pc = pc1 /\ call'[c].fn = call[c].fn
      /\ call'[c].reply = reply /\ call'[c].answer = answer
      /\ call'[c] \in CallRecord
      /\ \A d \in Calls : d # c => call'[d] = call[d]
  <2>1. call[c] \in CallRecord /\ call'[c] = [call[c] EXCEPT !.pc = pc1, !.reply = reply, !.answer = answer]
    BY <1>0, <1>1 DEF CallRecord
  <2>2. /\ call'[c].pc = pc1 /\ call'[c].fn = call[c].fn
        /\ call'[c].reply = reply /\ call'[c].answer = answer
        /\ call'[c] \in CallRecord
    BY <2>1 DEF CallRecord, Stages
  <2> QED BY <1>0, <1>1, <2>2
<1>3. /\ window' = [window EXCEPT ![call[c].fn] = found[c]] /\ found' = [found EXCEPT ![c] = Null]
      /\ box' = [d \in Calls |-> IF d = c THEN Null
                                 ELSE IF d = found[c] /\ d \in ToSet(wire) /\ got # Null THEN got
                                 ELSE boxes[d]]
      /\ crossed' = IF Outlasted(c) THEN crossed \cup { d \in ToSet(wire) : Alike(c, d) } ELSE crossed
  BY DEF Finish, PutBack, HandOn
<1>4. /\ window'[call[c].fn] = found[c] /\ \A g \in Asked : g # call[c].fn => window'[g] = window[g]
      /\ found'[c] = Null /\ \A d \in Calls : d # c => found'[d] = found[d]
  BY <1>0, <1>3
<1>5. PICK p \in DOMAIN wire : wire[p] = c /\ wire' = RemoveAt(wire, p)
  BY DEF Finish
<1>6. /\ wire' \in Seq(Calls) /\ IsInjective(wire') /\ ToSet(wire') = ToSet(wire) \ {c}
      /\ \A a, b : Before(wire', a, b) <=> Before(wire, a, b) /\ a # c /\ b # c
  BY <1>0, <1>5, BeforeRemoved
<1>7. /\ \A a, b : Before(wire, a, b) => a \in ToSet(wire) /\ b \in ToSet(wire) /\ a # b
      /\ \A a, b : ~(Before(wire, a, b) /\ Before(wire, b, a))
      /\ \A a, b, d : Before(wire, a, b) /\ Before(wire, b, d) => Before(wire, a, d)
      /\ \A a, b \in ToSet(wire) : a = b \/ Before(wire, a, b) \/ Before(wire, b, a)
      /\ ToSet(wire) \subseteq Calls
  BY <1>0, BeforeOrders
<1>8. HttpTypes'
  <2>1. call' \in [Calls -> CallRecord]
    BY <1>0, <1>1, <1>2
  <2>2. window' \in [Asked -> Calls \cup {Null}] /\ found' \in [Calls -> Calls \cup {Null}]
    BY <1>0, <1>3
  <2>3. box' \in [Calls -> Calls \cup {Null}]
    BY <1>3
  <2>4. crossed' \subseteq Calls
    BY <1>0, <1>3, <1>7
  <2> QED BY <1>6, <2>1, <2>2, <2>3, <2>4 DEF HttpTypes
<1>9. Unanswered' /\ WireExact' /\ OwnAnswer'
  <2>1. Unanswered'
    BY <1>2 DEF HttpInv, Unanswered
  <2>2. \A d \in Calls \ ToSet(wire') : found'[d] = Null /\ box'[d] = Null
    BY <1>3, <1>4, <1>6 DEF HttpInv, WireExact
  <2>3. WireExact'
    BY <1>2, <1>6, <2>2 DEF HttpInv, WireExact
  <2>4. crossed \subseteq crossed' /\ (c \notin crossed' => c \notin crossed /\ ~Outlasted(c))
    BY <1>0, <1>3 DEF Alike
  <2>5. OwnAnswer'
    BY <1>2, <2>4 DEF HttpInv, OwnAnswer
  <2> QED BY <2>1, <2>3, <2>5
<1>10. \A d \in Calls : (Sent(d) => Sent(d)') /\ call'[d].fn = call[d].fn /\ (call'[d].pc # "idle" => call[d].pc # "idle")
  BY <1>2 DEF Sent
<1>11. HandlersOf'
  <2>1. \A d \in Calls : call'[d].pc # "idle" => call'[d].fn \in Asked
    BY <1>10 DEF HttpInv, HandlersOf
  <2>2. ASSUME NEW g \in Asked, window'[g] # Null
        PROVE  call'[window'[g]].pc \notin {"idle", "browser"} /\ call'[window'[g]].fn = g
    <3>1. CASE g = call[c].fn
      <4>1. window'[g] = found[c] /\ found[c] \in Calls
        BY <1>0, <1>4, <2>2, <3>1
      <4>2. Sent(found[c]) /\ call[found[c]].fn = call[c].fn
        BY <2>2, <4>1 DEF HttpInv, HandlersOf, Alike
      <4> QED BY <1>10, <3>1, <4>1, <4>2 DEF Sent
    <3>2. CASE g # call[c].fn
      <4>1. window'[g] = window[g] /\ window[g] \in Calls
        BY <1>0, <1>4, <2>2, <3>2
      <4>2. Sent(window[g]) /\ call[window[g]].fn = g
        BY <2>2, <4>1 DEF HttpInv, HandlersOf
      <4> QED BY <1>10, <4>1, <4>2 DEF Sent
    <3> QED BY <3>1, <3>2
  <2>3. ASSUME NEW d \in Calls, found'[d] # Null
        PROVE  call'[found'[d]].pc \notin {"idle", "browser"} /\ call'[found'[d]].fn = call'[d].fn
    <3>1. found'[d] = found[d] /\ found[d] \in Calls
      BY <1>0, <1>4, <2>3
    <3>2. Sent(found[d]) /\ call[found[d]].fn = call[d].fn
      BY <2>3, <3>1 DEF HttpInv, HandlersOf, Alike
    <3> QED BY <1>10, <3>1, <3>2 DEF Sent
  <2> QED BY <2>1, <2>2, <2>3 DEF HandlersOf, Sent, Alike
<1>12. \A a, b \in Calls : Alike(a, b)' <=> Alike(a, b)
  BY <1>10 DEF Alike
<1>13. Nest'
  <2>1. \A a \in crossed' : Sent(a)'
    <3>1. \A a \in ToSet(wire) : a \in Calls /\ Sent(a)
      BY <1>7 DEF HttpInv, WireExact, Sent
    <3> QED BY <1>0, <1>3, <1>10, <3>1 DEF HttpInv, Nest
  <2>2. ASSUME NEW a \in Calls, NEW b \in Calls, Before(wire', a, b), Alike(a, b)', b \in crossed'
        PROVE  a \in crossed'
    <3>1. Before(wire, a, b) /\ Alike(a, b) /\ a \in ToSet(wire)
      BY <1>6, <1>7, <1>12, <2>2
    <3>2. CASE b \in crossed
      BY <1>3, <3>1, <3>2 DEF HttpInv, Nest
    <3>3. CASE b \notin crossed
      <4>1. Outlasted(c) /\ Alike(c, b)
        BY <1>3, <2>2, <3>3
      <4> QED BY <1>3, <3>1, <4>1 DEF Alike
    <3> QED BY <3>2, <3>3
  <2>3. ASSUME NEW a \in Calls \ crossed', NEW b \in Calls \ crossed', Follows(a, b)'
        PROVE  found'[b] = a
    <3>1. /\ Before(wire, a, b) /\ Alike(a, b) /\ a # c /\ b # c /\ a \in ToSet(wire) /\ b \in ToSet(wire)
          /\ \A d \in Calls : ~(Before(wire', a, d) /\ Before(wire', d, b) /\ Alike(d, a)')
      BY <1>6, <1>7, <1>12, <2>3 DEF Follows
    <3>2. a \notin crossed /\ b \notin crossed
      BY <1>3, <2>3
    <3>3. ~(Before(wire, c, b) /\ Alike(c, a))
      <4> SUFFICES ASSUME Before(wire, c, b), Alike(c, a) PROVE FALSE
        OBVIOUS
      <4>1. Outlasted(c) /\ Alike(c, b)
        BY <3>1 DEF Outlasted, Alike
      <4> QED BY <1>3, <2>3, <3>1, <4>1
    <3>4. Follows(a, b)
      BY <1>6, <1>12, <3>1, <3>3 DEF Follows
    <3>5. found[b] = a
      BY <3>2, <3>4 DEF HttpInv, Nest
    <3> QED BY <1>4, <3>1, <3>5
  <2>4. ASSUME NEW a \in ToSet(wire') \ crossed', (~Outlasted(a))'
        PROVE  window'[call'[a].fn] = a
    <3>0. /\ a \in Calls /\ a \in ToSet(wire) /\ a # c /\ a \notin crossed
          /\ \A d \in Calls : ~(Before(wire', a, d) /\ Alike(a, d)')
      BY <1>3, <1>6, <1>7, <2>4 DEF Outlasted
    <3>1. CASE ~Alike(a, c)
      <4>1. ~Outlasted(a)
        BY <1>6, <1>7, <1>12, <3>0, <3>1 DEF Outlasted
      <4>2. window[call[a].fn] = a
        BY <3>0, <4>1 DEF HttpInv, Nest
      <4>3. call[a].fn \in Asked /\ call[a].fn # call[c].fn /\ call'[a].fn = call[a].fn
        BY <1>10, <3>0, <3>1 DEF HttpInv, WireExact, HandlersOf, Alike
      <4> QED BY <1>4, <4>2, <4>3
    <3>2. CASE Alike(a, c)
      <4>1. ~Outlasted(c)
        BY <1>3, <2>4, <3>0, <3>2 DEF Alike
      <4>2. Before(wire, a, c)
        BY <1>0, <3>0, <3>2, <4>1, <1>7 DEF Outlasted, Alike
      <4>3. ~(\E d \in Calls : Before(wire, a, d) /\ Before(wire, d, c) /\ Alike(d, a))
        <5> SUFFICES ASSUME NEW d \in Calls, Before(wire, a, d), Before(wire, d, c), Alike(d, a) PROVE FALSE
          OBVIOUS
        <5>1. d # c
          BY <1>7
        <5>2. Before(wire', a, d) /\ Alike(a, d)'
          BY <1>6, <1>12, <3>0, <5>1 DEF Alike
        <5> QED BY <3>0, <5>2
      <4>4. Follows(a, c)
        BY <3>2, <4>2, <4>3 DEF Follows
      <4>5. c \notin crossed
        BY <3>0, <3>2, <4>2 DEF HttpInv, Nest
      <4>6. found[c] = a
        BY <3>0, <4>4, <4>5 DEF HttpInv, Nest
      <4> QED BY <1>4, <1>10, <3>0, <3>2, <4>6 DEF Alike
    <3> QED BY <3>1, <3>2
  <2> QED BY <2>1, <2>2, <2>3, <2>4 DEF Nest
<1> QED BY <1>8, <1>9, <1>11, <1>13 DEF HttpInv

\* The handler that runs is the request's own when it is the newest and no end was out of turn.
LEMMA EndsKeep ==
  ASSUME HttpInv, NEW c \in Calls, Loads(c) \/ LoadsEmpty(c) \/ Fails(c)
  PROVE  HttpInv'
<1>0. /\ call[c].pc = "wire" /\ c \in ToSet(wire) /\ call[c].fn \in Asked
      /\ box \in [Calls -> Calls \cup {Null}] /\ \A d \in Calls \ ToSet(wire) : box[d] = Null
  BY DEF Loads, LoadsEmpty, Fails, HttpInv, HttpTypes, WireExact, HandlersOf
<1>1. CASE Loads(c)
  <2> DEFINE h == window[call[c].fn]
             boxes == [d \in Calls |-> IF d = h /\ d \in ToSet(wire) THEN c ELSE box[d]]
             answer == IF boxes[c] = Null THEN "false" ELSE boxes[c]
  <2>1. Finish(c, "data", boxes[c], answer, boxes)
    BY <1>1 DEF Loads
  <2>2. boxes \in [Calls -> Calls \cup {Null}] /\ \A d \in Calls \ ToSet(wire) : boxes[d] = Null
    BY <1>0
  <2>3. c \notin crossed /\ ~Outlasted(c) => answer = c
    <3>1. c \notin crossed /\ ~Outlasted(c) => h = c
      BY <1>0 DEF HttpInv, Nest
    <3> QED BY <1>0, <3>1, NullAssumption
  <2> HIDE DEF h, boxes
  <2>4. boxes[c] \in Calls \cup {Null} /\ answer \in Calls \cup Words
    BY <2>2 DEF Words
  <2> HIDE DEF answer
  <2> QED BY <1>0, <2>1, <2>2, <2>3, <2>4, FinishKeeps
<1>2. CASE LoadsEmpty(c)
  <2> DEFINE answer == IF box[c] = Null THEN "false" ELSE box[c]
  <2>1. Finish(c, "empty", box[c], answer, box)
    BY <1>2 DEF LoadsEmpty
  <2>2. box[c] \in Calls \cup {Null} /\ answer \in Calls \cup Words
    BY <1>0 DEF Words
  <2> HIDE DEF answer
  <2> QED BY <1>0, <2>1, <2>2, FinishKeeps
<1>3. CASE Fails(c)
  <2>1. Finish(c, "error", box[c], "notWorking", box)
    BY <1>3 DEF Fails
  <2>2. box[c] \in Calls \cup {Null} /\ "notWorking" \in Calls \cup Words
    BY <1>0 DEF Words
  <2> QED BY <1>0, <2>1, <2>2, FinishKeeps
<1> QED BY <1>1, <1>2, <1>3

LEMMA CallsKeep ==
  ASSUME HttpInv, NEW c \in Calls, Call(c)
  PROVE  HttpInv'
<1>0. call \in [Calls -> CallRecord] /\ call[c] \in CallRecord
  BY DEF HttpInv, HttpTypes
<1>1. CASE Ask(c)
  <2>0. PICK f \in Asked : \E w \in Ways(f) :
          \/ Send(c, f, w)
          \/ /\ w \notin {"jsonp", "wait"}
             /\ call' = [call EXCEPT
                  ![c].fn = f, ![c].way = w,
                  ![c].pc = CASE w = "now" -> "settled" [] w = "never" -> "stuck" [] OTHER -> "browser",
                  ![c].answer = IF w = "now" THEN "native" ELSE Null]
             /\ UNCHANGED http
    BY <1>1 DEF Ask
  <2>1. PICK w \in Ways(f) :
          \/ Send(c, f, w)
          \/ /\ call' = [call EXCEPT
                  ![c].fn = f, ![c].way = w,
                  ![c].pc = CASE w = "now" -> "settled" [] w = "never" -> "stuck" [] OTHER -> "browser",
                  ![c].answer = IF w = "now" THEN "native" ELSE Null]
             /\ UNCHANGED http
    BY <2>0
  <2>2. w \in AllWays /\ call[c].pc = "idle"
    BY <1>1 DEF Ask, AllWays
  <2>3. CASE Send(c, f, w)
    BY <2>2, <2>3, SendKeeps
  <2>4. CASE ~Send(c, f, w)
    <3> DEFINE stage == CASE w = "now" -> "settled" [] w = "never" -> "stuck" [] OTHER -> "browser"
               native == IF w = "now" THEN "native" ELSE Null
    <3>1. call' = [call EXCEPT ![c].fn = f, ![c].way = w, ![c].pc = stage, ![c].answer = native]
          /\ UNCHANGED http
      BY <2>1, <2>4
    <3>2. stage \in {"settled", "stuck", "browser"} /\ native \in Words
      BY DEF Words
    <3> HIDE DEF stage, native
    <3>3. call'[c] = [call[c] EXCEPT !.fn = f, !.way = w, !.pc = stage, !.answer = native]
      BY <1>0, <3>1
    <3>4. /\ call'[c] \in CallRecord /\ call'[c].pc = stage /\ call'[c].fn = f
          /\ call'[c].reply = call[c].reply
      BY <1>0, <2>2, <3>2, <3>3 DEF CallRecord, Stages
    <3>5. call' = [call EXCEPT ![c] = call'[c]]
      BY <1>0, <3>1, <3>3
    <3>6. call[c].reply = Null /\ ~Sent(c)
      BY <2>2 DEF HttpInv, Unanswered, Sent
    <3> QED BY <2>2, <3>1, <3>2, <3>4, <3>5, <3>6, CallMoves
  <2> QED BY <2>3, <2>4
<1>2. CASE BrowserSettles(c)
  <2>1. /\ call[c].pc = "browser" /\ UNCHANGED http
        /\ call' = [call EXCEPT ![c].pc = "settled", ![c].answer = "native"]
    BY <1>2 DEF BrowserSettles
  <2>2. call'[c] = [call[c] EXCEPT !.pc = "settled", !.answer = "native"]
    BY <1>0, <2>1
  <2>3. /\ call'[c] \in CallRecord /\ call'[c].pc = "settled" /\ call'[c].fn = call[c].fn
        /\ call'[c].reply = call[c].reply
    BY <1>0, <2>2 DEF CallRecord, Stages, Words
  <2>4. call' = [call EXCEPT ![c] = call'[c]]
    BY <1>0, <2>1, <2>2
  <2>5. call[c].reply = Null /\ ~Sent(c) /\ call[c].fn \in Asked
    BY <2>1 DEF HttpInv, Unanswered, Sent, HandlersOf
  <2> QED BY <2>1, <2>3, <2>4, <2>5, CallMoves
<1>3. CASE BrowserRefuses(c)
  <2>1. call[c].pc = "browser" /\ Send(c, call[c].fn, call[c].way)
    BY <1>3 DEF BrowserRefuses
  <2>2. call[c].fn \in Asked /\ call[c].way \in AllWays
    BY <1>0, <2>1 DEF HttpInv, HandlersOf, CallRecord
  <2> QED BY <2>1, <2>2, SendKeeps
<1>4. CASE ExtraTimer(c)
  <2>1. call[c].pc = "timer" /\ UNCHANGED http /\ call' = [call EXCEPT ![c].pc = "settled"]
    BY <1>4 DEF ExtraTimer
  <2>2. call'[c] = [call[c] EXCEPT !.pc = "settled"]
    BY <1>0, <2>1
  <2>3. /\ call'[c] \in CallRecord /\ call'[c].pc = "settled" /\ call'[c].fn = call[c].fn
        /\ call'[c].reply = call[c].reply /\ call'[c].answer = call[c].answer
    BY <1>0, <2>2 DEF CallRecord, Stages
  <2>4. call' = [call EXCEPT ![c] = call'[c]]
    BY <1>0, <2>1, <2>2
  <2>5. call[c].fn \in Asked
    BY <2>1 DEF HttpInv, HandlersOf
  <2> QED BY <2>1, <2>3, <2>4, <2>5, CallMoves
<1> QED BY <1>1, <1>2, <1>3, <1>4, EndsKeep DEF Call

\* What leaves the calls alone.
LEMMA HttpStays == ASSUME HttpInv, UNCHANGED <<call, http>> PROVE HttpInv'
BY DEF http, HttpInv, HttpTypes, Unanswered, WireExact, HandlersOf, Nest, OwnAnswer, Sent, Alike, Follows,
   Outlasted

LEMMA StepKeepsHttpInv == ASSUME HttpInv, [Next]_vars PROVE HttpInv'
<1>1. ASSUME NEW n \in Connects, Connection(n) PROVE UNCHANGED <<call, http>>
  BY <1>1 DEF Connection, ConnectNWS, Opens, OnConnect, OnClose
<1>2. ConnectTimer \/ UNCHANGED vars => UNCHANGED <<call, http>>
  BY DEF ConnectTimer, vars
<1> QED BY <1>1, <1>2, CallsKeep, HttpStays DEF Next

\* The invariant of the requests holds of every behaviour.
THEOREM HttpInvAlways == Spec => []HttpInv
<1> QED BY InitHttpInv, StepKeepsHttpInv, PTL DEF Spec

\* Every handler that waits under a name, or was found there, belongs to a request of that
\* function, and jQuery's containers are empty but for requests on their way.
THEOREM TypesOfCalls == Spec => []TypeOK
<1>1. HttpInv /\ SocketInv => TypeOK
  BY DEF HttpInv, HttpTypes, CallRecord, WireExact, HandlersOf, SocketInv, Types, TypeOK
<1> QED BY <1>1, HttpInvAlways, SocketInvAlways, PTL

\* As long as the requests of a function end in the order they nest, each call is settled by the
\* agent's answer to it, however many calls overlap (discovery.js: the fixed jsonpCallback names).
THEOREM AnswersAreOwn == Spec => []OwnAnswer
<1>1. HttpInv => OwnAnswer
  BY DEF HttpInv
<1> QED BY <1>1, HttpInvAlways, PTL

=============================================================================
