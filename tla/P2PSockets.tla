----------------------------- MODULE P2PSockets -----------------------------
(***************************************************************************)
(* The browser side of a named websocket: namedwebsockets.js.  The control *)
(* websocket tells which peers come, go and speak; the script keeps for    *)
(* each of them a shim, an object that looks like a WebSocket, in the map  *)
(* p2pWebSockets (by peer id) and, for the application to see, in          *)
(* rootWebSocket.peers.  Every event of a shim is dispatched later, from a *)
(* timer.                                                                  *)
(***************************************************************************)
EXTENDS Integers, SequencesExt, Filters

CONSTANTS Ids,           \* peer ids the proxy names in its control frames
          MaxConnects,   \* bound, for each id: "connect" frames received, hence shims made
          MaxMessages,   \* bound, for each id: "message" frames received
          MaxCloses      \* bound: calls of close() by the application

ASSUME BoundsAssumption == /\ MaxConnects \in [Ids -> Nat] /\ MaxMessages \in [Ids -> Nat]
                           /\ MaxCloses \in Nat

CONNECTING == 0
OPEN       == 1
CLOSING    == 2
CLOSED     == 3

VARIABLES shims,       \* the shims made so far: id, readyState, got (messages dispatched at
                       \* it) and told ("connect" events dispatched at the root with it as
                       \* their target)
          p2p,         \* p2pWebSockets: id -> index of its shim, 0 for none
          peers,       \* rootWebSocket.peers: indices of shims
          timers,      \* pending timers of the window, in the order they were set
          messages,    \* history of "message" frames: its source, and the shims of it in peers
          closes,      \* calls of close() so far
          gone,        \* history, for each id: "disconnect" events dispatched at the root
          displaced,   \* history: shims in peers whose entry of the map was overwritten
          early        \* history: shims closed by a "disconnect" before their "open"

vars == <<shims, p2p, peers, timers, messages, closes, gone, displaced, early>>

Shims == 1..Len(shims)

TypeOK ==
  /\ \A s \in Shims : shims[s].id \in Ids /\ shims[s].readyState \in CONNECTING..CLOSED
  /\ p2p \in [Ids -> 0..Len(shims)]
  /\ displaced \subseteq Shims /\ early \subseteq Shims
  /\ \A k \in DOMAIN timers : timers[k].shim \in Shims /\ timers[k].delay \in {1, 200}

Init == /\ shims = <<>> /\ p2p = [i \in Ids |-> 0] /\ peers = <<>> /\ timers = <<>>
        /\ messages = <<>> /\ closes = 0 /\ gone = [i \in Ids |-> 0]
        /\ displaced = {} /\ early = {}

-----------------------------------------------------------------------------
\* A timer: after delay ms, event type at a shim.  n is the number of a message, at the
\* websocket that hears of the end of a close.
Timer(delay, s, type, n, at) == [delay |-> delay, shim |-> s, type |-> type, n |-> n, at |-> at]

\* P2PWebSocket.__handleEvent: the event is dispatched from a timer of 1 ms.
HandleEvent(s, type, n, at) == timers' = Append(timers, Timer(1, s, type, n, at))

\* P2PWebSocket.__doClose: "closing", from whose callback "close" follows.
DoClose(s, at) == HandleEvent(s, "closing", 0, at)

\* exist: does the application already hold a shim of this id?
Exist(i) == \E k \in DOMAIN peers : shims[peers[k]].id = i

\* case "connect": a new shim always takes the entry of the map; only when the application
\* has none of that id is it added to peers, announced, and opened after 200 ms.  The
\* proxy may send a "connect" twice.
ReceiveConnect(i) ==
  /\ Len(SelectSeq(shims, LAMBDA s : s.id = i)) < MaxConnects[i]
  /\ LET s == Len(shims) + 1 IN
     /\ shims' = Append(shims, [id |-> i, readyState |-> CONNECTING, got |-> <<>>,
                              told |-> IF Exist(i) THEN 0 ELSE 1])
     /\ p2p' = [p2p EXCEPT ![i] = s]
     /\ \/ /\ ~Exist(i)
           /\ peers' = Append(peers, s)
           /\ timers' = Append(timers, Timer(200, s, "open", 0, "none"))
        \/ /\ Exist(i)
           /\ UNCHANGED <<peers, timers>>
     /\ displaced' = displaced \cup ({p2p[i]} \ {0})
  /\ UNCHANGED <<messages, closes, gone, early>>

\* Mutants of the next definition: the entry of the map is not deleted; the shim is not
\* closed; the end of the close is told to the control websocket.
ReceiveDisconnectKeepsEntry(i) ==
  /\ p2p[i] # 0
  /\ peers' = Filter(peers, {s \in Shims : shims[s].id # i})
  /\ DoClose(p2p[i], "root")
  /\ UNCHANGED <<shims, p2p, messages, closes, gone, displaced, early>>

ReceiveDisconnectNoClose(i) ==
  /\ p2p[i] # 0
  /\ peers' = Filter(peers, {s \in Shims : shims[s].id # i})
  /\ p2p' = [p2p EXCEPT ![i] = 0]
  /\ early' = early \cup {s \in {p2p[i]} : shims[s].readyState = CONNECTING}
  /\ UNCHANGED <<shims, timers, messages, closes, gone, displaced>>

ReceiveDisconnectToControl(i) ==
  /\ p2p[i] # 0
  /\ peers' = Filter(peers, {s \in Shims : shims[s].id # i})
  /\ DoClose(p2p[i], "control")
  /\ p2p' = [p2p EXCEPT ![i] = 0]
  /\ early' = early \cup {s \in {p2p[i]} : shims[s].readyState = CONNECTING}
  /\ UNCHANGED <<shims, messages, closes, gone, displaced>>

\* case "disconnect": the shim of the map is closed and its id leaves peers and the map;
\* without one the frame is ignored.
ReceiveDisconnect(i) ==
  /\ p2p[i] # 0
  /\ peers' = Filter(peers, {s \in Shims : shims[s].id # i})
  /\ DoClose(p2p[i], "root")
  /\ p2p' = [p2p EXCEPT ![i] = 0]
  /\ early' = early \cup {s \in {p2p[i]} : shims[s].readyState = CONNECTING}
  /\ UNCHANGED <<shims, messages, closes, gone, displaced>>

\* Mutant of the next definition: a message for a shim that is not open is dropped.
ReceiveMessageIfOpen(i) ==
  /\ Len(SelectSeq(messages, LAMBDA m : m.from = i)) < MaxMessages[i]
  /\ messages' = Append(messages, [from |-> i, held |-> {s \in ToSet(peers) : shims[s].id = i}])
  /\ \/ /\ p2p[i] # 0 /\ shims[p2p[i]].readyState = OPEN
        /\ HandleEvent(p2p[i], "message", Len(messages) + 1, "none")
     \/ /\ p2p[i] # 0 => shims[p2p[i]].readyState # OPEN
        /\ UNCHANGED timers
  /\ UNCHANGED <<shims, p2p, peers, closes, gone, displaced, early>>

\* case "message": dispatched at the shim the map has for its source, in whatever state it
\* is; dropped when there is none.
ReceiveMessage(i) ==
  /\ Len(SelectSeq(messages, LAMBDA m : m.from = i)) < MaxMessages[i]
  /\ messages' = Append(messages, [from |-> i, held |-> {s \in ToSet(peers) : shims[s].id = i}])
  /\ \/ /\ p2p[i] # 0
        /\ HandleEvent(p2p[i], "message", Len(messages) + 1, "none")
     \/ /\ p2p[i] = 0
        /\ UNCHANGED timers
  /\ UNCHANGED <<shims, p2p, peers, closes, gone, displaced, early>>

\* close() by the application on a shim it was given: it throws unless the shim is open,
\* and its end is told to the control websocket, not to the root.
Close(s) ==
  /\ closes < MaxCloses
  /\ shims[s].told = 1 /\ shims[s].readyState = OPEN
  /\ closes' = closes + 1
  /\ DoClose(s, "control")
  /\ UNCHANGED <<shims, p2p, peers, messages, gone, displaced, early>>

\* The browser runs timers of one delay in the order they were set, and none before a
\* timer set earlier that is not longer.
Due(k) == \A j \in 1..(k - 1) : timers[j].delay > timers[k].delay

\* Mutant of the next definition: a message opens the shim.
StateAfterMessageOpens(s, type) ==
  CASE type \in {"open", "message"} -> OPEN
    [] type = "closing" -> CLOSING
    [] OTHER            -> CLOSED

\* The state a shim enters with an event; a message leaves it alone.
StateAfter(s, type) ==
  CASE type = "open"    -> OPEN
    [] type = "closing" -> CLOSING
    [] type = "close"   -> CLOSED
    [] OTHER            -> shims[s].readyState

\* The 200 ms timer of a "connect" hands the "open" event to __handleEvent.
OpenTimer(k) ==
  /\ Due(k) /\ timers[k].delay = 200
  /\ timers' = Append(RemoveAt(timers, k), Timer(1, timers[k].shim, "open", 0, "none"))
  /\ UNCHANGED <<shims, p2p, peers, messages, closes, gone, displaced, early>>

\* Mutant of the next definition: the callback of "closing" is not called.
EventTimerNoCallback(k) ==
  LET t == timers[k] IN
  /\ Due(k) /\ t.delay = 1
  /\ shims' = [shims EXCEPT ![t.shim].readyState = StateAfter(t.shim, t.type),
                            ![t.shim].got = IF t.type = "message" THEN Append(@, t.n) ELSE @]
  /\ timers' = RemoveAt(timers, k)
  /\ UNCHANGED <<p2p, peers, messages, closes, gone, displaced, early>>

\* A 1 ms timer: set readyState, dispatch the event, run its callback: after "closing" the
\* "close" event, after "close" the "disconnect" event at the websocket given to __doClose.
EventTimer(k) ==
  LET t == timers[k] IN
  /\ Due(k) /\ t.delay = 1
  /\ shims' = [shims EXCEPT ![t.shim].readyState = StateAfter(t.shim, t.type),
                            ![t.shim].got = IF t.type = "message" THEN Append(@, t.n) ELSE @]
  /\ gone' = IF t.type = "close" /\ t.at = "root" THEN [gone EXCEPT ![shims[t.shim].id] = @ + 1]
             ELSE gone
  /\ timers' = RemoveAt(timers, k)
               \o (IF t.type = "closing" THEN <<Timer(1, t.shim, "close", 0, t.at)>> ELSE <<>>)
  /\ UNCHANGED <<p2p, peers, messages, closes, displaced, early>>

Fire == \E k \in DOMAIN timers : OpenTimer(k) \/ EventTimer(k)

Next == \/ \E i \in Ids : ReceiveConnect(i) \/ ReceiveDisconnect(i) \/ ReceiveMessage(i)
        \/ \E s \in Shims : Close(s)
        \/ Fire

Spec == Init /\ [][Next]_vars

\* A browser runs the timers that are due; nothing is assumed of frames and application.
FairSpec == Spec /\ WF_vars(Fire)

-----------------------------------------------------------------------------
\* Safety: the application's list and the map know the same ids, each once, however often a
\* peer is announced (the test of line 242, the loop of lines 275-279, the delete of 285).
PeersMatchMap ==
  /\ {shims[s].id : s \in ToSet(peers)} = {i \in Ids : p2p[i] # 0}
  /\ \A j, k \in DOMAIN peers : shims[peers[j]].id = shims[peers[k]].id => j = k

\* Safety: once its timers have run, a shim that lets the application send is the one the
\* map routes to, unless a second "connect" took its entry (line 240) or its peer left
\* before the 200 ms of line 266 were over.
Settled(s) == \A k \in DOMAIN timers : timers[k].shim # s
OpenShimRouted ==
  \A s \in Shims : shims[s].readyState = OPEN /\ Settled(s)
                     => p2p[shims[s].id] = s \/ s \in displaced \cup early

\* Safety: a message received for a peer in the application's list is dispatched at the shim
\* held there, or will be, in the order of reception: the timers of line 116 are first in
\* first out.  Lost are only the messages for a shim that was displaced.
Coming(s) == {k \in DOMAIN timers : timers[k].shim = s /\ timers[k].type = "message"}
MessagesInOrder ==
  \A s \in Shims :
    LET got == shims[s].got
    IN /\ \A j, k \in DOMAIN got : j < k => got[j] < got[k]
       /\ \A j \in DOMAIN got, k \in Coming(s) : got[j] < timers[k].n
       /\ \A j, k \in Coming(s) : j < k => timers[j].n < timers[k].n
       /\ \A n \in DOMAIN messages : s \in messages[n].held /\ s \notin displaced
            => n \in ToSet(got) \/ \E k \in Coming(s) : timers[k].n = n

\* Action: a shim that is closing or closed opens again only when it was closed before its
\* first "open" (the timer of line 260 is never cleared).
NeverReopens ==
  [][\A s \in Shims : shims[s].readyState >= CLOSING /\ shims'[s].readyState = OPEN
                        => s \in early]_vars

\* Safety: for each id the root has dispatched one "connect" more than it has dispatched, or
\* is about to dispatch, "disconnect" while the peer is listed, and as many otherwise, also
\* when frames are doubled or the peer comes back while its old shim still closes.
Told(i)   == Cardinality({s \in Shims : shims[s].id = i /\ shims[s].told = 1})
Ending(i) == {k \in DOMAIN timers : timers[k].at = "root" /\ shims[timers[k].shim].id = i}
EventsBalance ==
  \A i \in Ids : Told(i) = gone[i] + Cardinality(Ending(i)) + (IF Exist(i) THEN 1 ELSE 0)

\* Liveness: the application is told of every departure: from some time on the root's events
\* say of each id what the list says (the callbacks of lines 176-196 end the close).
DeparturesTold ==
  <>[](\A i \in Ids : Told(i) = gone[i] + (IF Exist(i) THEN 1 ELSE 0))

=============================================================================
