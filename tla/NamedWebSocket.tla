--------------------------- MODULE NamedWebSocket ---------------------------
(***************************************************************************)
(* One named websocket of the proxy (socket.go, peer.go, control.go,       *)
(* proxy.go): the three connection lists, the broadcast buffer with its    *)
(* dispatcher, and the goroutines of every connection.  Nothing in the     *)
(* code synchronises those goroutines, so a step here is what one          *)
(* goroutine does between two accesses to shared state:                    *)
(*   - "sock.peers = append(...)" reads the header in one step and writes  *)
(*     array and header in the next;                                       *)
(*   - "for range" copies the header once and loads an element per round;  *)
(*     the send of one round and the load of the next are one step;        *)
(*   - a send on a websocket, a channel operation and a map update are     *)
(*     one step each.                                                      *)
(* Connection c has two goroutines: <<c, "serve">>, which runs             *)
(* addConnection (in the HTTP handler, or in the discovery loop for a      *)
(* dialled proxy), and <<c, "read">>, its readConnectionPump.              *)
(* The write pumps only ping: they change no state of this module.         *)
(***************************************************************************)
EXTENDS GoSlice, Filters, FiniteSets

CONSTANTS
  Peers,        \* PeerConnection objects
  Controls,     \* ControlConnection objects
  Proxies,      \* ProxyConnection objects
  Writeable,    \* proxies accepted by serveService; the others were dialled
  Id,           \* Id[c]: the id of connection c (a client's peer and control share it)
  RemoteIds,    \* ids of peers that other proxies own
  BadUpgrade,   \* connections whose websocket handshake fails
  Payloads,     \* message payloads
  Urls,         \* the payloads that contain "http://"
  Talkers,      \* connections whose client sends frames
  MaxInput,     \* bound: frames a talker sends
  Capacity,     \* capacity of broadcastBuffer (512 in the code)
  Nil

Conn == Peers \cup Controls \cup Proxies
Lists == {"peers", "controllers", "proxies"}
Members(k) == IF k = "peers" THEN Peers
              ELSE IF k = "controllers" THEN Controls ELSE Proxies
Kind(c) == IF c \in Peers THEN "peers"
           ELSE IF c \in Controls THEN "controllers" ELSE "proxies"
Ids == { Id[c] : c \in Conn } \cup RemoteIds
Goroutines == Conn \X {"serve", "read"}

\* Connections that are told which peers exist: "connect" and "disconnect"
\* frames go to controls and to writeable proxies.
Watchers == Controls \cup Writeable

ASSUME KindsDisjoint ==
  /\ Peers \cap Controls = {} /\ Peers \cap Proxies = {} /\ Controls \cap Proxies = {}
  /\ Nil \notin Conn \cup RemoteIds
ASSUME ConstantTypes ==
  /\ Writeable \subseteq Proxies /\ BadUpgrade \subseteq Conn /\ Talkers \subseteq Conn
  /\ Urls \subseteq Payloads /\ MaxInput \in Nat /\ Capacity \in Nat \ {0}
  /\ DOMAIN Id = Conn

\* discovery.go:178: a proxy is made for a dial that succeeded.
ASSUME DialledIsOpen == BadUpgrade \cap Proxies \subseteq Writeable

Message == [source : Ids, payload : Payloads, fromProxy : BOOLEAN]

\* A frame a goroutine is working on; action "broadcast" is a peer's text.
Frame == [action : {"broadcast", "message", "directmessage", "connect", "disconnect"},
          source : Ids, target : Ids \cup {Nil}, payload : Payloads \cup {Nil}]

VARIABLES
  list,        \* list[k]: header of sock.peers, sock.controllers, sock.proxies
  heap,        \* heap[k]: the backing arrays of list k
  buffer,      \* sock.broadcastBuffer
  pc, it,      \* control point and loop state of every goroutine
  frame,       \* the frame a read pump is handling
  ws,          \* the websocket of each connection: none, open, closed, nil
  proxyPeers,  \* proxy.peers: ids the far end of a dialled proxy owns
  mapIt,       \* control.addConnection's inner range over proxy.peers
  disp,        \* the dispatcher goroutine
  notified,    \* URLs in peerNotifiedList and proxyNotifiedList
  inputs,      \* frames read so far, per connection
  crashed      \* "no", or what terminated the process

\* What was written to the clients.
VARIABLES
  view,        \* view[w]: ids announced to w and not withdrawn
  inbox,       \* inbox[c]: broadcast messages written to c
  direct       \* direct[c]: <<source, target>> of point-to-point messages

\* History.
VARIABLES
  joined,      \* connections added to their list and not taken out by name
  race,        \* lists on which an update overlapped another update or a loop
  log,         \* messages in the order the dispatcher took them
  since        \* since[c]: messages whose loop over c's list began before c joined

lists == <<list, heap, joined, race>>
sockets == <<ws, view, inbox, direct>>
proxyState == <<proxyPeers, mapIt>>
channel == <<buffer, disp, log, since>>
input == <<frame, inputs, notified>>
vars == <<lists, sockets, proxyState, channel, input, pc, it, crashed>>

----------------------------------------------------------------------------
(* Loops.  A loop copies the header of its list; i is the round and cur    *)
(* the element loaded for it (round 0: nothing loaded yet).                *)

\* Mutant: the loop covers the stale slots behind the end as well.
RangeOverStale(k) == [arr |-> list[k].arr, len |-> Len(heap[k][list[k].arr].at),
                      i |-> 0, cur |-> Nil]
RangeOver(k) == [arr |-> list[k].arr, len |-> list[k].len, i |-> 0, cur |-> Nil]

NextRound(k, r) ==
  [r EXCEPT !.i = @ + 1,
            !.cur = IF r.i < r.len THEN heap[k][r.arr].at[r.i + 1] ELSE Nil]

\* Mutant: the loop stops one element early.
LastEarly(r) == r.i + 1 >= r.len
Last(r) == r.i >= r.len

Idle == [arr |-> 1, len |-> 0, i |-> 0, cur |-> Nil]

\* The list a loop ranges over; "none" outside loops.
LoopListAt(label) ==
  IF label \in {"toControls", "findControl", "inform", "relay"} THEN "controllers"
  ELSE IF label \in {"toProxies", "proxyPeers", "relayProxy"} THEN "proxies"
  ELSE IF label \in {"ownPeers", "toProxy"} THEN "peers"
  ELSE "none"
LoopList(g) == LoopListAt(pc[g])

\* The list a goroutine is about to change: between the load of the header
\* and its store, or between the search for an index and its use.
UpdateListAt(g, label, r) ==
  IF label = "append" THEN Kind(g[1])
  ELSE IF label \in {"scan", "cut", "cutw"} THEN Kind(r.cur)
  ELSE "none"
UpdateList(g) == UpdateListAt(g, pc[g], it[g])

DispatchList == IF disp.pc = "local" THEN "peers"
                ELSE IF disp.pc = "remote" THEN "proxies" ELSE "none"

Updating(g, k) == UpdateList(g) = k /\ pc[g] \in {"append", "cutw"}
InUse(g, k) == UpdateList(g) = k \/ LoopList(g) = k

Goto(g, label, r) == /\ pc' = [pc EXCEPT ![g] = label]
                     /\ it' = [it EXCEPT ![g] = r]

Alive == crashed = "no"
At(g, label) == Alive /\ pc[g] = label

Crash(why) == /\ crashed' = why
              /\ UNCHANGED <<lists, sockets, proxyState, channel, input, pc, it>>

\* The websockets a goroutine writes to in its current round.
Touches(g) ==
  LET c == g[1]
      x == it[g].cur
  IN IF x = Nil THEN {} ELSE
     CASE pc[g] = "toControls"   -> { w \in {x} : Id[w] # Id[c] }
       [] pc[g] = "toProxies"    -> {x} \cap Writeable
       [] pc[g] = "ownPeers"     -> { w \in {c} : Id[x] # Id[c] }
       [] pc[g] = "proxyPeers"   -> { w \in {c} : mapIt[c].id # Nil }
       [] pc[g] = "toProxy"      -> {c}
       [] pc[g] = "inform"       -> {x}
       [] pc[g] = "relay"        -> { w \in {x} : Id[w] = frame[c].target }
       [] pc[g] = "relayProxy"   -> { w \in {x} : frame[c].target \in proxyPeers[w] }
       [] pc[g] = "closeControl" -> {x}
       [] OTHER -> {}

Healthy(g) == \A w \in Touches(g) : ws[w] # "nil"

\* A frame written to an open websocket reaches the client; the error of a
\* write to a closed one is ignored.
Tell(targets, event, id) ==
  view' = [w \in Watchers |->
             IF w \in targets /\ ws[w] = "open"
               THEN IF event = "connect" THEN view[w] \cup {id} ELSE view[w] \ {id}
               ELSE view[w]]

\* addConnection announces "connect", removeConnection "disconnect".
EventAlwaysConnect(g) == "connect"
Event(g) == IF g[2] = "serve" THEN "connect" ELSE "disconnect"

\* One round of a loop that announces id: send for the element at hand, then
\* load the next one or leave the loop by exit.
AnnounceRound(g, label, event, id, exit) ==
  /\ At(g, label)
  /\ Healthy(g)
  /\ Tell(Touches(g), event, id)
  /\ IF Last(it[g]) THEN exit ELSE Goto(g, label, NextRound(LoopList(g), it[g]))
  /\ UNCHANGED <<lists, ws, inbox, direct, proxyState, channel, input, crashed>>

\* addConnection ends by starting the pumps.
StartPumps(c) == /\ pc' = [pc EXCEPT ![<<c, "serve">>] = "done", ![<<c, "read">>] = "read"]
                 /\ it' = [it EXCEPT ![<<c, "serve">>] = Idle]

----------------------------------------------------------------------------
(* addConnection: join the list, then announce.                            *)

\* serveService, serveControl or a successful Dial: a failed upgrade is
\* reported to the client but the connection is added all the same, with a
\* nil websocket.  The step ends with the load of the list header.
Accept(c) ==
  /\ At(<<c, "serve">>, "new")
  /\ ws' = [ws EXCEPT ![c] = IF c \in BadUpgrade THEN "nil" ELSE "open"]
  /\ Goto(<<c, "serve">>, "append", RangeOver(Kind(c)))
  /\ UNCHANGED <<lists, view, inbox, direct, proxyState, channel, input, crashed>>

\* The store of "sock.list = append(sock.list, c)".
Joins(c) ==
  LET g == <<c, "serve">>
      k == Kind(c)
      h == [arr |-> it[g].arr, len |-> it[g].len]
  IN /\ At(g, "append")
     /\ heap' = [heap EXCEPT ![k] = AppendHeap(@, h, c)]
     /\ list' = [list EXCEPT ![k] = AppendHeader(heap[k], h)]
     /\ joined' = joined \cup {c}
     /\ race' = IF \E o \in Goroutines \ {g} : Updating(o, k) THEN race \cup {k} ELSE race
     /\ UNCHANGED <<sockets, proxyState, buffer, disp, log, input, crashed>>

\* Mutant: addConnection forgets the control connections.
AddPeerSilent(p) ==
  /\ Joins(p)
  /\ since' = [since EXCEPT ![p] = Len(log)]
  /\ Goto(<<p, "serve">>, "toProxies", RangeOver("proxies"))

AddPeer(p) ==
  /\ Joins(p)
  /\ since' = [since EXCEPT ![p] = Len(log)]
  /\ Goto(<<p, "serve">>, "toControls", RangeOver("controllers"))

\* A control starts its pumps before it is told of the peers.
AddControl(c) ==
  /\ Joins(c)
  /\ pc' = [pc EXCEPT ![<<c, "serve">>] = "ownPeers", ![<<c, "read">>] = "read"]
  /\ it' = [it EXCEPT ![<<c, "serve">>] = RangeOver("peers")]
  /\ UNCHANGED since

AddProxy(x) ==
  /\ Joins(x)
  /\ since' = [since EXCEPT ![x] = Len(log) - (IF disp.pc = "local" THEN 1 ELSE 0)]
  /\ IF x \in Writeable THEN Goto(<<x, "serve">>, "toProxy", RangeOver("peers"))
                        ELSE StartPumps(x)

\* A peer tells the controls, then the writeable proxies (on arrival and on
\* departure alike).
PeerToControls(g) ==
  AnnounceRound(g, "toControls", Event(g), Id[g[1]], Goto(g, "toProxies", RangeOver("proxies")))

PeerToProxies(g) ==
  AnnounceRound(g, "toProxies", Event(g), Id[g[1]],
                IF g[2] = "serve" THEN StartPumps(g[1]) ELSE Goto(g, "close", Idle))

\* A control is told of the local peers, then of the peers its proxies own.
ControlOwnPeers(c) ==
  LET g == <<c, "serve">> IN
  AnnounceRound(g, "ownPeers", "connect", Id[it[g].cur],
                Goto(g, "proxyPeers", RangeOver("proxies")))

\* The inner "for peerId := range proxy.peers": an entry that stays in the
\* map is visited once, one that appears meanwhile may or may not be.
OwnedForgotten(x) == {}
Owned(x) == IF x = Nil THEN {} ELSE proxyPeers[x]
NoEntry == [must |-> {}, seen |-> {}, id |-> Nil]

ControlProxyPeer(c) ==
  LET g == <<c, "serve">> IN
  /\ At(g, "proxyPeers")
  /\ mapIt[c].id = Nil
  /\ \E r \in Owned(it[g].cur) \ mapIt[c].seen :
       mapIt' = [mapIt EXCEPT ![c] = [must |-> @.must \ {r}, seen |-> @.seen \cup {r}, id |-> r]]
  /\ UNCHANGED <<lists, sockets, proxyPeers, channel, input, pc, it, crashed>>

ControlProxyPeerSend(c) ==
  LET g == <<c, "serve">> IN
  /\ At(g, "proxyPeers")
  /\ mapIt[c].id # Nil
  /\ Healthy(g)
  /\ Tell({c}, "connect", mapIt[c].id)
  /\ mapIt' = [mapIt EXCEPT ![c].id = Nil]
  /\ UNCHANGED <<lists, ws, inbox, direct, proxyPeers, channel, input, pc, it, crashed>>

ControlNextProxy(c) ==
  LET g == <<c, "serve">>
      r == NextRound("proxies", it[g])
  IN /\ At(g, "proxyPeers")
     /\ mapIt[c].id = Nil
     /\ mapIt[c].must \cap Owned(it[g].cur) = {}
     /\ IF Last(it[g])
          THEN /\ Goto(g, "done", Idle)
               /\ mapIt' = [mapIt EXCEPT ![c] = NoEntry]
          ELSE /\ Goto(g, "proxyPeers", r)
               /\ mapIt' = [mapIt EXCEPT ![c] = [NoEntry EXCEPT !.must = Owned(r.cur)]]
     /\ UNCHANGED <<lists, sockets, proxyPeers, channel, input, crashed>>

\* A writeable proxy tells the far end of every local peer.
ProxyToFarEnd(g) ==
  AnnounceRound(g, "toProxy", Event(g), Id[it[g].cur],
                IF g[2] = "serve" THEN StartPumps(g[1]) ELSE Goto(g, "close", Idle))

----------------------------------------------------------------------------
(* readConnectionPump.                                                     *)

Pump(c) == <<c, "read">>

\* ReadMessage returned a frame of client c: at most MaxInput of them.
Reads(c, f, label, r) ==
  /\ At(Pump(c), "read")
  /\ ws[c] = "open"
  /\ c \in Talkers
  /\ inputs[c] < MaxInput
  /\ inputs' = [inputs EXCEPT ![c] = @ + 1]
  /\ frame' = [frame EXCEPT ![c] = f]
  /\ Goto(Pump(c), label, r)
  /\ UNCHANGED <<lists, sockets, mapIt, channel, notified, crashed>>

\* A URL that is in no notified list is shown to the user first.
NotifyOrEnqueue(m) == IF m \in Urls \ notified THEN "notify" ELSE "enqueue"

PeerReads(p) ==
  \E m \in Payloads :
    /\ Reads(p, [action |-> "broadcast", source |-> Id[p], target |-> Nil, payload |-> m],
             NotifyOrEnqueue(m), Idle)
    /\ UNCHANGED proxyPeers

\* Both lists get the URL; then the peer's pump looks at controllers[0]
\* without asking whether there is one.
Notify(c) ==
  /\ At(Pump(c), "notify")
  /\ notified' = notified \cup {frame[c].payload}
  /\ IF c \in Peers /\ list["controllers"].len = 0
       THEN crashed' = "noControllers" /\ UNCHANGED <<pc, it>>
       ELSE crashed' = crashed /\ Goto(Pump(c), "enqueue", Idle)
  /\ UNCHANGED <<lists, sockets, proxyState, channel, frame, inputs>>

\* Mutant: the buffer has no capacity.
EnqueueUnbounded(c) ==
  /\ At(Pump(c), "enqueue")
  /\ buffer' = Append(buffer, [source |-> frame[c].source, payload |-> frame[c].payload,
                               fromProxy |-> c \in Proxies])
  /\ Goto(Pump(c), "read", Idle)
  /\ UNCHANGED <<lists, sockets, proxyState, disp, log, since, input, crashed>>

\* "sock.broadcastBuffer <- wsBroadcast" waits while the buffer is full.
Enqueue(c) ==
  /\ At(Pump(c), "enqueue")
  /\ Len(buffer) < Capacity
  /\ buffer' = Append(buffer, [source |-> frame[c].source, payload |-> frame[c].payload,
                               fromProxy |-> c \in Proxies])
  /\ Goto(Pump(c), "read", Idle)
  /\ UNCHANGED <<lists, sockets, proxyState, disp, log, since, input, crashed>>

\* A control client addresses one id.
ControlReads(c) ==
  \E t \in Ids :
    /\ Reads(c, [action |-> "message", source |-> Id[c], target |-> t, payload |-> Nil],
             "relay", RangeOver("controllers"))
    /\ UNCHANGED proxyPeers

\* A control frame that is not JSON ends the process (log.Fatalf).
ControlReadsMalformed(c) ==
  /\ At(Pump(c), "read") /\ ws[c] = "open" /\ c \in Talkers /\ inputs[c] < MaxInput
  /\ Crash("malformed")

\* What the far end of a proxy connection sends: to the proxy that dialled,
\* its peers and their broadcasts; to the one that was dialled, direct messages.
ProxyReads(x) ==
  \/ \E a \in {"connect", "disconnect"}, r \in RemoteIds :
       /\ x \notin Writeable
       /\ Reads(x, [action |-> a, source |-> Id[x], target |-> r, payload |-> Nil],
                "inform", RangeOver("controllers"))
       /\ proxyPeers' = [proxyPeers EXCEPT ![x] = IF a = "connect" THEN @ \cup {r} ELSE @ \ {r}]
  \/ \E r \in RemoteIds, m \in Payloads :
       /\ x \notin Writeable
       /\ Reads(x, [action |-> "message", source |-> r, target |-> Nil, payload |-> m],
                NotifyOrEnqueue(m), Idle)
       /\ UNCHANGED proxyPeers
  \/ \E r \in RemoteIds, t \in Ids :
       /\ x \in Writeable
       /\ Reads(x, [action |-> "directmessage", source |-> r, target |-> t, payload |-> Nil],
                "relay", RangeOver("controllers"))
       /\ UNCHANGED proxyPeers

\* Tell the controls what the far end gained or lost.
ProxyInforms(x) ==
  AnnounceRound(Pump(x), "inform", frame[x].action, frame[x].target, Goto(Pump(x), "read", Idle))

\* Relay to the first control with the target's id, else (for a control's
\* frame) to the first proxy whose far end owns it.  The frame is kept until then.
RelayRound(c, label, k, exit) ==
  LET g == Pump(c) IN
  /\ At(g, label)
  /\ Healthy(g)
  /\ direct' = [w \in Controls \cup Proxies |->
                  IF w \in Touches(g) /\ ws[w] = "open"
                    THEN direct[w] \cup {<<frame[c].source, frame[c].target>>}
                    ELSE direct[w]]
  /\ IF Touches(g) # {} THEN Goto(g, "read", Idle)
     ELSE IF Last(it[g]) THEN exit
     ELSE Goto(g, label, NextRound(k, it[g]))
  /\ frame' = [frame EXCEPT ![c] = IF pc'[g] = "read" THEN Nil ELSE @]
  /\ UNCHANGED <<lists, ws, view, inbox, proxyState, channel, inputs, notified, crashed>>

Relay(c) ==
  RelayRound(c, "relay", "controllers",
             IF c \in Controls THEN Goto(Pump(c), "relayProxy", RangeOver("proxies"))
                               ELSE Goto(Pump(c), "read", Idle))

RelayToProxy(c) == RelayRound(c, "relayProxy", "proxies", Goto(Pump(c), "read", Idle))

\* A pump on a nil websocket panics at once, in a goroutine of its own.
PumpPanics(c) == /\ At(Pump(c), "read") /\ ws[c] = "nil"
                 /\ Crash("nilws")

\* So does any goroutine that writes to one; net/http recovers a handler.
WritePanics(g) ==
  /\ Alive
  /\ ~Healthy(g)
  /\ IF g[2] = "serve"
       THEN /\ Goto(g, "dead", Idle)
            /\ UNCHANGED <<lists, sockets, proxyState, channel, input, crashed>>
       ELSE Crash("nilws")

----------------------------------------------------------------------------
(* removeConnection, run when the read pump ends.                          *)

\* The client left, fell silent for pongWait, or the websocket was closed.
ReadFails(c) ==
  /\ At(Pump(c), "read")
  /\ ws[c] # "nil"
  /\ Goto(Pump(c), "scan", [RangeOver(Kind(c)) EXCEPT !.cur = c])
  /\ UNCHANGED <<lists, sockets, proxyState, channel, input, crashed>>

\* What follows the removal of v from its list.
AfterRemoval(g, v) ==
  \/ v \in Peers /\ Goto(g, "findControl", RangeOver("controllers"))
  \/ v \in Controls /\ g[1] = v /\ Goto(g, "close", Idle)
  \/ v \in Controls /\ g[1] # v /\ Goto(g, "closeControl", [Idle EXCEPT !.cur = v])
  \/ v \in Writeable /\ Goto(g, "toProxy", RangeOver("peers"))
  \/ v \in Proxies \ Writeable /\ Goto(g, "close", Idle)

\* Mutant: the first element is taken for the one that is looked for.
ScanFirst(g) ==
  LET r == it[g] IN
  /\ At(g, "scan")
  /\ IF r.len > 0 THEN Goto(g, "cut", [r EXCEPT !.i = 1]) ELSE AfterRemoval(g, r.cur)
  /\ UNCHANGED <<lists, sockets, proxyState, channel, input, crashed>>

\* One round of the search for the first element with the id of it.cur.
Scan(g) ==
  LET r == it[g]
      i == r.i + 1
      e == heap[Kind(r.cur)][r.arr].at[i]
  IN /\ At(g, "scan")
     /\ \/ i <= r.len /\ Id[e] = Id[r.cur] /\ Goto(g, "cut", [r EXCEPT !.i = i])
        \/ i <= r.len /\ Id[e] # Id[r.cur] /\ Goto(g, "scan", [r EXCEPT !.i = i])
        \/ i > r.len /\ AfterRemoval(g, r.cur)
     /\ UNCHANGED <<lists, sockets, proxyState, channel, input, crashed>>

\* The load of "append(sock.list[:i], sock.list[i+1:]...)": the index found
\* earlier is applied to the header as it is now.
Cut(g) ==
  LET r == it[g]
      h == list[Kind(r.cur)]
  IN /\ At(g, "cut")
     /\ IF r.i > h.len
          THEN Crash("bounds")
          ELSE /\ Goto(g, "cutw", [arr |-> h.arr, len |-> h.len, i |-> r.i, cur |-> r.cur])
               /\ UNCHANGED <<lists, sockets, proxyState, channel, input, crashed>>

\* The store.
CutStore(g) ==
  LET r == it[g]
      k == Kind(r.cur)
      h == [arr |-> r.arr, len |-> r.len]
  IN /\ At(g, "cutw")
     /\ heap' = [heap EXCEPT ![k] = RemoveHeap(@, h, r.i)]
     /\ list' = [list EXCEPT ![k] = RemoveHeader(h)]
     /\ joined' = joined \ {r.cur}
     /\ race' = IF DispatchList = k \/ \E o \in Goroutines \ {g} : InUse(o, k)
                  THEN race \cup {k} ELSE race
     /\ AfterRemoval(g, r.cur)
     /\ UNCHANGED <<sockets, proxyState, channel, input, crashed>>

\* A leaving peer takes the control with its id along.
FindControl(g) ==
  LET r == it[g]
      e == NextRound("controllers", r).cur
  IN /\ At(g, "findControl")
     /\ \/ e # Nil /\ Id[e] = Id[g[1]] /\ Goto(g, "scan", [RangeOver("controllers") EXCEPT !.cur = e])
        \/ e # Nil /\ Id[e] # Id[g[1]] /\ Goto(g, "findControl", [r EXCEPT !.i = @ + 1])
        \/ e = Nil /\ Goto(g, "toControls", RangeOver("controllers"))
     /\ UNCHANGED <<lists, sockets, proxyState, channel, input, crashed>>

\* Mutant: wait for the control's read pump before its websocket is closed.
CloseControlWaits(g) ==
  /\ At(g, "closeControl")
  /\ pc[Pump(it[g].cur)] = "done"
  /\ Goto(g, "toControls", RangeOver("controllers"))
  /\ UNCHANGED <<lists, sockets, proxyState, channel, input, crashed>>

CloseControl(g) ==
  /\ At(g, "closeControl")
  /\ Healthy(g)
  /\ ws' = [ws EXCEPT ![it[g].cur] = "closed"]
  /\ Goto(g, "toControls", RangeOver("controllers"))
  /\ UNCHANGED <<lists, view, inbox, direct, proxyState, channel, input, crashed>>

Close(c) ==
  /\ At(Pump(c), "close")
  /\ ws' = [ws EXCEPT ![c] = "closed"]
  /\ Goto(Pump(c), "done", Idle)
  /\ UNCHANGED <<lists, view, inbox, direct, proxyState, channel, input, crashed>>

----------------------------------------------------------------------------
(* messageDispatcher.                                                      *)

Dispatch ==
  /\ Alive
  /\ disp.pc = "idle"
  /\ buffer # << >>
  /\ disp' = [pc |-> "local", msg |-> Head(buffer), it |-> RangeOver("peers")]
  /\ buffer' = Tail(buffer)
  /\ log' = Append(log, Head(buffer))
  /\ UNCHANGED <<lists, sockets, proxyState, since, input, pc, it, crashed>>

\* The connections the dispatcher's current round writes to.
DispatchTouchesSelf == {disp.it.cur} \cap (Peers \cup Writeable)

DispatchTouches ==
  { x \in {disp.it.cur} \ {Nil} :
      /\ disp.pc = "local" \/ (disp.pc = "remote" /\ x \in Writeable)
      /\ Id[x] # disp.msg.source }

BroadcastRound(label, exit) ==
  /\ Alive /\ disp.pc = label
  /\ \A x \in DispatchTouches : ws[x] # "nil"
  /\ inbox' = [x \in Peers \cup Writeable |->
                 IF x \in DispatchTouches /\ ws[x] = "open"
                   THEN Append(inbox[x], disp.msg) ELSE inbox[x]]
  /\ disp' = IF Last(disp.it) THEN exit ELSE [disp EXCEPT !.it = NextRound(DispatchList, @)]
  /\ UNCHANGED <<lists, ws, view, direct, proxyState, buffer, log, since, input, pc, it, crashed>>

NoDispatch == [pc |-> "idle", msg |-> Nil, it |-> Idle]

\* Mutant: remoteBroadcast does not ask where the message came from.
LocalBroadcastForwards ==
  BroadcastRound("local", [disp EXCEPT !.pc = "remote", !.it = RangeOver("proxies")])

\* remoteBroadcast returns at once for a message that came from a proxy.
LocalBroadcast ==
  BroadcastRound("local",
    IF disp.msg.fromProxy THEN NoDispatch
    ELSE [disp EXCEPT !.pc = "remote", !.it = RangeOver("proxies")])

\* Mutant: the dispatcher returns after a message.
RemoteBroadcastStops == BroadcastRound("remote", [NoDispatch EXCEPT !.pc = "stopped"])
RemoteBroadcast == BroadcastRound("remote", NoDispatch)

DispatchPanics ==
  /\ Alive
  /\ \E x \in DispatchTouches : ws[x] = "nil"
  /\ Crash("nilws")

----------------------------------------------------------------------------
Init ==
  /\ list = [k \in Lists |-> EmptySlice]
  /\ heap = [k \in Lists |-> EmptyHeap]
  /\ buffer = << >>
  /\ pc = [g \in Goroutines |-> IF g[2] = "serve" THEN "new" ELSE "none"]
  /\ it = [g \in Goroutines |-> Idle]
  /\ frame = [c \in Conn |-> Nil]
  /\ ws = [c \in Conn |-> "none"]
  /\ proxyPeers = [x \in Proxies |-> {}]
  /\ mapIt = [c \in Controls |-> NoEntry]
  /\ disp = NoDispatch
  /\ notified = {}
  /\ inputs = [c \in Conn |-> 0]
  /\ crashed = "no"
  /\ view = [w \in Watchers |-> {}]
  /\ inbox = [c \in Peers \cup Writeable |-> << >>]
  /\ direct = [c \in Controls \cup Proxies |-> {}]
  /\ joined = {}
  /\ race = {}
  /\ log = << >>
  /\ since = [c \in Peers \cup Proxies |-> 0]

\* What clients and the network decide.
ClientStep ==
  \/ \E c \in Conn : Accept(c) \/ ReadFails(c)
  \/ \E p \in Peers : PeerReads(p)
  \/ \E c \in Controls : ControlReads(c) \/ ControlReadsMalformed(c)
  \/ \E x \in Proxies : ProxyReads(x)

\* What the goroutines of a connection do by themselves.
PeerServe(p) ==
  LET g == <<p, "serve">>
  IN AddPeer(p) \/ PeerToControls(g) \/ PeerToProxies(g) \/ WritePanics(g)

ControlServe(c) ==
  \/ AddControl(c) \/ ControlOwnPeers(c)
  \/ ControlProxyPeer(c) \/ ControlProxyPeerSend(c) \/ ControlNextProxy(c)
  \/ WritePanics(<<c, "serve">>)

ProxyServe(x) ==
  LET g == <<x, "serve">> IN AddProxy(x) \/ ProxyToFarEnd(g) \/ WritePanics(g)

Teardown(c) == Scan(Pump(c)) \/ Cut(Pump(c)) \/ CutStore(Pump(c)) \/ Close(c)
Panics(c) == PumpPanics(c) \/ WritePanics(Pump(c))

PeerPump(p) ==
  \/ Notify(p) \/ Enqueue(p)
  \/ FindControl(Pump(p)) \/ CloseControl(Pump(p))
  \/ PeerToControls(Pump(p)) \/ PeerToProxies(Pump(p))
  \/ Teardown(p) \/ Panics(p)

ControlPump(c) == Relay(c) \/ RelayToProxy(c) \/ Teardown(c) \/ Panics(c)

ProxyPump(x) ==
  \/ ProxyInforms(x) \/ Notify(x) \/ Enqueue(x) \/ Relay(x)
  \/ ProxyToFarEnd(Pump(x))
  \/ Teardown(x) \/ Panics(x)

Dispatcher == Dispatch \/ LocalBroadcast \/ RemoteBroadcast \/ DispatchPanics

Next ==
  \/ ClientStep
  \/ Dispatcher
  \/ \E p \in Peers : PeerServe(p) \/ PeerPump(p)
  \/ \E c \in Controls : ControlServe(c) \/ ControlPump(c)
  \/ \E x \in Proxies : ProxyServe(x) \/ ProxyPump(x)

Spec == Init /\ [][Next]_vars

\* The Go scheduler runs every runnable goroutine, a write ends within
\* writeWait, and reading from a closed websocket fails.
Fairness ==
  /\ WF_vars(Dispatcher)
  /\ \A p \in Peers : WF_vars(PeerServe(p)) /\ WF_vars(PeerPump(p))
  /\ \A c \in Controls : WF_vars(ControlServe(c)) /\ WF_vars(ControlPump(c))
  /\ \A x \in Proxies : WF_vars(ProxyServe(x)) /\ WF_vars(ProxyPump(x))
  /\ \A c \in Conn : WF_vars(ws[c] = "closed" /\ ReadFails(c))

FairSpec == Spec /\ Fairness

----------------------------------------------------------------------------
(* Properties.                                                             *)

Labels == {"new", "append", "toControls", "toProxies", "ownPeers", "proxyPeers", "toProxy",
           "none", "read", "notify", "enqueue", "inform", "relay", "relayProxy",
           "scan", "cut", "cutw", "findControl", "closeControl", "close", "dead", "done"}

LoopState == [arr : Nat, len : Nat, i : Nat, cur : Conn \cup {Nil}]

ListTypes ==
  /\ list \in [Lists -> Header]
  /\ DOMAIN heap = Lists
  /\ \A k \in Lists : heap[k] \in Seq(Array(Members(k))) /\ InHeap(heap[k], list[k])
  /\ joined \subseteq Conn
  /\ race \subseteq Lists

GoroutineTypes ==
  /\ pc \in [Goroutines -> Labels]
  /\ it \in [Goroutines -> LoopState]

InputTypes ==
  /\ frame \in [Conn -> Frame \cup {Nil}]
  /\ notified \subseteq Urls
  /\ inputs \in [Conn -> 0..MaxInput]
  /\ crashed \in {"no", "bounds", "nilws", "noControllers", "malformed"}

SocketTypes ==
  /\ ws \in [Conn -> {"none", "open", "closed", "nil"}]
  /\ view \in [Watchers -> SUBSET Ids]
  /\ inbox \in [Peers \cup Writeable -> Seq(Message)]
  /\ direct \in [Controls \cup Proxies -> SUBSET (Ids \X Ids)]

ProxyTypes ==
  /\ proxyPeers \in [Proxies -> SUBSET RemoteIds]
  /\ mapIt \in [Controls -> [must : SUBSET RemoteIds, seen : SUBSET RemoteIds,
                             id : RemoteIds \cup {Nil}]]

ChannelTypes ==
  /\ buffer \in Seq(Message) /\ Len(buffer) <= Capacity
  /\ disp \in [pc : {"idle", "local", "remote"}, msg : Message \cup {Nil}, it : LoopState]
  /\ log \in Seq(Message)
  /\ since \in [Peers \cup Proxies -> Nat]

\* Every variable stays in its type, no list shows a slot that was never
\* written, and broadcastBuffer stays within its capacity (socket.go:26-43,67).
TypeOK ==
  /\ ListTypes /\ GoroutineTypes /\ InputTypes
  /\ SocketTypes /\ ProxyTypes /\ ChannelTypes

\* The assumption the code makes about its clients: ids are unique within a list.
DistinctIds ==
  \A k \in Lists : \A c, d \in Members(k) : Id[c] = Id[d] => c = d

\* socket.go:29-36, peer.go:145-202, control.go:130-163, proxy.go:212-244: as
\* long as no update of a list overlapped another use of it, the list holds
\* every connection that joined and did not leave, once, and nothing else.
ListsExact ==
  DistinctIds => \A k \in Lists \ race :
    /\ Distinct(heap[k], list[k])
    /\ Elements(heap[k], list[k]) = joined \cap Members(k)

\* A removal cuts outside its list only if updates of a list overlapped.
BoundsPanicNeedsRace == crashed = "bounds" => race # {}

\* peer.go:97,173, control.go:157, proxy.go:231, peer.go:213-231: what ends the
\* process has a cause.  A removal's slice expression leaves the bounds of the
\* list only after updates overlapped; a nil websocket is written to or read
\* only while a connection whose handshake failed is in use; controllers[0] is
\* missing only when no control has joined and stayed.
PanicsExplained ==
  /\ BoundsPanicNeedsRace
  /\ crashed = "nilws" => \E c \in BadUpgrade : ws[c] = "nil"
  /\ crashed = "noControllers" =>
       ~DistinctIds \/ "controllers" \in race \/ joined \cap Controls = {}

\* A watcher that has been through the local peers, the peers it is told of
\* (not the one of its own client), and those no far end can withdraw again:
\* a far end speaks to controls only, and of peers of its own host.
Informed(w) == pc[<<w, "serve">>] \in {"proxyPeers", "done"}
MustKnow(w, p) == w \in Writeable \/ Id[w] # Id[p]
Apart(w, p) == w \in Writeable \/ Id[p] \notin RemoteIds

\* peer.go:145-162, control.go:130-143, proxy.go:212-220: whichever of the two
\* joins last, a peer and a watcher that both finished addConnection know of
\* each other, in the middle of whatever else goes on.
AllAnnounced ==
  DistinctIds /\ race = {} =>
    \A w \in Watchers \cap joined, p \in Peers \cap joined :
      /\ ws[w] = "open" /\ Informed(w)
      /\ pc[<<p, "serve">>] = "done"
      /\ MustKnow(w, p) /\ Apart(w, p)
      => Id[p] \in view[w]

\* No goroutine is in the middle of something.
Quiet ==
  /\ Alive
  /\ disp.pc = "idle"
  /\ \A g \in Goroutines : pc[g] \in {"new", "none", "read", "done"}

\* peer.go:186-199, proxy.go:236-241: once everything has come to rest a
\* watcher knows of no local peer that has left.
NoGhosts ==
  DistinctIds /\ race = {} /\ Quiet =>
    \A w \in Watchers \cap joined :
      ws[w] = "open" => view[w] \ RemoteIds \subseteq { Id[p] : p \in Peers \cap joined }

\* No far end withdraws a peer that another far end owns: a peer is connected
\* to one host, and two hosts keep one link (LinksExact of ProxyNetwork).
FarEndsApart ==
  \A x, y \in Proxies :
    x # y /\ pc[Pump(x)] = "inform" /\ frame[x].action = "disconnect" =>
      frame[x].target \notin proxyPeers[y]

\* control.go:145-150, proxy.go:104-111: a control that finished addConnection
\* knows every peer the far ends own, unless its proxy is still announcing it.
\* (An id that a peer of this host bears as well goes when that one leaves.)
LocalIds == { Id[p] : p \in Peers }
RemoteAnnounced ==
  DistinctIds /\ race = {} =>
    \A c \in Controls \cap joined, x \in Proxies \cap joined :
      /\ ws[c] = "open" /\ pc[<<c, "serve">>] = "done" /\ pc[Pump(x)] = "read"
      => proxyPeers[x] \ LocalIds \subseteq view[c]

\* What receiver c is owed of the messages dispatched since it joined.
For(c) == { m \in Message : m.source # Id[c] /\ (c \in Writeable => ~m.fromProxy) }
Owed(c) == Filter(SubSeq(log, since[c] + 1, Len(log)), For(c))

\* socket.go:158-184: a peer receives every message dispatched since it
\* joined, except its own, exactly once and in the order of dispatch.
BroadcastExact ==
  DistinctIds /\ "peers" \notin race /\ disp.pc # "local" =>
    \A p \in Peers \cap joined : ws[p] = "open" => inbox[p] = Owed(p)

\* socket.go:188-204: a writeable proxy receives every message of a local peer
\* once and in order, and never one that came from a proxy: a message makes
\* one hop.
RemoteBroadcastExact ==
  DistinctIds /\ "proxies" \notin race /\ disp.pc = "idle" =>
    \A x \in Writeable \cap joined : ws[x] = "open" => inbox[x] = Owed(x)

\* socket.go:158-171, peer.go:124: a pump waiting for room in the buffer gets
\* it, and every message in the buffer is dispatched.
BufferDrains ==
  /\ \A c \in Conn : pc[Pump(c)] = "enqueue" ~> (pc[Pump(c)] = "read" \/ ~Alive)
  /\ buffer # << >> ~> ((buffer = << >> /\ disp.pc = "idle") \/ ~Alive)

\* peer.go:170-202, control.go:154-163, proxy.go:228-244: a connection whose
\* pump ended is torn down, whatever the other goroutines do.
TeardownEnds ==
  \A c \in Conn : pc[Pump(c)] = "scan" ~> ((ws[c] = "closed" /\ pc[Pump(c)] = "done") \/ ~Alive)

\* control.go:80-102, proxy.go:174-185: a relay that ends has written the direct
\* message to the control it is addressed to, if that one was in the list the
\* relay ranged over: no target is passed by, and no message with a local
\* target goes on to the proxies.  (Of two controls with one id, which the code
\* does not keep out, only the first is written to: the relay breaks there.)
Ranged(g, k) == Elements(heap[k], [arr |-> it[g].arr, len |-> it[g].len])
RelayFinds ==
  [][\A c \in Controls \cup Proxies :
       DistinctIds /\ race = {} /\ pc[Pump(c)] = "relay" /\ pc'[Pump(c)] # "relay" =>
         \A d \in Ranged(Pump(c), "controllers") :
           Id[d] = frame[c].target /\ ws[d] = "open" =>
             <<frame[c].source, frame[c].target>> \in direct'[d]]_vars

=============================================================================
