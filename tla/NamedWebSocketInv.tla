------------------------- MODULE NamedWebSocketInv -------------------------
(***************************************************************************)
(* The inductive invariants behind the theorems of NamedWebSocketProofs.   *)
(***************************************************************************)
EXTENDS NamedWebSocket

\* What a goroutine at a control point may rely on: the header it copied is
\* readable, the element at hand is of the list's kind, and what it is about to remove is a connection.
RoundOK(g, label, r) ==
  /\ LoopListAt(label) # "none" =>
       InHeap(heap[LoopListAt(label)], r) /\ r.cur \in Members(LoopListAt(label)) \cup {Nil}
  /\ UpdateListAt(g, label, r) # "none" => InHeap(heap[UpdateListAt(g, label, r)], r)
  /\ label \in {"scan", "cut", "cutw"} => r.cur \in Conn
  /\ label = "closeControl" => r.cur \in Controls
  /\ label \in {"cut", "cutw"} => r.i >= 1
  /\ label = "cutw" => r.i <= r.len

RoundsOK == \A g \in Goroutines : RoundOK(g, pc[g], it[g])

\* The frame at hand fits what the read pump does with it.
FrameOK(c, label, f) ==
  /\ label \in {"inform", "relay", "relayProxy"} => f \in Frame /\ f.target \in Ids
  /\ label \in {"notify", "enqueue"} => f \in Frame /\ f.payload \in Payloads
  /\ label = "notify" => f.payload \in Urls

FramesOK == \A c \in Conn : FrameOK(c, pc[Pump(c)], frame[c])

DispatchOK ==
  disp.pc # "idle" => disp.msg \in Message /\ InHeap(heap[DispatchList], disp.it) /\ log # << >>

----------------------------------------------------------------------------
\* A connection is added once: until then nobody has seen it.
Fresh ==
  \A c \in Conn : pc[<<c, "serve">>] \in {"new", "append"} => c \notin joined

\* The slot a header shows at position j of list k.
Shown(k, h, j) == heap[k][h.arr].at[j]

\* On a list without a race, what a goroutine read earlier still holds when it
\* is used: the header of a pending append is the current one; a search sees
\* a prefix of the list; the index it found shows the id it looked for.
PendingOK(g, label, r) ==
  LET k == UpdateListAt(g, label, r)
      h == list[k]
  IN k # "none" /\ k \notin race =>
       /\ label \in {"append", "cutw"} => r.arr = h.arr /\ r.len = h.len
       /\ label = "scan" => /\ r.len <= h.len
                            /\ \A j \in 1..r.len : Shown(k, r, j) = Shown(k, h, j)
       /\ label \in {"cut", "cutw"} => r.i <= h.len /\ Id[Shown(k, h, r.i)] = Id[r.cur]

AllPending == \A g \in Goroutines : PendingOK(g, pc[g], it[g])

\* The inductive invariant: where the goroutines are, what the lists hold,
\* what the dispatcher is at, and the types of the rest.
MoveInv == GoroutineTypes /\ RoundsOK /\ FramesOK /\ Fresh /\ AllPending
StoreInv == ListTypes /\ ListsExact /\ BoundsPanicNeedsRace
QueueInv == ChannelTypes /\ DispatchOK
ListInv == MoveInv /\ StoreInv /\ QueueInv /\ InputTypes /\ SocketTypes /\ ProxyTypes

----------------------------------------------------------------------------
(* Broadcasts.                                                             *)

\* A loop over list k that no update of it disturbed: it sees how the list
\* begins, and cur is the element of its round.
RoundSees(k, r) ==
  /\ r.len <= list[k].len
  /\ \A j \in 1..r.len : Shown(k, r, j) = Shown(k, list[k], j)
  /\ r.i <= r.len
  /\ r.cur = IF r.i = 0 THEN Nil ELSE Shown(k, r, r.i)

DispatchSees ==
  /\ disp.pc # "idle" => disp.msg = log[Len(log)]
  /\ disp.pc = "local" => disp.it.cur \in Peers \cup {Nil}
  /\ disp.pc = "remote" => ~disp.msg.fromProxy
  /\ DispatchList \notin race \cup {"none"} => RoundSees(DispatchList, disp.it)

\* A pump that has taken its connection out of the list, or is past the search
\* for it.
Removing == {"scan", "cut", "cutw"}
PastRemoval(c, label, r) ==
  \/ label \in {"findControl", "closeControl", "toControls", "toProxies", "toProxy", "close", "done"}
  \/ label \in Removing /\ r.cur # c

\* A pump removes its own connection, and a peer's pump a control as well; who
\* is still in the list has not been passed by the search.
PumpOK(c, label, r) ==
  /\ pc[<<c, "serve">>] \in {"new", "append"} => label = "none"
  /\ label \in Removing => r.cur = c \/ (c \in Peers /\ r.cur \in Controls)
  /\ c \in joined /\ Kind(c) \notin race =>
       /\ ~PastRemoval(c, label, r)
       /\ label = "scan" => \E j \in (r.i + 1)..r.len : Shown(Kind(c), r, j) = c

PumpsOK == \A c \in Conn : PumpOK(c, pc[Pump(c)], it[Pump(c)])

\* A receiver that joins, or is in its list, has a websocket nobody has closed.
Opened ==
  \A c \in Conn \ Controls :
    pc[<<c, "serve">>] = "append" \/ (c \in joined /\ Kind(c) \notin race) => ws[c] \in {"open", "nil"}

\* The message being dispatched is still to come for r.
Waiting(r) ==
  \/ r \in Writeable /\ disp.pc = "local"
  \/ /\ DispatchList = Kind(r)
     /\ \E j \in 1..disp.it.len : disp.it.i <= j /\ Shown(Kind(r), disp.it, j) = r

\* How much of the log r has been handed.
Handed(r) == IF Waiting(r) THEN Len(log) - 1 ELSE Len(log)

\* Members who joined have what they are owed of it, others nothing.
ReceiverOK(r) ==
  /\ pc[<<r, "serve">>] \in {"new", "append"} => inbox[r] = << >>
  /\ r \in joined =>
       /\ since[r] <= Handed(r)
       /\ inbox[r] = Filter(SubSeq(log, since[r] + 1, Handed(r)), For(r))

GroupInv ==
  DistinctIds =>
    /\ PumpsOK /\ Opened
    /\ DispatchSees
    /\ \A r \in Peers \cup Writeable : Kind(r) \notin race => ReceiverOK(r)

----------------------------------------------------------------------------
(* Panics.                                                                 *)

\* A websocket is nil because its handshake failed, and the cause of what
\* ended the process is still there: nothing moves after it.
PanicInv ==
  /\ \A c \in Conn : ws[c] = "nil" => c \in BadUpgrade
  /\ crashed = "nilws" => \E c \in Conn : ws[c] = "nil"
  /\ crashed = "noControllers" => list["controllers"].len = 0

----------------------------------------------------------------------------
(* Announcements and relays.                                               *)

\* The loops that load an element per round.
Loops == {"toControls", "toProxies", "ownPeers", "proxyPeers", "toProxy",
          "inform", "relay", "relayProxy"}

LoopsSee ==
  \A g \in Goroutines :
    pc[g] \in Loops /\ LoopList(g) \notin race => RoundSees(LoopList(g), it[g])

\* A loop has y before it, or at hand.
ToCome(k, r, y) == \E j \in 1..r.len : r.i <= j /\ Shown(k, r, j) = y

\* A peer's goroutine comes past w before it has told everybody.
ToTell(w, label, r) ==
  \/ label = "toControls" /\ (w \in Writeable \/ ToCome("controllers", r, w))
  \/ label = "toProxies" /\ w \in Writeable /\ ToCome("proxies", r, w)

\* Goroutine g is still to tell w of p, or has given up what it was doing.
ToAnnounce(w, p, g, label, r) ==
  \/ g \in {<<w, "serve">>, <<p, "serve">>} /\ label = "dead"
  \/ g = <<p, "serve">> /\ ToTell(w, label, r)
  \/ g = <<w, "serve">> /\ label \in {"ownPeers", "toProxy"} /\ ToCome("peers", r, p)

Announced ==
  \A w \in Watchers \cap joined, p \in Peers \cap joined :
    ws[w] = "open" /\ MustKnow(w, p) /\ Apart(w, p) =>
      Id[p] \in view[w] \/ \E g \in Goroutines : ToAnnounce(w, p, g, pc[g], it[g])

\* The pump of p, which leaves, is still to tell w.
ToWithdraw(w, p, label, r) ==
  \/ label \in {"scan", "cut", "cutw", "findControl", "closeControl"}
  \/ ToTell(w, label, r)

Withdrawn ==
  \A w \in Watchers \cap joined :
    ws[w] = "open" =>
      \A id \in view[w] \ RemoteIds :
        \E p \in Peers :
          /\ Id[p] = id /\ MustKnow(w, p)
          /\ p \in joined \/ ToWithdraw(w, p, pc[Pump(p)], it[Pump(p)])

\* A peer or proxy ends addConnection before its pump begins, and stays in its
\* list until then; a watcher that is not in its list has been told nothing.
Served ==
  /\ \A c \in Peers \cup Proxies : pc[Pump(c)] # "none" => pc[<<c, "serve">>] = "done"
  /\ \A p \in Peers : pc[<<p, "serve">>] \in {"toControls", "toProxies"} => p \in joined
  /\ \A w \in Watchers : pc[<<w, "serve">>] \in {"new", "append"} => view[w] = {}

\* What a far end gains or loses is a peer of another host.
Informing == \A x \in Conn : pc[Pump(x)] = "inform" => frame[x].target \in RemoteIds

RosterInv ==
  DistinctIds =>
    /\ LoopsSee /\ Informing
    /\ race = {} => Served /\ Withdrawn /\ Announced

\* A proxy knows no peers of its far end before its pump begins, and has taken
\* out of its map the one it is withdrawing.
Blank == \A x \in Proxies : pc[Pump(x)] = "none" => proxyPeers[x] = {}
Gone ==
  \A x \in Proxies :
    pc[Pump(x)] = "inform" =>
      \/ frame[x].action = "connect"
      \/ frame[x].action = "disconnect" /\ frame[x].target \notin proxyPeers[x]

\* Proxy x is still to tell c of r.
ToInform(c, x, r) ==
  /\ pc[Pump(x)] = "inform" /\ frame[x].action = "connect" /\ frame[x].target = r
  /\ ToCome("controllers", it[Pump(x)], c)

\* Control c is still to come past r in the map of x, or has given up.
ToLearn(c, x, r) ==
  LET g == <<c, "serve">> IN
  \/ pc[g] \in {"dead", "ownPeers"}
  \/ /\ pc[g] = "proxyPeers"
     /\ \/ mapIt[c].id = r
        \/ \E j \in 1..it[g].len :
             /\ Shown("proxies", it[g], j) = x
             /\ it[g].i < j \/ (it[g].i = j /\ r \in mapIt[c].must)

RemoteKnown ==
  \A c \in Controls \cap joined, x \in Proxies \cap joined :
    ws[c] = "open" =>
      \A r \in proxyPeers[x] \ LocalIds : r \in view[c] \/ ToInform(c, x, r) \/ ToLearn(c, x, r)

RemoteInv == DistinctIds => Blank /\ Gone /\ (race = {} => RemoteKnown)

\* A relay has passed nobody with the id of its target.
RelayInv ==
  DistinctIds =>
    \A c \in Controls \cup Proxies :
      pc[Pump(c)] = "relay" /\ "controllers" \notin race =>
        \A j \in 1..it[Pump(c)].len :
          j < it[Pump(c)].i => Id[Shown("controllers", it[Pump(c)], j)] # frame[c].target

=============================================================================
