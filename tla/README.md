# Verification of discovery-self

This directory holds TLA+ modules, TLC configurations and TLAPS proofs for
mediascape/discovery-self.  The program's own core is the named websockets
proxy, a Go program that joins every web page that opens the same "named
websocket" on a host into one broadcast group, lets pages address each other
directly through control connections, and links the groups of different hosts
that it finds over mDNS.  Around it are the script a page uses to talk to the
proxy, the Discovery API, a script that asks the browser or an agent what the
device can do, and that agent, an Android service.  The paths below are relative to
`src/complements/namedwebsockets-proxy/src/github.com/namedwebsockets/namedwebsockets/`
unless they start with `src/`.

## Inventory

| component | source | state it keeps | operations | modelled |
|---|---|---|---|---|
| Named websocket | `socket.go`, `peer.go`, `control.go`, `proxy.go` | three slices of connections (`peers`, `controllers`, `proxies`), `broadcastBuffer`, `proxy.peers`, the notified lists | serveService, serveControl, addConnection, read and write pumps, removeConnection, messageDispatcher, localBroadcast, remoteBroadcast | yes: `NamedWebSocket` |
| Proxy service | `service.go`, `cmd/namedwebsockets/run.go` | `namedWebSockets`: path to socket | StartHTTPServer, serveWSCreator, StartNewDiscoveryServer, the console | `ProxyNetwork`, without the console page |
| Discovery client and server | `discovery.go` | `advertisedServiceNames`, `registeredServiceNames`, one mDNS server per network socket | Register, Browse, dial | `ProxyNetwork` |
| mDNS library (fork) | `github.com/richtr/mdns/{client,server,zone}.go` | a server's sockets and zone; one query's table of entries in progress | NewServer, Shutdown, Records, handleQuery, Query and its goroutines, Close | `Mdns` |
| JavaScript client | `src/API/mediascape/lib/namedwebsockets.js` | a shim (`P2PWebSocket`) per known peer, the map `p2pWebSockets`, `rootWebSocket.peers`, timers | the control frames connect, disconnect and message; close; the dispatch of events | `P2PSockets` |
| Discovery API | `src/API/mediascape/Discovery/discovery.js` | a promise per call, the JSONP callback names, `networkWS` | isPresent, getExtra, getDevices, getServices, getActions, getParameters, connectNWS | `Discovery`, without the setters and the parsing of answers |
| Android agent | `src/complements/discovery-agent-REST/` | the vector `listAdapter`, Cling's registry, the HTTP server; the vector `listBluetooth`, the adapter, the main thread's timers | boot, the registry's callbacks, the Bluetooth receiver, the REST handlers | `AgentUPnP`, `AgentBluetooth`; sensors not |
| Templates, samples, vendored code | `templates.go`, `src/helloworld`, gorilla, go.net, miekg/dns, notificator, jQuery | | | no: generated, third party, assets |

How they interact: `run.go` creates the service and one network socket, starts
the HTTP server and browses for ever.  `serveWSCreator` runs in one goroutine
per HTTP request, looks the socket of the path up (or makes it) and calls
`serveControl` or `serveService`; those upgrade the connection and run
`addConnection` in the same goroutine, which starts the pumps.  The discovery
loop calls `addConnection` for the proxies it dials.  All goroutines of one
named websocket share its three slices and the maps without any lock; the only
synchronised object is the channel `broadcastBuffer`.  A browse round runs one
query of the mDNS library and takes entries from its channel.  The JavaScript
client is the other end of a control connection: it gets the frames
`addConnection`, `removeConnection` and `readConnectionPump` write.  The
Discovery API reaches the agent by JSONP requests, and the named websockets
through the JavaScript client.  In the agent a pool of threads runs the
callbacks of Cling's registry, and other threads answer requests; they share the
vector, whose methods are atomic and nothing else is.  Its Bluetooth service hears of
the adapter by broadcasts, which the main thread handles some time after the fact;
it fills and clears a second vector, sets timers, and starts the next scan, while
the threads of the HTTP server read.

What makes each component correct:

- named websocket: the lists hold who is connected; everybody is told of every
  peer and of its departure; a broadcast reaches each member once and in order
  and makes one hop between hosts; a direct message finds its target; the buffer
  drains and every teardown ends;
- service: one socket per path, shared by all clients of the path;
- discovery: every host on the network is found and linked to once, also after
  failed dials and restarts;
- mDNS query: exactly the services that answered and have an address are given
  out, each once and with its own data; follow-up questions die out; every
  goroutine ends;
- JavaScript client: list and map know the same peers, messages reach the shim
  the application holds, in order, and every departure is told;
- Discovery API: every call is settled, by its own answer; `connectNWS` gives
  each caller its socket;
- Android agent: the vector ends up as the registry, Bluetooth scans go on for ever
  and do not multiply, a place of a listing names the device listed there, and a
  request fails for a known reason only.

What is hard in this program, with the place where it bites, is the `hazards`
list of `PROJECT.json`.  In short: read-modify-write of slices by any number of
goroutines; loops over a slice header copied earlier while a removal moves the
elements of the shared array; an index that is stale when it is used; the two
ways a control is removed; the announcements of peers that join and leave in
any order; the bounded buffer; messages that must make one hop only; nil
websockets after a failed handshake; lost links between hosts; check-then-act
on the map of sockets and on the names of services.  In the scripts: callback
names shared by overlapping requests, timers that are never cleared, one global
variable for all sockets.  In the agent: a vector that is searched, then
changed, in two steps, indices that clients bring from an older listing, and
broadcasts that tell of an adapter that has moved on.

## Modules

| module | models | with |
|---|---|---|
| `GoSlice` | Go slices: headers over shared backing arrays, `append` in place or into an array twice as large, `append(s[:i], s[i+1:]...)` shifting the shared array (external: the Go runtime) | - |
| `Filters` | the elements of a sequence that are in a set, in a form one can prove about | - |
| `NamedWebSocket` | one named websocket: lists, pumps, teardown, dispatcher | `GoSlice`, `Filters` |
| `BroadcastGroup` | what a named websocket promises of its broadcasts, without lists, loops and goroutines (abstract) | `Filters` |
| `NamedWebSocketGroup` | the refinement: `NamedWebSocket` implements `BroadcastGroup` | `NamedWebSocket`, `BroadcastGroup` |
| `NamedWebSocketInv` | the inductive invariants, in named parts | `NamedWebSocket` |
| `NamedWebSocketProofs` | lemmas about the slice operators; the theorems about types, lists, panics, broadcasts, the refinement, announcements (also of other hosts' peers) and relays | `NamedWebSocketInv`, `NamedWebSocketGroup`, `SequenceFacts` |
| `MCNamedWebSocket` | constants of the runs, the state constraint | `NamedWebSocketInv`, `NamedWebSocketGroup` |
| `ProxyNetwork` | the proxies of a network and one path: how its sockets come to be, are advertised, found and linked | - |
| `Mdns` | the servers and one query of the mDNS library | - |
| `P2PSockets` | the JavaScript client | `Filters` |
| `Discovery` | the calls of the Discovery API, and `connectNWS` | - |
| `AgentUPnP` | the UPnP half of the Android agent | - |
| `AgentBluetooth` | its Bluetooth half | - |
| `Agent` | both halves in one process, interleaved | `AgentUPnP`, `AgentBluetooth` |
| `SequenceFacts` | lemmas about removing from, inserting into, growing and filtering sequences, and that a set of naturals has a least element | `Filters` |
| `P2PSocketsProofs`, `DiscoveryProofs`, `AgentBluetoothProofs`, `MdnsProofs`, `ProxyNetworkProofs` | their invariants and theorems | the module; `SequenceFacts`, but for the last |
| `AgentProofs` | those of the UPnP half, and what holds in the whole agent | `Agent`, `AgentBluetoothProofs`, `SequenceFacts` |
| `MCProxyNetwork`, `MCMdns`, `MCP2PSockets`, `MCDiscovery` | constants and bounds of their runs | the module |
| `MCAgent` | the same for the agent, whose halves share no state: one moves, and `half` says which | `Agent` |

`NamedWebSocket` is the inside of one socket, `ProxyNetwork` what lies between
sockets: its `Join` and `Upgrade` are where `Accept` of the other module begins,
and a pair in `links` is a dialled proxy on one side and a writeable one on the
other.  They are not composed in one state space: the only thing the inside
needs to know of the outside is that a proxy connection may come, talk and go at
any time, and the only thing the outside needs is that a socket takes whoever
comes.  In the same way `Answer` of `ProxyNetwork` is what `Mdns` looks like from
outside, `P2PSockets` takes any frames the proxy may send (a "connect" can come
twice, see `AllAnnounced`), and `Discovery` takes any answer or failure of the
agent.

### ProxyNetwork: state and actions

One network path; several paths do not interact.  A service name
(`channel[random]`) is unique, so a name and the socket it was drawn for are one
value, `<<host, n>>`.

| variable | code |
|---|---|
| `current` | `service.namedWebSockets[path]` of each host |
| `pc`, `sock` | main, each request's handler, each browse goroutine and the handler it dials: where it is and its local `sock` |
| `made`, `advert` | the sockets of a host and how far `Register` has come: not yet, answered for, marked as our own; `gone` after a restart |
| `registered` | `registeredServiceNames` |
| `query`, `entries`, `sent`, `name` | the round whose mDNS query is running, the channel of each browse goroutine, what its query has delivered, the name at hand |
| `links` | connections a socket has dialled to another |
| `causes` | history: the ways links can go wrong that have happened (below) |
| `restarts`, `losses` | counters of the bounds |

| code | actions |
|---|---|
| `serveWSCreator`, the same lines in `Browse`, and `main` | `Request`, `Resolve`, `Create`, `StoreSocket`, `Join` |
| `advertise`, `Register` | `Publish`, `MarkOwn` |
| `StartNewDiscoveryServer`, `Browse` | `StartRound`, `Answer`, `Take`, `EndRound` |
| the dial and what it leads to on both hosts | `Dial`, `DialFails`, `Upgrade`, `Register` |
| the connection breaks; a proxy ends and is started again | `LoseLink`, `Restart` |

`main` makes the socket of `/network/Mediascape` without really asking whether
there is one (`GetNamedWebSockets` assigns to a parameter passed by value);
`Own` says whether the modelled path is that one.  The steps between two accesses to the
maps are single steps.  A browse goroutine may still be dialling when the next
round starts, so `Rounds[h]` is how many of them a host can have at once.  The
upgrade adds the proxy on both hosts in one step.  `Answer` stands for the mDNS
query: which answers come, and when, is open, except that one query passes a
name on once; names that would be ignored when taken are not passed on, which
leaves out steps that change nothing.  Go's maps are not safe for concurrent
writes: what a torn map would do is not modelled.

### NamedWebSocket: state and actions

A connection `c` is a member of `Peers`, `Controls` or `Proxies`.  Each object
joins at most once; a client that reconnects is another connection.  `Writeable`
are the proxies that another host dialled (`serveService` with the header
`X-NetworkWebSocket-Proxy`), the others were dialled by this host.  `Id[c]` is
the number in the URL; a client's peer and control share it.

| variable | code |
|---|---|
| `list`, `heap` | `sock.peers`, `sock.controllers`, `sock.proxies` (`socket.go:29-36`): headers and backing arrays |
| `buffer`, `disp` | `sock.broadcastBuffer` and the goroutine `messageDispatcher` |
| `pc`, `it`, `mapIt` | where each goroutine is, the header, index and element of its current loop; `mapIt` is the range over `proxy.peers` inside the range over the proxies |
| `frame` | the message a read pump is handling |
| `ws` | the websocket of a connection: not yet there, open, closed, or the nil pointer of a failed handshake |
| `proxyPeers` | `proxy.peers` |
| `notified` | the URLs in `peerNotifiedList` and `proxyNotifiedList`.  Both pumps push a URL to both lists one after the other; the model pushes to both at once, into one set |
| `view`, `inbox`, `direct` | what a client has been sent: connects less disconnects, broadcasts, direct messages |
| `crashed` | why the process ended: a panic in a goroutine nobody recovers, or `log.Fatalf` |
| `joined`, `race`, `log`, `since` | history for the properties only; no guard reads them |

Two goroutines run for a connection: `<<c, "serve">>` is `addConnection`,
`<<c, "read">>` is `readConnectionPump` with its deferred `removeConnection`.

| code | actions |
|---|---|
| `serveService`, `serveControl`, a successful `Dial`, and the load of the header in `append` | `Accept` |
| the store of that `append` and what `addConnection` does next | `AddPeer`, `AddControl`, `AddProxy` |
| the announcing loops of `addConnection` and `removeConnection` | `PeerToControls`, `PeerToProxies`, `ControlOwnPeers`, `ControlProxyPeer`, `ControlProxyPeerSend`, `ControlNextProxy`, `ProxyToFarEnd` |
| `readConnectionPump` | `PeerReads`, `ControlReads`, `ControlReadsMalformed`, `ProxyReads`, `Notify`, `Enqueue`, `ProxyInforms`, `Relay`, `RelayToProxy`, `ReadFails` |
| `removeConnection` | `Scan`, `Cut`, `CutStore`, `FindControl`, `CloseControl`, `Close` |
| `messageDispatcher`, `localBroadcast`, `remoteBroadcast` | `Dispatch`, `LocalBroadcast`, `RemoteBroadcast` |
| a write or read on a nil websocket | `PumpPanics`, `WritePanics`, `DispatchPanics` |

Grain of the steps.  The goroutines are not synchronised, so a step is what one
goroutine does between two accesses to shared state.  `sock.peers = append(...)`
is two steps, the load of the header and the store of array and header, because
another goroutine may store in between.  A removal is a search step per element,
the load and the store.  A loop copies the header in the step that enters it;
one round is one step: it sends for the element at hand, then loads the next.
(The send and the following load touch different shared objects and nothing else
of the goroutine lies between them, so every interleaving of other goroutines
before or after the pair is still there.)  The store that ends an `append` is in one
step with the header load of the loop that follows it (`AddPeer`, `AddControl`,
`AddProxy`, `CutStore`); there this argument does not hold: that two goroutines store
into two lists and only then load each other's is left out.  A later load shows at
most more: who joins as well is then announced from both sides, to a set, and a
removal in between shows in the header before it is ranged over.  A version of the
module with a step of its own between store and load was model-checked for every run
of `MCNamedWebSocket` and all properties hold there as well; `roster` then takes more
than five minutes, which is why the step is not kept.  Headers are copied whole: the
tearing of a slice header by a data race, which the Go memory model allows, is
not modelled.  Map updates are one step; the runtime's fatal error "concurrent
map iteration and map write", which it does not promise to detect, is left out.

What is abstracted: payloads are numbers; `Urls` are the payloads containing
`http://`; JSON, deadlines and log lines are left out; a write to a closed
websocket is ignored, as the code ignores the error.  A read pump may fail at any
time it reads (`ReadFails`: the client left, no pong came, the websocket was
closed).  The write pumps loop over a ticker and only send pings; their deferred
`removeConnection` is never reached, so they change no state and have no action.
The panics of a handler are recovered by `net/http` (label `dead`: the goroutine
is gone, the connection stays listed), those of a pump or of the dispatcher end
the process.  The frame a pump has handled is forgotten when the pump reads
again (`RelayRound`), because nothing looks at it any more.

Bounds on unbounded things: `MaxInput` frames per talking client; every
connection joins once; `log`, `inbox` and `heap` are bounded through these.

### Mdns: state and actions

A port and a text are those of one service, so the service's name stands for
them, and a host's name for its address.  A packet on the network is an element
of a set: nothing says when it arrives, or that it does.

| variable | code |
|---|---|
| `server` | a `Server`: the goroutines `recv` that run, `shutdown`, the address its zone has, if any |
| `asked`, `replies` | questions and answers on the network |
| `phase`, `queries` | the call of `Query`; how many questions it has sent |
| `recv`, `msgCh` | the client's goroutine of each address family, with the message it wants to hand over; the channel |
| `table`, `entries`, `offered` | `inprogress`, the entries it points to, `params.Entries` |
| `heard` | history: services whose records the query has handled |

| code | actions |
|---|---|
| `NewServer`, `Shutdown`, `Server.recv`, `handleQuery` with the zone's records | `NewServer`, `Shutdown`, `RecvEnds`, `HandleQuery` |
| `newClient` and the start of `query` | `Query` |
| `client.recv` | `Read`, `Put`, `Stop` |
| the loop of `query`: `ensureName`, `alias`, completeness, follow-up question, time out | `HandleMessage`, `Finish` |
| the reader of the channel in `discovery.go` | `TakeEntry` |

All records of a message go into the table in one step (`After`), because nothing
else touches the table.  A service whose host has no address on a /16 or /24 is
found by nobody: its zone has no A record, its entry is never complete, and the
question that follows is of type PTR for a name that has no such record, so it is
not answered.

### P2PSockets: state and actions

One control websocket and its page.  JavaScript runs one handler at a time, so a
handler is a step; what makes orders is the window's timers: 200 ms before the
"open" of a connect, 1 ms before every event.  `Due` is the order a browser keeps:
timers of one delay fire as they were set, and none before an earlier one that
is not longer.

| variable | code |
|---|---|
| `shims` | the `P2PWebSocket`s made: id, `readyState`, messages and events dispatched |
| `p2p`, `peers` | `p2pWebSockets`, `rootWebSocket.peers` |
| `timers` | pending `setTimeout`s |
| `messages`, `gone`, `displaced`, `early` | history: the frames, the "disconnect" events dispatched at the root, shims whose entry was overwritten, shims closed before they opened |

| code | actions |
|---|---|
| the cases "connect", "disconnect" and "message" of the control's `onmessage` | `ReceiveConnect`, `ReceiveDisconnect`, `ReceiveMessage` |
| `close`, `__doClose`, `__handleEvent` | `Close`, and in the actions above |
| the timers' callbacks | `OpenTimer`, `EventTimer` |

### Discovery: state and actions

What a function of the API asks of the browser is not modelled one by one; what
is, is the *ways* its promise can be settled: at once, by a callback that is sure
to come, by a sensor or a user that may never answer, by the agent over JSONP,
or not at all.  Every function of isPresent, getExtra and the four other methods is a set of
ways (`cameraPresence` and so on, with the branches they come from in `map`).

| variable | code |
|---|---|
| `call` | each call: function, way, where it is, the agent's reply and what the promise was settled with |
| `window`, `box`, `found`, `wire` | the JSONP callback names (fixed per function in `discovery.js`), jQuery's `responseContainer` and `overwritten`, requests on their way (from the vendored `jquery-2.1.3.min.js`) |
| `networkWS`, `conn`, `timers` | the script's variable, each `connectNWS` with its socket, its 500 ms timers |
| `crossed`, `shared` | history: requests that did not end in nested order, sockets that were not the only ones |

| code | actions |
|---|---|
| a call; a browser callback | `Ask`, `BrowserSettles`, `BrowserRefuses` |
| the reply, an empty one, a failure | `Loads`, `LoadsEmpty`, `Fails` |
| `agentGetExtra`'s timer | `ExtraTimer` |
| `connectNWS`, `onopen`, `onconnect`, `onclose`, its timer | `ConnectNWS`, `Opens`, `OnConnect`, `OnClose`, `ConnectTimer` |

### AgentUPnP: state and actions

| variable | code |
|---|---|
| `boot`, `toCopy` | the main thread of `ServiceBoot.java`: HTTP server, vector, `onServiceConnected` |
| `list` | `listAdapter`, null until it is made |
| `registry`, `discovering` | what Cling's registry knows and what it is fetching (external) |
| `tasks` | callbacks of `BrowseRegistryListener` in the pool: before and after `indexOf`, after `remove` |
| `client` | each HTTP client: its request, the listing it has, the place it asks for |
| `missed`, `overlap` | history: devices that came or went between the copy and `addListener`; devices whose callbacks overlapped |

| code | actions |
|---|---|
| `onCreate`, `onServiceConnected` | `StartHttp`, `CreateList`, `Connected`, `Copy`, `AddListener` |
| Cling | `DiscoveryStarted`, `DiscoveryFailed`, `DeviceFound`, `DeviceLeft` |
| `deviceAdded`, `deviceRemoved` | `IndexOf`, `AddLast`, `ResetRemove`, `ResetInsert`, `RemoveDevice` |
| `UpnpDevices`, `UpnpExtra`, `UpnpPresence` | `GetDevices`, `GetExtra`, `ReadSize`, `ReadGet`, `PostPresence` |
| `UpnpServices`, `UpnpActions`, `UpnpParameters` | `GetServices`, `PostServices`, `GetActions`, ... , `Take` |

`Vector`'s methods are synchronised, so each is a step; a callback and a request
use several.  The handlers differ in what they ask of the place (`Admits`): some
compare it with the size and let one place too many pass, one wants it positive,
one asks nothing.

### AgentBluetooth: state and actions

| variable | code |
|---|---|
| `created` | `BluetoothService.onCreate` is done; before, `listBluetooth` and `bluetoothSensor` are null |
| `adapter`, `scanning`, `reported` | the `BluetoothAdapter`: missing, off or on; `isDiscovering()`; how often this scan has reported each device (external) |
| `fetching`, `known` | `fetchUuidsWithSdp` under way; devices whose `getUuids()` is not null (external) |
| `mail` | broadcasts sent and not yet received, in order |
| `timers` | pending `postDelayed` calls, of 60 s each |
| `list` | `listBluetooth` |
| `client` | each HTTP client: its request, the listing it has, the place it asks for |
| `refused` | history: a start was refused since Bluetooth was switched on |

| code | actions |
|---|---|
| `onCreate` | `Create` |
| `onReceive` | `ReceiveFound`, `ReceiveStarted`, `ReceiveFinished`, `ReceiveOff`, `ReceiveOn` |
| the runnable of `postDelayed` | `TimerFires` |
| Android | `SwitchOn`, `SwitchOff`, `OtherScan`, `Finds`, `ScanEnds`, `FetchEnds` |
| `BluetoothPresence`, `BluetoothDevices`, `BluetoothExtra` | `GetPresence`, `PostPresence`, `GetDevices`, `GetExtra`, `PostExtra`, `ReadSize`, `ReadGet`, `ReadUuids` |
| `BluetoothServices` | `GetServices`, `PostServices`, `TakeServices` |

The adapter may have moved on when its broadcast is received: a scan that is
reported finished may have been followed by another, and Bluetooth may be on again
when "off" arrives.  What the code asks of the adapter (`isEnabled`,
`isDiscovering`) is its state now, what it is told is its state then.  One broadcast
stands for the two of a switch (`STATE_TURNING_ON` and `STATE_ON`, and so for off):
at the first the receiver clears the vector, which is what it begins with at the
second.  `startDiscovery` (`Start`) has no effect during a scan, and it may be
refused; its result is never looked at.  A resource asks the vector for its size and
for each element in separate steps, and asks a device for its services up to three
times.  A device without a name makes the listing fail, because the name is logged.
Once Bluetooth is off Android may answer null for name and class alike, and each of
the three listings fails on that.
`listBluetoothServices` is written and never read, and has no variable.  The
receiver is never unregistered here: nothing calls `stopService`.

## Properties

The proxy is not synchronised, so what a careful reader would like to say of it
does not hold as it stands: each property has the proviso the code needs, and no
more.

`NamedWebSocket` states what holds, and the exact proviso.  The history variable
`race` holds the lists on which an update (between its load and its store)
overlapped another update, or a removal stored while another goroutine was in a
loop over the list or had an index into it.  Appends beside loops are no race:
they never disturb a copied header, and the properties cover them.

| property | says |
|---|---|
| `TypeOK` | types; list headers show written slots only; the buffer stays within its capacity |
| `ListsExact` | a list without a race holds exactly the connections that joined and did not leave, once each |
| `PanicsExplained` | what ends the process has a cause: a slice out of bounds a race, a nil websocket a failed handshake still in use, an empty `controllers[0]` (`peer.go:97`) that no control has joined and stayed, or a race on the controls |
| `AllAnnounced` | a peer and a watcher (control or writeable proxy) that both finished joining know of each other, whichever came last; a control may lose a peer whose id a far end also speaks of (`Apart`) |
| `NoGhosts` | at rest, a watcher knows no local peer that has left |
| `RemoteAnnounced` | as long as no list had a race, a control that finished joining knows every peer the far ends own and no local one shares the id of, unless a proxy is still announcing it |
| `BroadcastExact` | a peer has received exactly the messages dispatched since it joined, less its own, once, in order |
| `RemoteBroadcastExact` | a writeable proxy has received exactly the local messages, never one that came from a proxy |
| `RelayFinds` | a relay that ends has delivered to the control it was addressed to, if that one was in the list it ranged over and no other control has its id (action property) |
| `BufferDrains` | a pump that waits for room gets it, and the buffer is emptied (liveness) |
| `TeardownEnds` | a connection whose pump ended is torn down (liveness) |

`ImplementsGroup` (in `NamedWebSocketGroup`) is the refinement.  `BroadcastGroup`
has members, a queue of offers, one order and what each member was handed: a message
is ordered when every member has all that came before, a member is handed the next
message it wants, and who joins while a message is handed out may or may not get it.
The mapping: members are the peers and writeable proxies in `joined`, the queue is
the channel, and the order is `log`; wanted is what the tests of `localBroadcast`
and `remoteBroadcast` let pass.  `sound` of the abstract group is "no race on the
two lists": behind a race the group promises nothing.

What lies behind the provisos, and is no run of its own: with a removal during a
broadcast a peer that stays can miss a message, although `socket.go:173` says
"all"; both pumps of a client remove its control, and the second removal can
slice out of bounds (`PanicsExplained`) and end the process; when a link
between hosts is lost, the far end's peers stay announced at the local controls;
and a control may send a page the "connect" of an entry it read before the
"disconnect" it has already sent.

`ProxyNetwork` also keeps a history of what went wrong, `causes`: a *split* (a
host made a second socket for the path while the first is still advertised), an
*overlap* (two rounds of one host handled one name at once) and a *stale* name (a
host was dialled by a name it had before it restarted).  The code does nothing
against any of the three.

| property | says |
|---|---|
| `TypeOK` | types, and nobody goes on with a nil socket |
| `LinksExact` | as long as nothing of `causes` has happened, host a hears host b over at most one link, and it joins the sockets the clients of both use |
| `LinksComplete` | as long as no link broke, a name counts as registered only while there is a link to its host |
| `ClientsTogether` | without a split the clients of a host are on the socket the map names |
| `MeshForms` | a name that stays advertised is in the end registered by every host that browses (liveness) |
| `ChannelShared` | all clients of a path are on one socket: `README.md:84` says so, and run `claim_channel` refutes it, because main replaces the socket an early client is on |

The other modules, besides one `TypeOK` each (for `P2PSockets` proved and not run):

| property | says |
|---|---|
| `Mdns.EntriesExact` | the entries given out are exactly the services that answered and have an address, one each, with their own host, port, text and address, although services of one host share the name of its A record; and the query never meets a message that leaves it without an entry (`client.go:223`), as long as servers are these |
| `Mdns.NoStorm` | follow-up questions set off no more answers: at most one question per service and socket, and one more |
| `Mdns.GoroutinesEnd` | after Close or Shutdown every reading goroutine ends, also one that waits for room in a channel nobody reads (liveness) |
| `P2PSockets.PeersMatchMap` | list and map know the same ids, each once |
| `P2PSockets.OpenShimRouted` | a shim that lets the application send is the one the map routes to, unless its entry was overwritten or its peer left before it opened |
| `P2PSockets.MessagesInOrder` | messages reach the shim held in the list, in order; lost are those for a displaced shim only |
| `P2PSockets.EventsBalance` | the root's "connect" and "disconnect" events of an id balance what the list says, also when frames are doubled |
| `P2PSockets.NeverReopens` | a closing or closed shim opens again only if a "disconnect" came before its first "open" (action property) |
| `P2PSockets.DeparturesTold` | the application is told of every departure (liveness) |
| `Discovery.OwnAnswer` | as long as the requests of a function end in nested order, a reply settles its own call, and a failure too |
| `Discovery.NotClosed` | the variable never holds a socket whose close was handled (proved, not run) |
| `Discovery.SocketOwn` | a `connectNWS` whose socket is alone resolves with it and files its own peers |
| `Discovery.Settles` | every call is settled, save where the code has no branch, a user or sensor is asked, or `agentGetExtra` throws (liveness) |
| `AgentUPnP.ListExact` | at rest the vector is the registry, each device once, except for devices that came or went before the listener was added or whose callbacks overlapped |
| `AgentUPnP.IndexNamesDevice` | a place of a listing names the device seen there until the vector loses an element (action property) |
| `AgentUPnP.ErrorsExplained` | a request fails only before the vector exists, when the vector shrank, or at the places that pass its test wrongly (action property) |
| `AgentUPnP.DeviceAppears` | a device that was found is listed in the end (liveness) |
| `AgentBluetooth.TypeOK` (`BluetoothTypes`) | types; no device is in the vector twice, however often a scan reports it |
| `AgentBluetooth.ChainsBounded` | timers, ends and switches in the mail, and the scan under way, together are at most one for `onCreate`, for each switch and for each scan of somebody else: rounds of scans do not multiply |
| `AgentBluetooth.ScansGoOn` | while Bluetooth stays on, scans come and go for ever and the devices near are listed again and again, unless a start was refused (liveness) |
| `AgentBluetooth.AnswersExplained` | a place of a listing is answered with the device seen there unless the vector was cleared; a request fails only for the causes listed (action property) |

`OwnAnswer` needs its proviso: two calls of `getServices` at once whose replies
come in the order they were sent are settled with each other's answers, because
both requests use one callback name.  `ScansGoOn` needs its excuse: a start that is
refused sets off no broadcast, so no timer follows and the agent scans no more
until somebody else does or Bluetooth is switched.

## Runs

| run | instance | shows |
|---|---|---|
| `roster` | 2 peers, 1 control with the first one's id, 1 writeable proxy, no input | `ListsExact`, `AllAnnounced`, `NoGhosts` over every order of joins and departures |
| `broadcast` | 2 peers that send twice each, a writeable proxy with a nil websocket, buffer of 2 | `BroadcastExact`, and that the dispatcher and pumps meet the nil websocket |
| `remote_broadcast` | 1 peer, 1 writeable and 1 dialled proxy; peer and both far ends send | `TypeOK`, `RemoteBroadcastExact`, `ImplementsGroup` |
| `relay` | 2 controls, 1 writeable and 1 dialled proxy; all but the second control send, 2 frames together (`TwoFrames`), URL notifications; the second control comes after the first and with one of the proxies (`SecondControl`) | `RemoteAnnounced`, `RelayFinds` |
| `live` | 1 peer with its control, 2 messages, buffer of 1 | `PanicsExplained`; `BufferDrains`, `TeardownEnds` under `FairSpec` |
| `claim_channel` | 1 host, 2 clients | the counterexample to `ChannelShared` |
| `network` | 2 hosts, 2 clients on one, which restarts; the other browses with two goroutines; the second client comes or the second goroutine browses (`OneMore`) | `TypeOK`, `LinksExact`, `LinksComplete`, `ClientsTogether` |
| `network_live` | the same with 1 client and one browse goroutine, a lost link and no restart, `FairSpec`, no constraint | `MeshForms` |
| `mdns` | 2 services of one host, with and without an address, both families, a channel of 1 and room for 1 entry; at most one server is shut down and only one has both sockets (`Few`) | all of `Mdns` |
| `p2p` | 1 id: 3 connects (so doubled and repeated), 2 messages, 1 close | all of `P2PSockets`, but `TypeOK` |
| `discovery` | 3 calls over 6 functions that take every way, 2 connects; one half moves, the other rests (`OneHalf`) | all of `Discovery`, but `NotClosed` |
| `agent` | UPnP half: 2 devices, 4 changes of the registry, 1 client with 2 requests, places 0 to 3.  Bluetooth half: 2 devices, one always near and one without a name, 1 switch, 1 scan of another application, 1 broadcast on its way before the adapter sends the next, 1 client with 2 requests, places 0 to 2.  Both within `OneExtra` | all of `AgentUPnP` and `AgentBluetooth` |

Why the bounds are enough.  A race needs two goroutines on one list, and a
missed or doubled element a third that stays; three elements in a list give
every relation of index (before, at, after) between a removed element, the
loop's element and the end.  Two of a kind plus one of the other kind give every
order of join, scan and departure that the announcement properties relate.  The
capacity of the buffer is 1 or 2 instead of 512, so it is full in most runs;
nothing depends on the number.  No symmetry is used in these runs: ids are numbers
and ordered lists tell connections apart.

A relay passes by a control only when the list it ranges over has two: in `relay`
it is addressed to either, and the list grows and shrinks before, and grows during,
the loop.  `SecondControl` bounds what the second one adds: it comes to at most two
others, the first control among them, and then frames and departures are two
together; without it members leave as they like.  A removal during the loop is a race
and excused, here as in the theorem.

For `ProxyNetwork`: a link has two ends, so two hosts; links have a direction
and a browsing host makes its socket the way a client's request does, so one of
them has the client and the other one browses.  Two sockets (and
names) per host allow a split or a restart, two browse goroutines an overlap.
Two clients of one host meet on its socket or on the one its restart left; a client
that asks while the first one's socket is being made is a split.  `OneMore` takes the
second client and the second browse goroutine one at a time; without it the run has
1.5 million states and passes as well.  `network` uses the symmetry of the two clients and
of the two goroutines (`Alike`): the module compares them for equality only, nothing
orders them, `CHOOSE` is not used, and the run has no liveness.
In `network_live` nothing can need a third socket, so the bound stops nobody
who is assumed to make progress; with a restart it could, which is why liveness
is checked without one.
`MaxRestarts` and `MaxLosses` are 1: a second restart meets nothing that the first
did not leave behind.

For `Mdns`: one shared host gives the one name two entries meet in, two sockets give
the duplicates, and a channel of one slot blocks a goroutine.  `Few` leaves out a
second service on both sockets, which meets nothing the first one does not, and
servers with a socket the client lacks, whose packets are lost packets.  For
`P2PSockets`: ids touch neither each other's shims nor entries, and timers of two
ids interleave like two shims of one id.  For `Discovery`: calls and connections
share no variable, which is why `OneHalf` loses nothing; three requests are the
fewest that can nest and cross at once.  For `AgentUPnP`: a callback is overlapped
by one other, and a place is before, at or behind the end of a vector of two; the
fourth change of the registry is what lets a vector become too short between the
`remove` and the `add` of a reset.  For `AgentBluetooth`: of two devices one is met
by every scan and one only by some, a switch lets "off" and "on" arrive late, and
one more scan crosses the agent's own; `MaxMail` 1 bounds what the adapter adds to
the mail, which its reactions still lengthen.  `OneExtra` lets the things that
multiply the states come one at a time: in the UPnP half the fourth change or
requests, in the Bluetooth half another application's scan, a refused start, a
repeated report or requests.  It is a true restriction: what a request meets after a
refused start, say, rests on the theorems, which have no bounds, and liveness is
checked within it only.

The constraint `RaceFree` (`race = {}`) in the larger runs stops TLC from exploring
states behind a race.  `race` never shrinks, and each of those properties holds
trivially (for `BroadcastExact` and `ListsExact`: for that list) once a list is in
it, so the constraint hides no violation of a property that asks for `race = {}`
(`TypeOK` does not: behind a race it rests on its theorem); for the properties that
ask it of one list only, runs with one list of interest are used.  The runs of
liveness of the proxy and the claim have no constraint. `NoCause` (`causes = {}`,
run `network`) is sound for `LinksExact` in the same way; `TypeOK`, `LinksComplete`
and, behind an overlap or a stale name, `ClientsTogether` are checked there in the
explored states only; behind a cause they rest on their theorems.

`CHECK_DEADLOCK FALSE`: every connection joins once, so when all have left and
the buffer is empty the model has nothing to do; a program that has crashed does
nothing either.  The other modules stop in the same way when their inputs are
used up: a query is over, no frame comes, every call is settled.

Fairness of `NamedWebSocket` (`FairSpec`, run `live`): weak fairness of the
dispatcher, of each `addConnection` and of each pump's own steps, because the Go
scheduler runs every runnable goroutine and `writeWait` bounds each write; and a
read on a closed websocket fails.  Nothing is assumed of clients: they need not
join, talk or leave. The notification of a URL is assumed to end.  On arm it is an
`http.Get` without a timeout (`peer.go:114`), so there the assumption is the
agent's.

Fairness of `ProxyNetwork` (`FairSpec`, run `network_live`): weak fairness of the
goroutines' own steps and of the timers, because they run or fire without
anybody else.  Strong fairness, per host and foreign name, of being answered, of
taking the answer before the round ends, and of a dial getting through: a name
is asked for in every round (each 20 s), so this says that a host that asks and
dials for ever is not unlucky for ever.  A dial that was accepted is assumed to
return (the dialler has no handshake timeout).  Nothing is assumed of clients,
and nothing of `Restart` and `LoseLink`.

Fairness of the others is weak fairness of what runs without anybody else: the
client's goroutines after Close and the server's after Shutdown (`Mdns`); the timers
of the window (`P2PSockets`); the load or error of a script element, the timers, and
the browser callbacks that wait for no user or sensor (`Discovery`); the main thread
and the threads of the pool (`AgentUPnP`); the main thread's receiver and its
timers, and that a scan meets the devices that are near and ends (`AgentBluetooth`).
Nothing is assumed of switches, of a start that is refused, of the network, of
frames, of applications and of HTTP clients.

## Proofs

`tlapm` checks the theorems below.  Those of `NamedWebSocket` hold for every set of
connections, every assignment of ids, every capacity and every number of inputs,
under the assumptions `KindsDisjoint` and `ConstantTypes` of `NamedWebSocket`
(`DialledIsOpen`, that a dialled proxy has a websocket, is not needed):

| theorem | statement |
|---|---|
| `TypeCorrect` | `Spec => []TypeOK` |
| `ListsCorrect` | `Spec => []ListsExact` |
| `PanicsAreExplained` | `Spec => []PanicsExplained` |
| `BroadcastsReachPeers` | `Spec => []BroadcastExact` |
| `BroadcastsReachProxies` | `Spec => []RemoteBroadcastExact` |
| `GroupImplemented` | `Spec => ImplementsGroup` |
| `EverybodyIsAnnounced` | `Spec => []AllAnnounced` |
| `NobodyIsAGhost` | `Spec => []NoGhosts` |
| `RemotePeersAreAnnounced` | `Spec /\ []FarEndsApart => []RemoteAnnounced` |
| `RelaysFindTheirTarget` | `Spec => RelayFinds` |
| `TypesOfNetwork` (`ProxyNetworkProofs`) | `Spec => []TypeOK` |
| `ClientsMeet` (`ProxyNetworkProofs`) | `Spec => []ClientsTogether` |
| `NobodyLeftOut` (`ProxyNetworkProofs`) | `Spec => []LinksComplete` |
| `OneLinkEach` (`ProxyNetworkProofs`) | `Spec => []LinksExact` |
| `TypesOfQuery` (`MdnsProofs`) | `Spec => []TypeOK` |
| `EntriesAreServices` (`MdnsProofs`) | `Spec => []EntriesExact` |
| `QuestionsAreBounded` (`MdnsProofs`) | `Spec => []NoStorm` |
| `TypesOfShims` (`P2PSocketsProofs`) | `Spec => []TypeOK` |
| `ShimNeverReopens` (`P2PSocketsProofs`) | `Spec => NeverReopens` |
| `OpenShimsAreRouted` (`P2PSocketsProofs`) | `Spec => []OpenShimRouted` |
| `ListMatchesMap` (`P2PSocketsProofs`) | `Spec => []PeersMatchMap` |
| `MessagesKeepOrder` (`P2PSocketsProofs`) | `Spec => []MessagesInOrder` |
| `EventsAreBalanced` (`P2PSocketsProofs`) | `Spec => []EventsBalance` |
| `VariableNotClosed` (`DiscoveryProofs`) | `Spec => []NotClosed` |
| `AloneGetsItsOwn` (`DiscoveryProofs`) | `Spec => []SocketOwn` |
| `TypesOfCalls` (`DiscoveryProofs`) | `Spec => []TypeOK` |
| `AnswersAreOwn` (`DiscoveryProofs`) | `Spec => []OwnAnswer` |
| `TypesAlways` (`AgentProofs`) | `Spec => []TypeOK` |
| `PlacesKeepTheirDevice` (`AgentProofs`) | `Spec => IndexNamesDevice` |
| `FailuresExplained` (`AgentProofs`) | `Spec => ErrorsExplained` |
| `VectorIsRegistry` (`AgentProofs`) | `Spec => []ListExact` |
| `VectorWithoutRepeats` (`AgentBluetoothProofs`) | `Spec => []TypeOK` |
| `OneChainEach` (`AgentBluetoothProofs`) | `Spec => []ChainsBounded` |
| `AnswersAreExplained` (`AgentBluetoothProofs`) | `Sensible` implies `Spec => AnswersExplained` |
| `AgentBluetoothTypes` (`AgentProofs`) | `AgentSpec => []BluetoothTypes` |
| `AgentChainsBounded` (`AgentProofs`) | `AgentSpec => []ChainsBounded` |
| `AgentAnswersExplained` (`AgentProofs`) | `AgentSpec => AnswersExplained` |
| `AgentVectorIsRegistry` (`AgentProofs`) | `AgentSpec => [](TypeOK /\ ListExact) /\ IndexNamesDevice /\ ErrorsExplained` |

The first two follow from `ListInvariant` (`Spec => []ListInv`).  Neither `TypeOK`
nor `ListsExact` is inductive: a store writes the header its goroutine loaded some
steps ago, so what a goroutine holds between its steps must be part of the
invariant.  `ListInv` therefore says, besides the types and the properties:

- `RoundsOK`: a header copied by a loop is still readable (arrays only grow,
  `GrowsKeepsHeaders`), the element at hand is of the list's kind,
  an index about to be cut is at least 1 and at most the loaded length;
- `FramesOK`, `DispatchOK`: the frame or message being handled fits the control
  point;
- `Fresh`: a connection that has not stored its append is not in `joined`;
- `AllPending`: as long as a list has no race, the header of a pending append
  or cut is the current one, a search has seen a prefix of the current list, and
  the index it found shows the id it looked for.  This is why a store without a
  race neither loses a connection nor removes the wrong one.

The proof has one lemma per action (`AcceptOK`, `AddPeerOK`, ..., `DispatchStepOK`),
each split by the four parts `MoveInv`, `StoreInv`, `QueueInv` and the types, and
lemmas shared by actions that only move one goroutine (`GotoMoves`, `TwoMoves`),
join a list (`JoinsOK`) or leave the lists alone.  Before them come lemmas on what
`append` and the removal do to the elements shown, to distinctness and to other
headers.  `InitOK` and `StepOK` combine them.

The others of `NamedWebSocketProofs` rest on further invariants, each of them
relative to those before; they say nothing of connections that share an id in one
list, which removal by id confuses.

**Panics** (`PanicInv`).  That a slice left its bounds only after a race is part of
`ListInv`.  For the others it is enough that a nil websocket comes of a failed
handshake, that nothing moves once the process has ended, and that a list without a
race that has length 0 holds nobody: `controllers[0]` was then missing because no
control was listed, and with `ListsExact` because none had joined and stayed.

**Broadcasts** (`GroupInv`).  The dispatcher works on the header it copied, while
members join behind it and others leave.  A header of a list without a race shows
the beginning of that list (`RoundSees`), because an append stores behind it and a
removal under a loop is what `race` records.  The parts are:

- `DispatchSees`: the dispatcher sees its list in that sense, holds the newest
  message of the log, and a message from a proxy never gets to the second loop;
- `PumpsOK`: a pump removes its own connection (a peer's pump also a control), its
  search has not passed a connection that is still listed, and who is past the removal
  is not listed.  Without it nothing says that a listed member has an open websocket;
- `Opened`: it has;
- `ReceiverOK`: a member was handed what it is owed of the log, up to the newest
  message if its turn in the loop has come or it has none, up to the one before
  otherwise (`Waiting`, `Handed`).

Steps are sorted once (`StepKinds`): those that touch neither lists nor channel
(`Calm`; one lemma per action), `Joins`, `CutStore`, and the dispatcher's three.  Only
the last five need the argument on `ReceiverOK` (`JoinsGroup`, `CutStoreGroup`,
`DispatchGroup`, `RoundGroup`).  `GroupFollows` then maps each kind to an action of
`BroadcastGroup`: a write to `Hand`, `Dispatch` to `Order` (that each member has been
served what came before is `ReceiverOK` at an idle dispatcher), an append to `Join`, the
store of a removal to `Leave`, an `Enqueue` to `Offer`, the rest to a stutter; a step
that makes a race breaks `sound`.  What the operator `Filter` does at each place is
proved without induction: `KeptExists` takes the least length for which its recursive
function would not exist, and `FilterAppend` follows from that.

**Announcements** (`RosterInv`).  Whether a watcher learns of a peer depends on two
loops, that of the peer over the watchers and that of the watcher over the peers, of
which either may have begun first:

- `LoopsSee`: `RoundSees` for every loop that announces or relays;
- `Announced`: a watcher knows a peer, or one of the two goroutines still has the other
  before it (`ToAnnounce`, `ToTell`, `ToCome`), or died of a panic.  Whoever appends
  second copies a header that shows the first, so one of the two always has;
- `Withdrawn`: of each local peer a watcher knows, there is a peer of that id that is
  listed or whose pump still comes past the watcher (`ToWithdraw`);
- `Served`: a pump begins when `addConnection` has ended, so "connect" and
  "disconnect" of one peer come in this order;
- `Informing`: what a proxy passes on from its far end names a peer of another host.

A "disconnect" from a far end takes a local peer of the same id from the controls
that know it, and nothing in the code sees to it that ids differ (clients draw them).
That is why `AllAnnounced` asks `Apart` of the watcher and the peer it speaks of: what
a far end says goes to controls only, and is about ids in `RemoteIds`.  The theorem
itself has no hypothesis, and `NobodyIsAGhost` does without `Apart` too.

**Peers of other hosts** (`RemoteInv`).  A control learns of a far end's peer in two
ways: its own `addConnection` goes through the map of each listed proxy, and the pump
of a proxy tells every listed control of a change it has made to its map.  Both are
loops over copied headers, and the map may grow and shrink under the first:

- `RemoteKnown`: a joined control knows what a joined proxy owns, or the proxy's pump
  still has that control before it with the "connect" (`ToInform`), or the control still
  has the proxy or the id before it (`ToLearn`: the places of the header to come, and of
  the map at hand what must still be met, since a range over a Go map meets every key
  that stays), or died;
- `Gone`: who is about to tell of a "disconnect" has taken the id out of its map;
- `Blank`: a proxy's map is empty before its pump begins.

A step either carries all this along (`RemoteGoesOn`, `RemoteCarried`: the pumps of
peers, the dispatcher, relays, one lemma per group) or is a round of one of the two
loops (`RemoteMove`), a change of the map, or an append or removal in the two lists.
The hypothesis `FarEndsApart` is about the hosts at the other ends: while one tells of
a departure, no other one owns that id.  It is a condition on the environment that this
module cannot see: a client is connected to one host, and by `LinksExact` of
`ProxyNetwork` (theorem `OneLinkEach`) a host is linked to another at most once.  The
hypothesis is needed: with two dialled proxies that own one id, the "disconnect" of one
takes the peer of the other from the controls, which TLC shows on such an instance;
with it `RemoteInv` holds there.

**Relays** (`RelayInv`): a relay has passed nobody with the id of its target.
`RelayOrKept` sorts the steps by what they do to one relay: its own round, its
beginning, or nothing; `RelayedStay` says that what it has yet to come to does not
move under it.  `RelayFinds` needs that the two controls do not share an id, for the
relay ends at the first.

`ProxyNetworkProofs`, for any hosts, clients, browse goroutines, sockets, restarts and
losses, from `HostsOfClients`, `Bounds`, `RoundsOfHosts`, `ActorsApart` (no two actors
have one name) and `NilIsNoSocket`.  A link is made at the end of a browse round that
began with a name, created perhaps a socket and waited for the far end's handler to do
the same; none of the properties remembers that.  `Inv` adds to `TypeOK` and
`LinksComplete`:

- `Control`, `Reached`: what a control point says of the actor at it, and that
  behind a browser that dials there is a handler on the host it dials;
- `Names`, `Numbered`: every name that goes round was made, and names are made in order;
- `SocketsLive`: nobody goes on with a socket of an earlier run of its proxy, which is
  what a restart must put an end to;
- `Linked`: a browser about to register a name has its link, unless one was lost,
  which makes `LinksComplete` inductive;
- `Unsplit`: without a split the newest socket of a host is its only living one,
  is what its map names and what everybody there uses, and links join no others;
- `Meshed`: without any cause a name is handled by one browser of a host at a time and
  never after it was registered, and a link comes with the one name it was made for.
  As the far host has one living socket, hence one name, there is one link.

There is one lemma per action (`RequestKeeps`, ..., `RestartKeeps`); `Kept` carries the
three parts on names and links over the actions that touch neither, and
`BrowserMoves` the others over the steps of one browser.

`P2PSocketsProofs`, from `BoundsAssumption`: a shim must not be opened by a timer
that outlived its close, and timers move when one before them fires.  `IInv` adds
to the types `OpenOnce` (of a shim at most one opening timer is pending) and
`OpenFirst` (while it is, the shim is connecting and no timer ends it, unless it
was closed early).  `Moved` in `SequenceFacts` says where each timer was before the
step; `Rearranged` carries the invariant along it.  For `OpenShimRouted` a shim
that left the map must be on its way to be closed: `Routed` says that each shim
is in the map, or displaced, or was closed before it opened, or is closing, or has a
timer pending that closes it.  The timer list may shrink, but only by the timer that
fires (`Remains`), and that one does the closing.

The other three theorems of that module take three more invariants:

- `PeersInv`: `PeersMatchMap` says that list and map know the same ids, but a step
  looks up a shim.  So the list holds a shim once and one of each id (`OneEach`), the
  map's entry is a shim of its id (`Entries`), and a shim in the list is the one in the
  map unless it was displaced (`Listed`).  `FilterParts` says what is left of the
  list after a "disconnect".
- `MessagesInv`: no number is from the future (`Numbers`), and of each shim that the
  messages it got come before those under way, which are set in order (`InOrder`).
  That the timer that fires has the first of them is the use of `Due`: no timer before
  it may have a delay as short, and all messages have the shortest (`EventOrdered`).
  `FireMoves` says of every place after the step where its timer was before it.
- `EventsInv`: the balance, of each id (`Balanced`).  `Ending` counts places of
  timers, and places move; the map from new places to old is one to one, so the
  number stays (`EndingFires`), is one less when the timer that fires was the last of a
  close, or one more when a timer is set at the end (`EndingGrows`).

`DiscoveryProofs`, from `NullAssumption`: `SocketInv` says that two living sockets are
both shared (`Together`), that one that is not is the variable's (`AloneHeld`), that
the variable's socket lives (`HoldsLiving`), and that a socket not yet open was
told nothing.  No action of the calls touches these variables (`CallKeeps`).

The other half of that module is about the requests (`HttpInv`).  jQuery keeps, per
request, the handler it found under its callback name, and puts it back at the end;
`Nest` says what that amounts to.  Take the requests of one function in the order
they were sent, leaving out those in `crossed`: each found the handler of the one
before it, and the newest has the name.  `crossed` is closed towards older requests
of its function, so the ones left out are always the older ones, and the end of the
newest puts the name where it belongs.  An older one that ends first sends all of
them to `crossed`, and the theorem is silent about those.  Sending adds at the end of
`wire` and an end removes one from it: `BeforeAppended` and `BeforeRemoved` say what
that does to the order of the others.  `NullAssumption` also keeps null apart from the
agent's answers.

`AgentProofs`, of the UPnP half, from `DevicesAssumption` (finitely many devices, none of them
null, an answer or a vector) and `BoundsAssumption`: the listing of a client that
was not warned is a beginning of the vector (`InPlace`, `Begins`).  Adding at the
end keeps that (`Grown`), everything else warns the clients (`Warned`); the copy
during the boot starts from an empty vector, when no client can have seen anything.
That `indexOf` has an answer is a use of the least element of a set of naturals
(`FirstPlace`).

That the vector ends up with the registry's devices (`VectorIsRegistry`) needs what
happens on the way, for a device in neither history variable (`ExactInv`).  While the
boot copies, what is copied and what is still to be copied are together the registry
(`Copied`).  With the listener added, the device has one callback at most (`OneTask`),
which knows what it found (`OnItsWay`): the one that will add or insert has it
missing from the vector, the one that will re-set has it there and a place within
the vector, the one that will remove is of a device that is gone.  The vector may
shrink under such a callback only by another's removal, and that is what `overlap`
records.  Without a callback vector and registry agree (`AtRest`), save for a device
whose description is being fetched.  `OthersInVector` says that the callback of one
device leaves the others where they were, `OwnStep` what it does to its own;
both rest on `OneMoreCounts`: an element more, wherever it is put, changes how often
that element stands there, and of no other.

`AgentBluetoothProofs`: a scan that will come is passed on from a broadcast to a
timer to a scan to the broadcast of its end, and nowhere is it doubled.  `ChainInv`
says so: the types, and that timers, waiting broadcasts of an end or a switch
(`Waiting`) and the scan are together within the budget.  Counting broadcasts needs
the cardinality of the places where one stands, under adding at the end and taking
the first (`CountAppend`, `CountTail`); `StartMakesOne` says that a start adds one
at most.  This part assumes nothing of the constants.  For the requests,
`ClientsInPlace` says of each client that its listing is a beginning of the vector
until that is cleared, and that what it has tested, that Bluetooth is on among it,
still holds unless it was warned (`moved`).  The vector grows at its end (`GrowsActs`) or is cleared, which warns
(`ClearActs`), as a switch does (`SwitchOffActs`).  The theorem assumes `Sensible`:
that `MaxRequests` is a number and no device is one of the words "none" and "error".
It is a hypothesis and no `ASSUME`, because `Agent` instantiates the module under a
prefix; `BluetoothAssumption` of `Agent` is that `ASSUME`.

The last section of `AgentProofs` is about the whole agent, in which the halves
interleave freely.  A step of one half leaves the other's variables alone, so a run of
the agent is a run of each (`AgentRunsUPnP`, `AgentRunsBluetooth`), and every theorem
about a half holds in the agent.  `AgentBluetoothProofs` is instantiated there with the
agent's names (`BP`); that its definitions are those of `Agent`'s own instance `B` is
stated action by action (`SameAndroid`, ..., `SameNext`), because the provers do not
compare two instances of one module.  This is also why `MCAgent` loses nothing by
letting one half move at a time.

`MdnsProofs`, from `NamesAssumption` (services, hosts, the type and null are apart,
services and sockets finite in number) and `BoundsAssumption`: a server keeps the
address it was born with (`Steady`), so it has one answer for good (`AnswerOf`,
`OneAnswer`), and whatever is on its way to the query is such an answer
(`IsAnswer` in `QueryInv`).  `AfterAnswer` says what its three or four records make of
the table one after the other: they end up in one entry, the one the service's name
stands for or a new one, and the A record finds that entry by the host's name because
the SRV record before it has just bound it, whatever service of that host had it
before.  So of each service heard there is one entry, with what its answer says
(`EntriesOK`, `TableOK`), sent if and only if there is an address.
`MessageLearnt` sums up the step, and the exactness of the entries follows from it.  The
recursion over the records (`After`) is unfolded for these lengths, once it is known
to have a solution (`PartlyExists`, by a least length without one).  For `NoStorm`,
`CountInv` adds to questions and entries sent what can still become one of them:
first questions, replies, messages in a goroutine's hands and in the channel
(`Spent`).  A first question reaches each socket of each server once at most
(`FirstsBound`); from then on every step moves one unit on or loses it, because a
question for a name has no answer.

All these invariants were also checked by TLC, on the instances of the runs or, for
`ProxyNetwork`, on three of that size: two browsers that overlap, restarts of either
host, lost links, and the path of `main` as well as another; `RelayInv` also with two
controls.  That is how the hypotheses on ids and races got into them.

Only model-checked is liveness (`MeshForms`, `BufferDrains`, `TeardownEnds`,
`GoroutinesEnd`, `DeparturesTold`, `Settles`, `DeviceAppears`, `ScansGoOn`): the prover
does not handle fairness and `ENABLED`.  Every invariant and every action property of a
passing run is a theorem.  `FairSpec` of each module implies its `Spec`, and so does
`HalfSpec` of `MCAgent` imply `AgentSpec`, so the theorems are about what the runs check.

## Not modelled, and the plan

Not modelled:

- the console page and its templates: generated data, no state;
- the parsing of URLs and peer ids (`service.go:18`: an id has four digits or
  more, and the JavaScript client draws one that may be shorter), JSON, XML, the
  packing of DNS messages: formats, about which no property here speaks;
- writes of several goroutines to one websocket, and the tearing of maps and
  slice headers by data races, whose outcomes the libraries do not define;
- in the Discovery API the setters, `sendInfo` and the DOM and XML handling;
- in the agent: the sensors and capabilities, which are calls of the platform,
  notifications, and the end of the services;
- samples, assets and third-party libraries, which are most of the lines of the
  repository: a map that covers all of the program's own code would still be a
  small share of them.

Next, in this order:

1. One writer per websocket (gorilla `doc.go:100`): a write in two steps, and which
   pairs of goroutines may be inside one.
2. The inside of a socket and the links between sockets in one module, in which
   `FarEndsApart` would follow from `LinksExact` and the frames the far ends send.

Twelve runs are kept, so that all of them stay quick to repeat: a new module
makes room by merging runs that one instance can answer.
