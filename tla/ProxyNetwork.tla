---------------------------- MODULE ProxyNetwork ----------------------------
(***************************************************************************)
(* The proxies of a local network and one network path (service.go,        *)
(* discovery.go, run.go): how the named websocket of the path comes to be  *)
(* on a host, is advertised, found by the other hosts and linked to theirs.*)
(* Nothing guards the maps of a service, so a step is what one goroutine   *)
(* does between two accesses to them:                                      *)
(*   - main, which on the path of run.go makes a socket without asking;    *)
(*   - one HTTP handler per client and per proxy that dials in             *)
(*     (serveWSCreator);                                                   *)
(*   - the advertise goroutine of a socket;                                *)
(*   - the browse goroutines, each of which may outlive its round.         *)
(* What a socket does with its connections is module NamedWebSocket.       *)
(***************************************************************************)
EXTENDS Naturals, FiniteSets

CONSTANTS
  Hosts,
  Clients, Host,   \* Host[c]: the host whose proxy client c uses
  Own,             \* TRUE if the path is the one main makes a socket for
  Rounds,          \* bound: Rounds[h] are the browse goroutines h has at once
  MaxSockets,      \* bound: sockets a host makes
  MaxRestarts,     \* bound: MaxRestarts[h] restarts of h
  MaxLosses,       \* bound: links lost for other reasons
  Nil

ASSUME HostsOfClients == Host \in [Clients -> Hosts]
ASSUME Bounds == MaxSockets \in Nat /\ MaxRestarts \in [Hosts -> Nat] /\ MaxLosses \in Nat
ASSUME OwnIsBoolean == Own \in BOOLEAN
ASSUME RoundsOfHosts == DOMAIN Rounds = Hosts /\ \A h \in Hosts : Nil \notin Rounds[h]
\* No two actors have one name.
ASSUME ActorsApart == /\ {"main", "dialled"} \cap Clients = {}
                      /\ \A h \in Hosts : Rounds[h] \cap (Clients \cup {"main", "dialled"}) = {}

\* A NamedWebSocket of the path; its service name "channel[random]" is unique,
\* so the socket stands for the name as well.
Socket == Hosts \X (1..MaxSockets)
ASSUME NilIsNoSocket == Nil \notin Socket
Seekers == { h \in Hosts : Rounds[h] # {} }

Mains == Hosts \X {"main"}
Requests == { <<Host[c], c>> : c \in Clients }
Browsers == { b \in Hosts \X UNION { Rounds[h] : h \in Hosts } : b[2] \in Rounds[b[1]] }
\* The handler that serves what browser b dials.
Handlers == { <<b, "dialled">> : b \in Browsers }
Actors == Mains \cup Requests \cup Browsers \cup Handlers

VARIABLES
  pc, sock,    \* control point of every actor and the socket it works with
  current,     \* current[h]: service.namedWebSockets[path], or Nil
  made,        \* sockets a host has made
  advert,      \* advertisement of a socket: none, starting, published, marked, gone
  registered,  \* service.registeredServiceNames
  query,       \* query[h]: the round whose mdns.Query is running, or Nil
  entries,     \* entries[b]: the channel of a round
  sent,        \* sent[b]: the names the query of a round has delivered
  name,        \* name[b]: the entry a browser is handling
  links        \* links[<<near, far>>]: connections near's host has dialled to far

\* History.
VARIABLES
  causes,      \* what went wrong: see Causes
  restarts, losses

map == <<current, made, advert>>
browse == <<query, entries, sent, name>>
history == <<causes, restarts, losses>>
vars == <<pc, sock, map, browse, registered, links, history>>

\* split: a host made two sockets for the path; overlap: two rounds of a host
\* handled one name at once; stale: a name was dialled after its proxy had
\* restarted.
Causes == {"split", "overlap", "stale"}

Published(s) == advert[s] \in {"published", "marked"}

\* The host an actor runs on; a handler starts out with the name it was
\* dialled by, and ends with a socket of the same host.
Place(a) == IF a \in Handlers THEN sock[a][1] ELSE a[1]

Goto(a, label) == pc' = [pc EXCEPT ![a] = label]

\* Browser b is done with the name it handled.
Done(b) == /\ name' = [name EXCEPT ![b] = Nil]
           /\ Goto(b, "select")
At(a, label) == pc[a] = label

----------------------------------------------------------------------------
(* The map of sockets (serveWSCreator, the browse goroutine, main).        *)

\* A request for the path arrives.
Request(a) ==
  /\ a \in Requests
  /\ At(a, "new")
  /\ Goto(a, "resolve")
  /\ UNCHANGED <<sock, map, browse, registered, links, history>>

\* Mutant: the socket is used without asking whether there is one.
ResolveUnchecked(a) ==
  /\ At(a, "resolve")
  /\ sock' = [sock EXCEPT ![a] = current[Place(a)]]
  /\ Goto(a, "use")
  /\ UNCHANGED <<map, browse, registered, links, history>>

Resolve(a) ==
  /\ At(a, "resolve")
  /\ IF current[Place(a)] = Nil
       THEN Goto(a, "create") /\ UNCHANGED sock
       ELSE Goto(a, "use") /\ sock' = [sock EXCEPT ![a] = current[Place(a)]]
  /\ UNCHANGED <<map, browse, registered, links, history>>

\* NewNamedWebSocket: the advertise goroutine of the socket starts.
Create(a) ==
  LET h == Place(a)
      s == <<h, made[h] + 1>>
  IN /\ At(a, "create")
     /\ made[h] < MaxSockets
     /\ made' = [made EXCEPT ![h] = @ + 1]
     /\ advert' = [advert EXCEPT ![s] = "starting"]
     /\ sock' = [sock EXCEPT ![a] = s]
     /\ causes' = IF made[h] > 0 /\ \E n \in 1..made[h] : advert[<<h, n>>] # "gone"
                    THEN causes \cup {"split"} ELSE causes
     /\ Goto(a, "store")
     /\ UNCHANGED <<current, browse, registered, links, restarts, losses>>

\* Mutant: the new socket is not entered in the map.
StoreSocketForgotten(a) ==
  /\ At(a, "store")
  /\ Goto(a, "use")
  /\ UNCHANGED <<sock, map, browse, registered, links, history>>

StoreSocket(a) ==
  /\ At(a, "store")
  /\ current' = [current EXCEPT ![Place(a)] = sock[a]]
  /\ Goto(a, "use")
  /\ UNCHANGED <<sock, made, advert, browse, registered, links, history>>

\* The client's peer or control is added to the socket it resolved.
Join(a) ==
  /\ a \in Requests
  /\ At(a, "use")
  /\ Goto(a, "joined")
  /\ UNCHANGED <<sock, map, browse, registered, links, history>>

\* Register: the mDNS server answers before the name is marked as our own.
Publish(s) ==
  /\ advert[s] = "starting"
  /\ advert' = [advert EXCEPT ![s] = "published"]
  /\ UNCHANGED <<pc, sock, current, made, browse, registered, links, history>>

MarkOwn(s) ==
  /\ advert[s] = "published"
  /\ advert' = [advert EXCEPT ![s] = "marked"]
  /\ UNCHANGED <<pc, sock, current, made, browse, registered, links, history>>

----------------------------------------------------------------------------
(* Browse.                                                                 *)

\* Mutant: Browse is called once instead of in a loop.
StartRoundOnce(b) ==
  LET h == b[1] IN
  /\ pc[<<h, "main">>] = "use"
  /\ query[h] = Nil
  /\ query' = [query EXCEPT ![h] = b[2]]
  /\ Goto(b, "select")
  /\ UNCHANGED <<sock, map, entries, sent, name, registered, links, history>>

\* "for !discoveryServer.closed { discoveryServer.Browse(service) }": main, once
\* it has its socket, starts a round as soon as the last query has timed out.
StartRound(b) ==
  LET h == b[1] IN
  /\ pc[<<h, "main">>] = "use"
  /\ At(b, "idle")
  /\ query' = [query EXCEPT ![h] = b[2]]
  /\ Goto(b, "select")
  /\ UNCHANGED <<sock, map, entries, sent, name, registered, links, history>>

\* Mutant: names that were discovered before are not ignored.
KnownForgets(h, s) == s[1] = h /\ advert[s] = "marked"

\* "Ignore our own", "Ignore previously discovered".
Known(h, s) == s \in registered[h] \/ (s[1] = h /\ advert[s] = "marked")

\* mdns.Query passes a name on once its entry is complete, at most once per round;
\* how packets fill the table of entries is left out.  A name that is known
\* already would be ignored whenever it is taken, so it is not passed on here.
Answer(b, s) ==
  /\ query[b[1]] = b[2]
  /\ pc[b] # "idle"
  /\ Published(s)
  /\ ~Known(b[1], s)
  /\ s \notin sent[b]
  /\ sent' = [sent EXCEPT ![b] = @ \cup {s}]
  /\ entries' = [entries EXCEPT ![b] = @ \cup {s}]
  /\ UNCHANGED <<pc, sock, map, query, name, registered, links, history>>

\* Mutant: a name counts as registered before it is dialled.
TakeRegisters(b, s) ==
  /\ At(b, "select")
  /\ s \in entries[b]
  /\ entries' = [entries EXCEPT ![b] = @ \ {s}]
  /\ IF Known(b[1], s)
       THEN UNCHANGED <<pc, name, causes, registered>>
       ELSE /\ Goto(b, "resolve")
            /\ name' = [name EXCEPT ![b] = s]
            /\ registered' = [registered EXCEPT ![b[1]] = @ \cup {s}]
            /\ causes' = causes
  /\ UNCHANGED <<sock, map, query, sent, links, restarts, losses>>

Take(b, s) ==
  /\ At(b, "select")
  /\ s \in entries[b]
  /\ entries' = [entries EXCEPT ![b] = @ \ {s}]
  /\ IF Known(b[1], s)
       THEN UNCHANGED <<pc, name, causes>>
       ELSE /\ Goto(b, "resolve")
            /\ name' = [name EXCEPT ![b] = s]
            /\ causes' = IF \E o \in Browsers \ {b} :
                              o[1] = b[1] /\ name[o] = s /\ pc[o] \notin {"idle", "select"}
                           THEN causes \cup {"overlap"} ELSE causes
  /\ UNCHANGED <<sock, map, query, sent, registered, links, restarts, losses>>

\* The dial reaches the host of the name, where a handler takes it on.
Dial(b) ==
  /\ At(b, "use")
  /\ At(<<b, "dialled">>, "idle")
  /\ pc' = [pc EXCEPT ![b] = "dialling", ![<<b, "dialled">>] = "resolve"]
  /\ sock' = [sock EXCEPT ![<<b, "dialled">>] = name[b]]
  /\ UNCHANGED <<map, browse, registered, links, history>>

\* None of the addresses answers: the name stays open for the next round.
DialFails(b) ==
  /\ At(b, "use")
  /\ Done(b)
  /\ sock' = [sock EXCEPT ![b] = Nil]
  /\ UNCHANGED <<map, query, entries, sent, registered, links, history>>

\* The handler upgrades the connection; both ends add their proxy.
Upgrade(b) ==
  LET g == <<b, "dialled">>
      s == name[b]
  IN /\ At(g, "use")
     /\ IF At(b, "dialling")
          THEN /\ pc' = [pc EXCEPT ![b] = "register", ![g] = "idle"]
               /\ links' = [links EXCEPT ![<<sock[b], sock[g]>>] = @ + 1]
               /\ causes' = IF advert[s] = "gone" THEN causes \cup {"stale"} ELSE causes
               /\ sock' = [sock EXCEPT ![b] = Nil, ![g] = Nil]
          ELSE /\ Goto(g, "idle")
               /\ sock' = [sock EXCEPT ![g] = Nil]
               /\ UNCHANGED <<links, causes>>
     /\ UNCHANGED <<map, browse, registered, restarts, losses>>

Register(b) ==
  /\ At(b, "register")
  /\ registered' = [registered EXCEPT ![b[1]] = @ \cup {name[b]}]
  /\ Done(b)
  /\ UNCHANGED <<sock, map, query, entries, sent, links, history>>

\* The timer of the round fires.
EndRound(b) ==
  /\ At(b, "select")
  /\ Goto(b, "idle")
  /\ entries' = [entries EXCEPT ![b] = {}]
  /\ sent' = [sent EXCEPT ![b] = {}]
  /\ UNCHANGED <<sock, map, query, name, registered, links, history>>

\* Where an actor begins when its proxy starts.
Start(a) == IF a \in Mains THEN (IF Own THEN "create" ELSE "use")
            ELSE IF a \in Requests THEN "new" ELSE "idle"

----------------------------------------------------------------------------
(* Failures.                                                               *)

\* A connection between two proxies breaks: both ends remove their proxy.
LoseLink(p) ==
  /\ links[p] > 0
  /\ losses < MaxLosses
  /\ losses' = losses + 1
  /\ links' = [links EXCEPT ![p] = @ - 1]
  /\ UNCHANGED <<pc, sock, map, browse, registered, causes, restarts>>

\* The proxy of h ends and is started again: it keeps nothing.  Its clients
\* will connect anew, and dials it was answering fail.
Restart(h) ==
  LET ends == { a \in Actors : ~(a \in Handlers /\ At(a, "idle")) /\ Place(a) = h }
      cutOff == { b \in Browsers : At(b, "dialling") /\ <<b, "dialled">> \in ends } \ ends
  IN /\ restarts[h] < MaxRestarts[h]
     /\ restarts' = [restarts EXCEPT ![h] = @ + 1]
     /\ pc' = [a \in Actors |-> IF a \in ends THEN Start(a)
                                ELSE IF a \in cutOff THEN "select" ELSE pc[a]]
     /\ sock' = [a \in Actors |-> IF a \in ends \cup cutOff THEN Nil ELSE sock[a]]
     /\ name' = [b \in Browsers |-> IF b \in ends \cup cutOff THEN Nil ELSE name[b]]
     /\ entries' = [b \in Browsers |-> IF b \in ends THEN {} ELSE entries[b]]
     /\ sent' = [b \in Browsers |-> IF b \in ends THEN {} ELSE sent[b]]
     /\ current' = [current EXCEPT ![h] = Nil]
     /\ advert' = [s \in Socket |-> IF s[1] = h /\ advert[s] # "none" THEN "gone" ELSE advert[s]]
     /\ registered' = [registered EXCEPT ![h] = {}]
     /\ query' = [query EXCEPT ![h] = Nil]
     /\ links' = [p \in Socket \X Socket |-> IF h \in {p[1][1], p[2][1]} THEN 0 ELSE links[p]]
     /\ UNCHANGED <<made, causes, losses>>

----------------------------------------------------------------------------
Init ==
  /\ pc = [a \in Actors |-> Start(a)]
  /\ sock = [a \in Actors |-> Nil]
  /\ current = [h \in Hosts |-> Nil]
  /\ made = [h \in Hosts |-> 0]
  /\ advert = [s \in Socket |-> "none"]
  /\ registered = [h \in Hosts |-> {}]
  /\ query = [h \in Hosts |-> Nil]
  /\ entries = [b \in Browsers |-> {}]
  /\ sent = [b \in Browsers |-> {}]
  /\ name = [b \in Browsers |-> Nil]
  /\ links = [p \in Socket \X Socket |-> 0]
  /\ causes = {}
  /\ restarts = [h \in Hosts |-> 0]
  /\ losses = 0

UseMap(a) == Resolve(a) \/ Create(a) \/ StoreSocket(a) \/ Join(a)
Advertise(s) == Publish(s) \/ MarkOwn(s)
Handles(b) == Dial(b) \/ DialFails(b) \/ Upgrade(b) \/ Register(b)
Browsing(b) == StartRound(b) \/ EndRound(b) \/ Handles(b)

Next ==
  \/ \E a \in Actors : UseMap(a)
  \/ \E a \in Requests : Request(a)
  \/ \E s \in Socket : Advertise(s)
  \/ \E b \in Browsers : Browsing(b)
  \/ \E b \in Browsers, s \in Socket : Answer(b, s) \/ Take(b, s)
  \/ \E p \in Socket \X Socket : LoseLink(p)
  \/ \E h \in Hosts : Restart(h)

Spec == Init /\ [][Next]_vars

\* Goroutines run, timers fire; a host that keeps asking is answered and a
\* host that keeps dialling gets through some time.
Fairness ==
  /\ \A a \in Actors : WF_vars(UseMap(a))
  /\ \A s \in Socket : WF_vars(Advertise(s))
  /\ \A b \in Browsers :
       /\ WF_vars(EndRound(b)) /\ WF_vars(Dial(b) \/ DialFails(b))
       /\ WF_vars(Upgrade(b)) /\ WF_vars(Register(b))
  /\ \A h \in Seekers : WF_vars(\E r \in Rounds[h] : StartRound(<<h, r>>))
  /\ \A h \in Seekers : \A s \in { t \in Socket : t[1] # h } :
       /\ SF_vars(\E r \in Rounds[h] : Answer(<<h, r>>, s))
       /\ SF_vars(\E r \in Rounds[h] : Take(<<h, r>>, s))
       /\ SF_vars(\E r \in Rounds[h] : name[<<h, r>>] = s /\ Dial(<<h, r>>))

FairSpec == Spec /\ Fairness

----------------------------------------------------------------------------
(* Properties.                                                             *)

Labels == {"new", "resolve", "create", "store", "use", "joined",
           "idle", "select", "dialling", "register"}

\* Every variable stays in its type, and whoever goes on with a socket has one
\* (service.go:160-175, discovery.go:158-162).
TypeOK ==
  /\ pc \in [Actors -> Labels] /\ sock \in [Actors -> Socket \cup {Nil}]
  /\ current \in [Hosts -> Socket \cup {Nil}]
  /\ made \in [Hosts -> 0..MaxSockets]
  /\ advert \in [Socket -> {"none", "starting", "published", "marked", "gone"}]
  /\ registered \in [Hosts -> SUBSET Socket]
  /\ \A h \in Hosts : query[h] \in Rounds[h] \cup {Nil}
  /\ entries \in [Browsers -> SUBSET Socket] /\ sent \in [Browsers -> SUBSET Socket]
  /\ name \in [Browsers -> Socket \cup {Nil}]
  /\ links \in [Socket \X Socket -> Nat]
  /\ causes \subseteq Causes
  /\ \A h \in Hosts : restarts[h] \in 0..MaxRestarts[h]
  /\ losses \in 0..MaxLosses
  /\ \A a \in Actors \ Mains : pc[a] \in {"store", "use", "joined", "dialling"} => sock[a] # Nil

\* The links over which host a hears host b.
Hears(a, b) == { p \in Socket \X Socket : p[1][1] = a /\ p[2][1] = b /\ links[p] > 0 }

\* discovery.go:127-195, service.go:160-164: host a hears host b over at most
\* one link, between the sockets the clients of both use, so that a broadcast
\* of b reaches the clients of a once; only a split, an overlap or a stale
\* name can change that.
LinksExact ==
  causes = {} =>
    \A a, b \in Hosts : a # b =>
      /\ Hears(a, b) \subseteq {<<current[a], current[b]>>}
      /\ \A p \in Hears(a, b) : links[p] = 1

\* discovery.go:178-193: a name is written off only once there is a link to its
\* host, so a proxy that could not be reached is tried in the next round, and
\* as long as no connection breaks nobody is left out.
LinksComplete ==
  losses = 0 =>
    \A h \in Hosts : \A s \in registered[h] : advert[s] # "gone" => Hears(h, s[1]) # {}

\* service.go:160-164: without a split the clients of a host meet in the one
\* socket that is advertised.
ClientsTogether ==
  "split" \notin causes =>
    \A a \in Requests : At(a, "joined") => sock[a] = current[a[1]]

\* discovery.go:83-208: whatever is lost in between, a name that stays
\* advertised is in the end found and connected to by every other host.
MeshForms ==
  \A h \in Seekers, s \in Socket :
    h # s[1] => (Published(s) ~> (s \in registered[h] \/ advert[s] = "gone"))

----------------------------------------------------------------------------
(* What the documents say without a proviso; a run refutes it.             *)

\* namedwebsockets/README.md:84 "When any other client connects to a `local` or
\* `network` websocket endpoint named `myChannelName` then your websocket
\* connections will be automatically linked to one another": the clients of
\* one host share a socket.  Main replaces the one made for an early client.
ChannelShared ==
  \A a, b \in Requests : At(a, "joined") /\ At(b, "joined") /\ a[1] = b[1] => sock[a] = sock[b]

=============================================================================
