------------------------- MODULE ProxyNetworkProofs -------------------------
(***************************************************************************)
(* The safety properties of ProxyNetwork, for any number of hosts, clients,*)
(* browse goroutines, sockets, restarts and losses.  Inv ties what an      *)
(* actor holds to its control point, a socket in use to its advertisement, *)
(* and a link to the browse round that made it.                            *)
(***************************************************************************)
EXTENDS ProxyNetwork, TLAPS

\* The socket's proxy runs and answers for it, or is about to.
Lives(s) == advert[s] \notin {"none", "gone"}

\* A browser that handles a name; an actor that has a socket of its own host.
Handling(b) == pc[b] \notin {"idle", "select"}
Holds(a) == pc[a] \in {"store", "use", "joined", "dialling"} /\ sock[a] # Nil
Uses(a)  == pc[a] \in {"use", "joined", "dialling"} /\ sock[a] # Nil

Types == /\ TypeOK
         /\ query \in [Hosts -> (UNION { Rounds[h] : h \in Hosts }) \cup {Nil}]
         /\ restarts \in [Hosts -> Nat]

\* What the control point of an actor says of it.
Control ==
  /\ \A a \in Mains : pc[a] \in {"create", "store", "use"}
  /\ \A a \in Requests : pc[a] \in {"new", "resolve", "create", "store", "use", "joined"}
  /\ \A g \in Handlers : /\ pc[g] \in {"idle", "resolve", "create", "store", "use"}
                         /\ pc[g] # "idle" => sock[g] # Nil
  /\ \A b \in Browsers : /\ pc[b] \in {"idle", "select", "resolve", "create", "store",
                                       "use", "dialling", "register"}
                         /\ Handling(b) => name[b] # Nil
  /\ \A a \in Actors : pc[a] = "store" => sock[a] # Nil

\* A browser that dials is being served on the host of its name.
Reached == \A b \in Browsers : At(b, "dialling") =>
             pc[<<b, "dialled">>] # "idle" /\ sock[<<b, "dialled">>][1] = name[b][1]

\* A name that goes round belongs to a socket that was made.
Names == /\ \A b \in Browsers : /\ name[b] # Nil => advert[name[b]] # "none"
                                /\ \A s \in entries[b] : advert[s] # "none"
         /\ \A h \in Hosts : \A s \in registered[h] : advert[s] # "none"
Numbered == \A s \in Socket : advert[s] = "none" <=> s[2] > made[s[1]]

\* Nobody goes on with a socket of an earlier run of its proxy.
SocketsLive == /\ \A a \in Actors : Holds(a) => Lives(sock[a]) /\ (a \notin Handlers => sock[a][1] = a[1])
               /\ \A h \in Hosts : current[h] # Nil => Lives(current[h]) /\ current[h][1] = h

\* A name about to be registered has its link, unless one was lost.
Linked == losses = 0 =>
            \A b \in Browsers : At(b, "register") /\ advert[name[b]] # "gone" =>
              Hears(b[1], name[b][1]) # {}

\* Without a split a host has one living socket, and that is in use and linked.
Unsplit == "split" \notin causes =>
             /\ \A s \in Socket : Lives(s) => s[2] = made[s[1]]
             /\ \A a \in Actors : Uses(a) => current[sock[a][1]] = sock[a]
             /\ \A p \in Socket \X Socket : links[p] > 0 =>
                  p[1] = current[p[1][1]] /\ p[2] = current[p[2][1]]

\* Browser b is about to register the name s, or its host has.
Knows(a, s) == s \in registered[a] \/ \E b \in Browsers : b[1] = a /\ At(b, "register") /\ name[b] = s

\* Without any cause a name is handled by one browser of a host, not twice, and
\* a link comes with the name it was made for.
Meshed == causes = {} =>
            /\ \A b \in Browsers : Handling(b) => name[b] \notin registered[b[1]]
            /\ \A b, o \in Browsers : Handling(b) /\ Handling(o) /\ b[1] = o[1] /\ name[b] = name[o] => b = o
            /\ \A p \in Socket \X Socket : links[p] > 0 /\ p[1][1] # p[2][1] =>
                 /\ links[p] = 1
                 /\ \E s \in Socket : s[1] = p[2][1] /\ Lives(s) /\ Knows(p[1][1], s)

Inv == /\ Types /\ Control /\ Reached /\ Names /\ Numbered /\ SocketsLive
       /\ Linked /\ LinksComplete /\ Unsplit /\ Meshed

----------------------------------------------------------------------------
(* Actors, and steps that leave names and links alone.                     *)

\* The kinds of actors share no actor, and everybody runs on a host.
LEMMA Kinds ==
  /\ Mains \cap Requests = {} /\ Mains \cap Browsers = {} /\ Mains \cap Handlers = {}
  /\ Requests \cap Browsers = {} /\ Requests \cap Handlers = {} /\ Browsers \cap Handlers = {}
  /\ \A a \in Mains \cup Requests \cup Browsers : a[1] \in Hosts
  /\ \A b \in Browsers : /\ <<b, "dialled">> \in Handlers /\ <<b[1], "main">> \in Mains
                         /\ b = <<b[1], b[2]>> /\ b[2] \in Rounds[b[1]] /\ b[2] # Nil
<1>1. /\ \A a \in Mains : a[2] = "main" /\ a[1] \in Hosts
      /\ \A a \in Requests : a[2] \in Clients /\ a[1] \in Hosts
      /\ \A a \in Handlers : a[2] = "dialled"
      /\ \A b \in Browsers : b[1] \in Hosts /\ b[2] \in Rounds[b[1]] /\ b = <<b[1], b[2]>>
  BY HostsOfClients DEF Mains, Requests, Handlers, Browsers
<1>2. /\ "main" \notin Clients /\ "dialled" \notin Clients
      /\ \A h \in Hosts : \A r \in Rounds[h] : r \notin Clients /\ r # "main" /\ r # "dialled" /\ r # Nil
  BY ActorsApart, RoundsOfHosts
<1>3. \A b \in Browsers : <<b, "dialled">> \in Handlers /\ <<b[1], "main">> \in Mains
  BY <1>1 DEF Handlers, Mains
<1> QED BY <1>1, <1>2, <1>3

\* A name that was made stays made, and lives on unless its host restarts.
SameLives == \A s \in Socket : advert[s] # "none" =>
               advert'[s] # "none" /\ (advert'[s] = "gone" <=> advert[s] = "gone")

\* A step that neither ends nor begins the handling of a name.
SameRounds == \A b \in Browsers : (Handling(b)' <=> Handling(b)) /\ (At(b, "register")' <=> At(b, "register"))

\* Such a step disturbs nothing that is said of names and links.
LEMMA Kept ==
  ASSUME Inv, UNCHANGED <<name, registered, links, losses>>, causes \subseteq causes', SameLives, SameRounds
  PROVE  Linked' /\ LinksComplete' /\ Meshed'
<1>0. /\ name' = name /\ registered' = registered /\ links' = links /\ losses' = losses
      /\ registered \in [Hosts -> SUBSET Socket] /\ name \in [Browsers -> Socket \cup {Nil}]
      /\ links \in [Socket \X Socket -> Nat]
  BY DEF Inv, Types, TypeOK
<1>1. \A b \in Browsers : Handling(b) => name[b] \in Socket /\ name[b] # Nil /\ advert[name[b]] # "none"
  BY <1>0 DEF Inv, Control, Names
<1>2. \A h \in Hosts : \A s \in registered[h] : s \in Socket /\ advert[s] # "none"
  BY <1>0 DEF Inv, Names
<1>3. Linked'
  <2>1. ASSUME losses = 0, NEW b \in Browsers, At(b, "register")', advert'[name[b]] # "gone"
        PROVE  Hears(b[1], name[b][1]) # {}
    <3>1. At(b, "register") /\ Handling(b)
      BY <2>1 DEF SameRounds, At, Handling
    <3>2. advert[name[b]] # "gone"
      BY <1>1, <2>1, <3>1 DEF SameLives
    <3> QED BY <2>1, <3>1, <3>2 DEF Inv, Linked
  <2> QED BY <1>0, <2>1 DEF Linked, Hears
<1>4. LinksComplete'
  BY <1>0, <1>2 DEF Inv, LinksComplete, SameLives, Hears
<1>5. Meshed'
  <2> SUFFICES ASSUME causes' = {} PROVE Meshed'
    BY DEF Meshed
  <2>0. causes = {}
    OBVIOUS
  <2>1. \A b \in Browsers : Handling(b)' => name'[b] \notin registered'[b[1]]
    BY <1>0, <2>0 DEF Inv, Meshed, SameRounds
  <2>2. \A b, o \in Browsers : Handling(b)' /\ Handling(o)' /\ b[1] = o[1] /\ name'[b] = name'[o] => b = o
    BY <1>0, <2>0 DEF Inv, Meshed, SameRounds
  <2>3. ASSUME NEW p \in Socket \X Socket, links[p] > 0, p[1][1] # p[2][1]
        PROVE  links[p] = 1 /\ \E s \in Socket : s[1] = p[2][1] /\ Lives(s)' /\ Knows(p[1][1], s)'
    <3>1. links[p] = 1
      BY <2>0, <2>3 DEF Inv, Meshed
    <3>2. PICK s \in Socket : s[1] = p[2][1] /\ Lives(s) /\ Knows(p[1][1], s)
      BY <2>0, <2>3 DEF Inv, Meshed
    <3>3. Lives(s)'
      BY <3>2 DEF Lives, SameLives
    <3>4. Knows(p[1][1], s)'
      BY <1>0, <3>2 DEF Knows, SameRounds
    <3> QED BY <3>1, <3>2, <3>3, <3>4
  <2> QED BY <1>0, <2>1, <2>2, <2>3 DEF Meshed
<1> QED BY <1>3, <1>4, <1>5

\* In the beginning nobody has anything.
LEMMA InitInv == Init => Inv
<1> SUFFICES ASSUME Init PROVE Inv
  OBVIOUS
<1>0. /\ pc = [a \in Actors |-> Start(a)] /\ sock = [a \in Actors |-> Nil]
      /\ current = [h \in Hosts |-> Nil] /\ made = [h \in Hosts |-> 0]
      /\ advert = [s \in Socket |-> "none"] /\ registered = [h \in Hosts |-> {}]
      /\ query = [h \in Hosts |-> Nil] /\ entries = [b \in Browsers |-> {}]
      /\ sent = [b \in Browsers |-> {}] /\ name = [b \in Browsers |-> Nil]
      /\ links = [p \in Socket \X Socket |-> 0] /\ causes = {}
      /\ restarts = [h \in Hosts |-> 0] /\ losses = 0
  BY DEF Init
<1>1. /\ \A a \in Mains : pc[a] \in {"create", "use"}
      /\ \A a \in Requests : pc[a] = "new"
      /\ \A a \in Handlers \cup Browsers : pc[a] = "idle"
      /\ \A a \in Actors : pc[a] \in {"create", "use", "new", "idle"} /\ sock[a] = Nil
  BY <1>0, Kinds DEF Start, Actors
<1>2. Types
  <2>1. \A h \in Hosts : 0 \in 0..MaxSockets /\ 0 \in 0..MaxRestarts[h]
    BY Bounds
  <2>2. 0 \in 0..MaxLosses
    BY Bounds
  <2>3. pc \in [Actors -> Labels]
    BY <1>0, <1>1 DEF Labels
  <2>4. \A a \in Actors \ Mains : pc[a] \in {"new", "idle"}
    BY <1>1 DEF Actors
  <2>5. /\ sock \in [Actors -> Socket \cup {Nil}] /\ current \in [Hosts -> Socket \cup {Nil}]
        /\ made \in [Hosts -> 0..MaxSockets]
        /\ advert \in [Socket -> {"none", "starting", "published", "marked", "gone"}]
        /\ registered \in [Hosts -> SUBSET Socket]
        /\ query \in [Hosts -> (UNION { Rounds[h] : h \in Hosts }) \cup {Nil}]
        /\ restarts \in [Hosts -> Nat]
    BY <1>0, <2>1
  <2>6. /\ entries \in [Browsers -> SUBSET Socket] /\ sent \in [Browsers -> SUBSET Socket]
        /\ name \in [Browsers -> Socket \cup {Nil}] /\ links \in [Socket \X Socket -> Nat]
        /\ causes \subseteq Causes /\ losses \in 0..MaxLosses
    BY <1>0, <2>2
  <2>7. \A h \in Hosts : query[h] \in Rounds[h] \cup {Nil} /\ restarts[h] \in 0..MaxRestarts[h]
    BY <1>0, <2>1
  <2> QED BY <2>3, <2>4, <2>5, <2>6, <2>7 DEF Types, TypeOK
<1>3. Control
  BY <1>0, <1>1 DEF Control, Handling
<1>4. Reached /\ Names /\ SocketsLive
  BY <1>0, <1>1, Kinds DEF Reached, Names, SocketsLive, Holds, Uses, Actors, At
<1>5. Numbered
  BY <1>0 DEF Numbered, Socket
<1>6. Linked /\ LinksComplete
  BY <1>0, <1>1 DEF Linked, LinksComplete, At
<1>7. Unsplit /\ Meshed
  BY <1>0, <1>1 DEF Unsplit, Meshed, Lives, Handling, Uses
<1> QED BY <1>2, <1>3, <1>4, <1>5, <1>6, <1>7 DEF Inv

\* An actor that is under way has a host.
LEMMA PlaceIsHost ==
  ASSUME Inv, NEW a \in Actors, pc[a] # "idle"
  PROVE  Place(a) \in Hosts /\ (a \notin Handlers => Place(a) = a[1])
                            /\ (a \in Handlers => sock[a] \in Socket /\ Place(a) = sock[a][1])
<1>1. CASE a \in Handlers
  BY <1>1 DEF Inv, Control, Types, TypeOK, Place, Socket
<1>2. CASE a \notin Handlers
  BY <1>2, Kinds DEF Actors, Place
<1> QED BY <1>1, <1>2

----------------------------------------------------------------------------
(* One lemma per action.                                                   *)

\* A request that has just arrived holds nothing.
LEMMA RequestKeeps == ASSUME Inv, NEW a \in Requests, Request(a) PROVE Inv'
<1>1. /\ pc' = [pc EXCEPT ![a] = "resolve"] /\ pc[a] = "new"
      /\ UNCHANGED <<sock, current, made, advert, query, entries, sent, name,
                     registered, links, causes, restarts, losses>>
  BY DEF Request, At, Goto, map, browse, history
<1>2. a \in Actors /\ a \notin Mains /\ a \notin Browsers /\ a \notin Handlers
  BY Kinds DEF Actors
<1>3. Types'
  BY <1>1, <1>2 DEF Inv, Types, TypeOK, Labels
<1>4. Control'
  BY <1>1, <1>2 DEF Inv, Types, TypeOK, Control, Handling
<1>5. Reached'
  BY <1>1, <1>2, Kinds DEF Inv, Types, TypeOK, Reached, At
<1>6. Names' /\ Numbered'
  BY <1>1 DEF Inv, Names, Numbered
<1>7. SocketsLive'
  BY <1>1, <1>2 DEF Inv, Types, TypeOK, SocketsLive, Holds, Lives
<1>8. Unsplit'
  BY <1>1, <1>2 DEF Inv, Types, TypeOK, Unsplit, Uses, Lives
<1>9. Linked' /\ LinksComplete' /\ Meshed'
  <2>1. SameLives /\ SameRounds
    BY <1>1, <1>2 DEF Inv, Types, TypeOK, SameLives, SameRounds, Handling, At
  <2> QED BY <1>1, <2>1, Kept
<1> QED BY <1>3, <1>4, <1>5, <1>6, <1>7, <1>8, <1>9 DEF Inv

\* The client joins the socket it has.
LEMMA JoinKeeps == ASSUME Inv, NEW a \in Actors, Join(a) PROVE Inv'
<1>1. /\ pc' = [pc EXCEPT ![a] = "joined"] /\ pc[a] = "use" /\ a \in Requests
      /\ UNCHANGED <<sock, current, made, advert, query, entries, sent, name,
                     registered, links, causes, restarts, losses>>
  BY DEF Join, At, Goto, map, browse, history
<1>2. a \notin Mains /\ a \notin Browsers /\ a \notin Handlers
  BY <1>1, Kinds
<1>3. Types'
  BY <1>1, <1>2 DEF Inv, Types, TypeOK, Labels
<1>4. Control'
  BY <1>1, <1>2 DEF Inv, Types, TypeOK, Control, Handling
<1>5. Reached'
  BY <1>1, <1>2, Kinds DEF Inv, Types, TypeOK, Reached, At
<1>6. Names' /\ Numbered'
  BY <1>1 DEF Inv, Names, Numbered
<1>7. SocketsLive'
  BY <1>1, <1>2 DEF Inv, Types, TypeOK, SocketsLive, Holds, Lives
<1>8. Unsplit'
  BY <1>1, <1>2 DEF Inv, Types, TypeOK, Unsplit, Uses, Lives
<1>9. Linked' /\ LinksComplete' /\ Meshed'
  <2>1. SameLives /\ SameRounds
    BY <1>1, <1>2 DEF Inv, Types, TypeOK, SameLives, SameRounds, Handling, At
  <2> QED BY <1>1, <2>1, Kept
<1> QED BY <1>3, <1>4, <1>5, <1>6, <1>7, <1>8, <1>9 DEF Inv

\* What the map gives is the host's living socket.
LEMMA ResolveKeeps == ASSUME Inv, NEW a \in Actors, Resolve(a) PROVE Inv'
<1> DEFINE h == Place(a)
           l == IF current[h] = Nil THEN "create" ELSE "use"
           x == IF current[h] = Nil THEN sock[a] ELSE current[h]
<1>1. /\ pc[a] = "resolve"
      /\ UNCHANGED <<current, made, advert, query, entries, sent, name,
                     registered, links, causes, restarts, losses>>
  BY DEF Resolve, At, Goto, map, browse, history
<1>0. pc \in [Actors -> Labels] /\ sock \in [Actors -> Socket \cup {Nil}] /\ current \in [Hosts -> Socket \cup {Nil}]
  BY DEF Inv, Types, TypeOK
<1>2. pc' = [pc EXCEPT ![a] = l] /\ sock' = [sock EXCEPT ![a] = x]
  BY <1>0 DEF Resolve, Goto
<1>3. h \in Hosts /\ (a \notin Handlers => h = a[1]) /\ (a \in Handlers => sock[a] \in Socket /\ h = sock[a][1])
  BY <1>1, PlaceIsHost
<1>4. /\ l \in {"create", "use"} /\ x \in Socket \cup {Nil}
      /\ l = "use" => x \in Socket /\ x = current[h] /\ Lives(x) /\ x[1] = h /\ x # Nil
      /\ l = "create" => x = sock[a]
  BY <1>0, <1>3 DEF Inv, SocketsLive
<1>5. a \notin Mains
  BY <1>1 DEF Inv, Control
<1> HIDE DEF h, l, x
<1>6. Types'
  BY <1>0, <1>1, <1>2, <1>4 DEF Inv, Types, TypeOK, Labels
<1>7. Control'
  BY <1>0, <1>1, <1>2, <1>3, <1>4, <1>5 DEF Inv, Control, Handling
<1>8. Reached'
  <2>1. ASSUME NEW b \in Browsers, At(b, "dialling")'
        PROVE  pc'[<<b, "dialled">>] # "idle" /\ sock'[<<b, "dialled">>][1] = name'[b][1]
    <3>1. At(b, "dialling") /\ <<b, "dialled">> \in Actors /\ <<b, "dialled">> \in Handlers
      BY <1>0, <1>2, <1>4, <2>1, Kinds DEF At, Actors
    <3>2. pc[<<b, "dialled">>] # "idle" /\ sock[<<b, "dialled">>][1] = name[b][1]
      BY <3>1 DEF Inv, Reached
    <3> QED BY <1>0, <1>1, <1>2, <1>3, <1>4, <3>1, <3>2
  <2> QED BY <2>1 DEF Reached
<1>9. Names' /\ Numbered'
  BY <1>1 DEF Inv, Names, Numbered
<1>10. SocketsLive'
  BY <1>0, <1>1, <1>2, <1>3, <1>4 DEF Inv, SocketsLive, Holds, Lives
<1>11. Unsplit'
  BY <1>0, <1>1, <1>2, <1>3, <1>4 DEF Inv, Unsplit, Uses, Lives
<1>12. Linked' /\ LinksComplete' /\ Meshed'
  <2>1. SameLives
    BY <1>1 DEF SameLives
  <2>2. SameRounds
    BY <1>0, <1>1, <1>2, <1>4 DEF SameRounds, Handling, At
  <2> QED BY <1>1, <2>1, <2>2, Kept
<1> QED BY <1>6, <1>7, <1>8, <1>9, <1>10, <1>11, <1>12 DEF Inv

\* A new socket; a second living one is a split.
LEMMA CreateKeeps == ASSUME Inv, NEW a \in Actors, Create(a) PROVE Inv'
<1> DEFINE h == Place(a)
           s == <<h, made[h] + 1>>
<1>1. /\ pc[a] = "create" /\ made[h] < MaxSockets
      /\ made' = [made EXCEPT ![h] = @ + 1] /\ advert' = [advert EXCEPT ![s] = "starting"]
      /\ pc' = [pc EXCEPT ![a] = "store"] /\ sock' = [sock EXCEPT ![a] = s]
      /\ causes' = IF made[h] > 0 /\ \E n \in 1..made[h] : advert[<<h, n>>] # "gone"
                     THEN causes \cup {"split"} ELSE causes
      /\ UNCHANGED <<current, query, entries, sent, name, registered, links, restarts, losses>>
  BY DEF Create, At, Goto, browse
<1>0. /\ pc \in [Actors -> Labels] /\ sock \in [Actors -> Socket \cup {Nil}]
      /\ current \in [Hosts -> Socket \cup {Nil}] /\ made \in [Hosts -> 0..MaxSockets]
      /\ advert \in [Socket -> {"none", "starting", "published", "marked", "gone"}]
      /\ MaxSockets \in Nat
  BY Bounds DEF Inv, Types, TypeOK
<1>2. h \in Hosts /\ (a \notin Handlers => h = a[1]) /\ (a \in Handlers => sock[a] \in Socket /\ h = sock[a][1])
  BY <1>1, PlaceIsHost
<1>3. /\ s \in Socket /\ s # Nil /\ s[1] = h /\ s[2] = made[h] + 1 /\ advert[s] = "none"
  <2>1. made[h] \in 0..MaxSockets /\ made[h] + 1 \in 1..MaxSockets
    BY <1>0, <1>1, <1>2
  <2>2. s \in Socket
    BY <1>2, <2>1 DEF Socket
  <2>3. s[2] > made[s[1]]
    BY <2>1
  <2> QED BY <2>2, <2>3, NilIsNoSocket DEF Inv, Numbered
<1>4. causes \subseteq causes' /\ causes' \subseteq Causes
  BY <1>1 DEF Inv, Types, TypeOK, Causes
<1>5. \A t \in Socket : advert[t] # "none" => advert'[t] = advert[t] /\ t # s
  BY <1>0, <1>1, <1>3
<1> HIDE DEF h, s
<1>6. Types'
  <2>1. made' \in [Hosts -> 0..MaxSockets]
    BY <1>0, <1>1, <1>2
  <2>2. advert' \in [Socket -> {"none", "starting", "published", "marked", "gone"}]
    BY <1>0, <1>1, <1>3
  <2>3. pc' \in [Actors -> Labels] /\ sock' \in [Actors -> Socket \cup {Nil}]
    BY <1>0, <1>1, <1>3 DEF Labels
  <2>4. \A x \in Actors \ Mains : pc'[x] \in {"store", "use", "joined", "dialling"} => sock'[x] # Nil
    BY <1>0, <1>1, <1>3 DEF Inv, Types, TypeOK
  <2> QED BY <1>1, <1>4, <2>1, <2>2, <2>3, <2>4 DEF Inv, Types, TypeOK
<1>7. Control'
  BY <1>0, <1>1, <1>3 DEF Inv, Control, Handling
<1>8. Reached'
  <2>1. ASSUME NEW b \in Browsers, At(b, "dialling")'
        PROVE  pc'[<<b, "dialled">>] # "idle" /\ sock'[<<b, "dialled">>][1] = name'[b][1]
    <3>1. At(b, "dialling") /\ <<b, "dialled">> \in Actors /\ <<b, "dialled">> \in Handlers
      BY <1>0, <1>1, <2>1, Kinds DEF At, Actors
    <3>2. pc[<<b, "dialled">>] # "idle" /\ sock[<<b, "dialled">>][1] = name[b][1]
      BY <3>1 DEF Inv, Reached
    <3> QED BY <1>0, <1>1, <1>2, <1>3, <3>1, <3>2
  <2> QED BY <2>1 DEF Reached
<1>9. Names'
  <2>1. /\ name \in [Browsers -> Socket \cup {Nil}] /\ entries \in [Browsers -> SUBSET Socket]
        /\ registered \in [Hosts -> SUBSET Socket]
    BY DEF Inv, Types, TypeOK
  <2> QED BY <1>1, <1>5, <2>1 DEF Inv, Names
<1>10. Numbered'
  <2>1. ASSUME NEW t \in Socket PROVE advert'[t] = "none" <=> t[2] > made'[t[1]]
    <3>1. t[1] \in Hosts /\ t[2] \in 1..MaxSockets /\ made[t[1]] \in 0..MaxSockets /\ t = <<t[1], t[2]>>
      BY <1>0 DEF Socket
    <3>2. advert[t] = "none" <=> t[2] > made[t[1]]
      BY DEF Inv, Numbered
    <3>3. CASE t = s
      BY <1>0, <1>1, <1>2, <1>3, <3>1, <3>3
    <3>4. CASE t # s /\ t[1] = h
      <4>1. t[2] # made[h] + 1
        BY <3>1, <3>4 DEF s
      <4>2. advert'[t] = advert[t] /\ made'[h] = made[h] + 1
        BY <1>0, <1>1, <1>2, <3>4
      <4> QED BY <1>0, <1>2, <3>1, <3>2, <3>4, <4>1, <4>2
    <3>5. CASE t # s /\ t[1] # h
      BY <1>0, <1>1, <1>2, <3>1, <3>2, <3>5
    <3> QED BY <3>3, <3>4, <3>5
  <2> QED BY <2>1 DEF Numbered
<1>11. SocketsLive'
  <2>1. ASSUME NEW x \in Actors, Holds(x)' PROVE Lives(sock[x])' /\ (x \notin Handlers => sock'[x][1] = x[1])
    <3>1. CASE x = a
      BY <1>0, <1>1, <1>2, <1>3, <3>1 DEF Lives
    <3>2. CASE x # a
      <4>1. Holds(x) /\ sock'[x] = sock[x] /\ sock[x] \in Socket
        BY <1>0, <1>1, <2>1, <3>2 DEF Holds
      <4>2. Lives(sock[x]) /\ (x \notin Handlers => sock[x][1] = x[1])
        BY <4>1 DEF Inv, SocketsLive
      <4> QED BY <1>5, <4>1, <4>2 DEF Lives
    <3> QED BY <3>1, <3>2
  <2>2. \A k \in Hosts : current'[k] # Nil => Lives(current[k])' /\ current'[k][1] = k
    BY <1>0, <1>1, <1>5 DEF Inv, SocketsLive, Lives
  <2> QED BY <2>1, <2>2 DEF SocketsLive
<1>12. Unsplit'
  <2> SUFFICES ASSUME "split" \notin causes' PROVE Unsplit'
    BY DEF Unsplit
  <2>1. "split" \notin causes /\ \A n \in 1..made[h] : advert[<<h, n>>] = "gone"
    <3>1. "split" \notin causes /\ ~(made[h] > 0 /\ \E n \in 1..made[h] : advert[<<h, n>>] # "gone")
      BY <1>1
    <3>2. made[h] \in Nat
      BY <1>0, <1>2
    <3>3. \A n \in 1..made[h] : made[h] > 0
      BY <3>2
    <3> QED BY <3>1, <3>3
  <2>2. ASSUME NEW t \in Socket, Lives(t)' PROVE t[2] = made'[t[1]]
    <3>1. t[1] \in Hosts /\ t[2] \in 1..MaxSockets /\ made[t[1]] \in 0..MaxSockets /\ t = <<t[1], t[2]>>
      BY <1>0 DEF Socket
    <3>2. CASE t = s
      BY <1>0, <1>1, <1>2, <1>3, <3>2
    <3>3. CASE t # s
      <4>1. Lives(t) /\ advert[t] # "none"
        BY <1>0, <1>1, <2>2, <3>3 DEF Lives
      <4>2. t[2] = made[t[1]]
        BY <2>1, <4>1 DEF Inv, Unsplit
      <4>3. t[1] # h
        <5>1. t[2] \in 1..made[t[1]]
          BY <3>1, <4>2
        <5> QED BY <2>1, <3>1, <4>1, <5>1 DEF Lives
      <4> QED BY <1>0, <1>1, <1>2, <3>1, <4>2, <4>3
    <3> QED BY <3>2, <3>3
  <2>3. \A x \in Actors : Uses(x)' => current'[sock'[x][1]] = sock'[x]
    BY <1>0, <1>1, <2>1 DEF Inv, Unsplit, Uses
  <2> QED BY <1>1, <2>1, <2>2, <2>3 DEF Inv, Unsplit
<1>13. Linked' /\ LinksComplete' /\ Meshed'
  <2>1. SameLives
    BY <1>5 DEF SameLives
  <2>2. SameRounds
    BY <1>0, <1>1 DEF SameRounds, Handling, At
  <2> QED BY <1>1, <1>4, <2>1, <2>2, Kept
<1> QED BY <1>6, <1>7, <1>8, <1>9, <1>10, <1>11, <1>12, <1>13 DEF Inv

\* The new socket is the only living one of its host, or there was a split.
LEMMA StoreSocketKeeps == ASSUME Inv, NEW a \in Actors, StoreSocket(a) PROVE Inv'
<1> DEFINE h == Place(a)
           s == sock[a]
<1>1. /\ pc[a] = "store"
      /\ current' = [current EXCEPT ![h] = s] /\ pc' = [pc EXCEPT ![a] = "use"]
      /\ UNCHANGED <<sock, made, advert, query, entries, sent, name, registered, links, causes, restarts, losses>>
  BY DEF StoreSocket, At, Goto, browse, history
<1>0. /\ pc \in [Actors -> Labels] /\ sock \in [Actors -> Socket \cup {Nil}]
      /\ current \in [Hosts -> Socket \cup {Nil}]
  BY DEF Inv, Types, TypeOK
<1>2. h \in Hosts /\ (a \notin Handlers => h = a[1]) /\ (a \in Handlers => sock[a] \in Socket /\ h = sock[a][1])
  BY <1>1, PlaceIsHost
<1>3. s \in Socket /\ s # Nil /\ Lives(s) /\ s[1] = h
  BY <1>0, <1>1, <1>2 DEF Inv, Control, SocketsLive, Holds
<1> HIDE DEF h, s
<1>4. Types'
  BY <1>0, <1>1, <1>2, <1>3 DEF Inv, Types, TypeOK, Labels, s
<1>5. Control'
  BY <1>0, <1>1, <1>3 DEF Inv, Control, Handling, s
<1>6. Reached'
  BY <1>0, <1>1, Kinds DEF Inv, Reached, At, Actors
<1>7. Names' /\ Numbered'
  BY <1>1 DEF Inv, Names, Numbered
<1>8. SocketsLive'
  BY <1>0, <1>1, <1>2, <1>3 DEF Inv, SocketsLive, Holds, Lives, s
<1>9. Unsplit'
  <2> SUFFICES ASSUME "split" \notin causes' PROVE Unsplit'
    BY DEF Unsplit
  <2>1. "split" \notin causes
    BY <1>1
  <2>2. \A t \in Socket : Lives(t) /\ t[1] = h => t = s
    <3>1. \A t \in Socket : Lives(t) => t[2] = made[t[1]]
      BY <2>1 DEF Inv, Unsplit
    <3>2. \A t \in Socket : t = <<t[1], t[2]>>
      BY DEF Socket
    <3> QED BY <1>3, <3>1, <3>2
  <2>3. current[h] # Nil => current[h] = s
    BY <1>0, <1>2, <2>2 DEF Inv, SocketsLive
  <2>4. ASSUME NEW x \in Actors, Uses(x)' PROVE current'[sock[x][1]] = sock[x]
    <3>1. sock[x] \in Socket /\ sock[x] # Nil /\ Holds(x) /\ Lives(sock[x])
      BY <1>0, <1>1, <1>3, <2>4 DEF Inv, SocketsLive, Uses, Holds
    <3>2. CASE sock[x][1] = h
      BY <1>0, <1>1, <1>2, <2>2, <3>1, <3>2
    <3>3. CASE sock[x][1] # h
      <4>1. x # a /\ Uses(x)
        BY <1>0, <1>1, <1>3, <2>4, <3>3 DEF Uses, s
      <4>2. current[sock[x][1]] = sock[x]
        BY <2>1, <4>1 DEF Inv, Unsplit
      <4> QED BY <1>0, <1>1, <1>2, <3>3, <4>2
    <3> QED BY <3>2, <3>3
  <2>5. ASSUME NEW p \in Socket \X Socket, links[p] > 0
        PROVE  p[1] = current'[p[1][1]] /\ p[2] = current'[p[2][1]]
    <3>1. p[1] = current[p[1][1]] /\ p[2] = current[p[2][1]]
      BY <2>1, <2>5 DEF Inv, Unsplit
    <3>2. p[1] \in Socket /\ p[2] \in Socket /\ p[1][1] \in Hosts /\ p[2][1] \in Hosts
      BY DEF Socket
    <3>3. \A k \in Hosts : current[k] # Nil => current'[k] = current[k]
      BY <1>0, <1>1, <1>2, <2>3
    <3> QED BY <3>1, <3>2, <3>3, NilIsNoSocket
  <2> QED BY <1>1, <2>1, <2>4, <2>5 DEF Inv, Unsplit, Lives
<1>10. Linked' /\ LinksComplete' /\ Meshed'
  <2>1. SameLives
    BY <1>1 DEF SameLives
  <2>2. SameRounds
    BY <1>0, <1>1 DEF SameRounds, Handling, At
  <2> QED BY <1>1, <2>1, <2>2, Kept
<1> QED BY <1>4, <1>5, <1>6, <1>7, <1>8, <1>9, <1>10 DEF Inv

\* A name that is answered for, or marked as our own, lives as before.
LEMMA AdvertiseKeeps == ASSUME Inv, NEW s \in Socket, Advertise(s) PROVE Inv'
<1>1. PICK x \in {"published", "marked"} :
        /\ advert[s] \in {"starting", "published"} /\ advert' = [advert EXCEPT ![s] = x]
        /\ UNCHANGED <<pc, sock, current, made, query, entries, sent, name,
                       registered, links, causes, restarts, losses>>
  BY DEF Advertise, Publish, MarkOwn, browse, history
<1>0. advert \in [Socket -> {"none", "starting", "published", "marked", "gone"}]
  BY DEF Inv, Types, TypeOK
<1>2. \A t \in Socket : /\ advert'[t] = "none" <=> advert[t] = "none"
                        /\ advert'[t] = "gone" <=> advert[t] = "gone"
                        /\ Lives(t)' <=> Lives(t)
  BY <1>0, <1>1 DEF Lives
<1>3. Types'
  BY <1>0, <1>1 DEF Inv, Types, TypeOK
<1>4. Control' /\ Reached'
  BY <1>1 DEF Inv, Control, Reached, Handling, At
<1>5. Names' /\ Numbered'
  BY <1>1, <1>2 DEF Inv, Types, TypeOK, Names, Numbered
<1>6. SocketsLive'
  <2>1. ASSUME NEW a \in Actors, Holds(a)' PROVE Lives(sock[a])' /\ (a \notin Handlers => sock'[a][1] = a[1])
    BY <1>1, <1>2, <2>1 DEF Inv, Types, TypeOK, SocketsLive, Holds
  <2>2. \A h \in Hosts : current'[h] # Nil => Lives(current[h])' /\ current'[h][1] = h
    BY <1>1, <1>2 DEF Inv, Types, TypeOK, SocketsLive
  <2> QED BY <1>1, <2>1, <2>2 DEF SocketsLive
<1>7. Unsplit'
  BY <1>1, <1>2 DEF Inv, Unsplit, Uses
<1>8. Linked' /\ LinksComplete' /\ Meshed'
  <2>1. SameLives /\ SameRounds
    BY <1>1, <1>2 DEF SameLives, SameRounds, Handling, At
  <2> QED BY <1>1, <2>1, Kept
<1> QED BY <1>3, <1>4, <1>5, <1>6, <1>7, <1>8 DEF Inv

\* A browser that only moves between its points: nothing it holds changes.
LEMMA BrowserMoves ==
  ASSUME Inv, NEW b \in Browsers, NEW l \in {"idle", "select"},
         pc[b] \in {"idle", "select"}, pc' = [pc EXCEPT ![b] = l],
         UNCHANGED <<sock, current, made, advert, name, registered, links, causes, losses>>
  PROVE  /\ Control' /\ Reached' /\ Numbered' /\ SocketsLive' /\ Unsplit'
         /\ Linked' /\ LinksComplete' /\ Meshed'
         /\ pc' \in [Actors -> Labels]
         /\ \A a \in Actors \ Mains : pc'[a] \in {"store", "use", "joined", "dialling"} => sock'[a] # Nil
<1>0. pc \in [Actors -> Labels] /\ b \in Actors /\ b \notin Handlers /\ b \notin Mains /\ b \notin Requests
  BY Kinds DEF Inv, Types, TypeOK, Actors
<1>1. pc' \in [Actors -> Labels]
  BY <1>0 DEF Labels
<1>2. \A a \in Actors \ Mains : pc'[a] \in {"store", "use", "joined", "dialling"} => sock'[a] # Nil
  BY <1>0 DEF Inv, Types, TypeOK
<1>3. Control'
  BY <1>0 DEF Inv, Control, Handling
<1>4. Reached'
  BY <1>0, Kinds DEF Inv, Reached, At, Actors
<1>5. Numbered'
  BY DEF Inv, Numbered
<1>6. SocketsLive'
  BY <1>0 DEF Inv, SocketsLive, Holds, Lives
<1>7. Unsplit'
  BY <1>0 DEF Inv, Unsplit, Uses, Lives
<1>8. Linked' /\ LinksComplete' /\ Meshed'
  <2>1. SameLives /\ SameRounds
    BY <1>0 DEF SameLives, SameRounds, Handling, At, Actors
  <2> QED BY <2>1, Kept
<1> QED BY <1>1, <1>2, <1>3, <1>4, <1>5, <1>6, <1>7, <1>8

\* A round begins.
LEMMA StartRoundKeeps == ASSUME Inv, NEW b \in Browsers, StartRound(b) PROVE Inv'
<1>1. /\ pc[b] = "idle" /\ pc' = [pc EXCEPT ![b] = "select"] /\ query' = [query EXCEPT ![b[1]] = b[2]]
      /\ UNCHANGED <<sock, current, made, advert, entries, sent, name,
                     registered, links, causes, restarts, losses>>
  BY DEF StartRound, At, Goto, map, history
<1>2. /\ query' \in [Hosts -> (UNION { Rounds[h] : h \in Hosts }) \cup {Nil}]
      /\ \A h \in Hosts : query'[h] \in Rounds[h] \cup {Nil}
  <2>1. b[1] \in Hosts /\ b[2] \in Rounds[b[1]] /\ b[2] \in UNION { Rounds[h] : h \in Hosts }
    BY Kinds
  <2>2. /\ query \in [Hosts -> (UNION { Rounds[h] : h \in Hosts }) \cup {Nil}]
        /\ \A h \in Hosts : query[h] \in Rounds[h] \cup {Nil}
    BY DEF Inv, Types, TypeOK
  <2> HIDE DEF Inv
  <2> QED BY <1>1, <2>1, <2>2
<1>3. /\ Control' /\ Reached' /\ Numbered' /\ SocketsLive' /\ Unsplit'
      /\ Linked' /\ LinksComplete' /\ Meshed'
      /\ pc' \in [Actors -> Labels]
      /\ \A a \in Actors \ Mains : pc'[a] \in {"store", "use", "joined", "dialling"} => sock'[a] # Nil
  BY <1>1, BrowserMoves
<1>4. Types'
  BY <1>1, <1>2, <1>3 DEF Inv, Types, TypeOK
<1>5. Names'
  BY <1>1 DEF Inv, Names
<1> QED BY <1>3, <1>4, <1>5 DEF Inv

\* A round ends: its channel is dropped.
LEMMA EndRoundKeeps == ASSUME Inv, NEW b \in Browsers, EndRound(b) PROVE Inv'
<1>1. /\ pc[b] = "select" /\ pc' = [pc EXCEPT ![b] = "idle"]
      /\ entries' = [entries EXCEPT ![b] = {}] /\ sent' = [sent EXCEPT ![b] = {}]
      /\ UNCHANGED <<sock, current, made, advert, query, name, registered, links, causes, restarts, losses>>
  BY DEF EndRound, At, Goto, map, history
<1>2. entries' \in [Browsers -> SUBSET Socket] /\ sent' \in [Browsers -> SUBSET Socket]
  BY <1>1 DEF Inv, Types, TypeOK
<1>3. /\ Control' /\ Reached' /\ Numbered' /\ SocketsLive' /\ Unsplit'
      /\ Linked' /\ LinksComplete' /\ Meshed'
      /\ pc' \in [Actors -> Labels]
      /\ \A a \in Actors \ Mains : pc'[a] \in {"store", "use", "joined", "dialling"} => sock'[a] # Nil
  BY <1>1, BrowserMoves
<1>4. Types'
  BY <1>1, <1>2, <1>3 DEF Inv, Types, TypeOK
<1>5. Names'
  BY <1>1 DEF Inv, Types, TypeOK, Names
<1> QED BY <1>3, <1>4, <1>5 DEF Inv

\* Only names that are answered for are passed on.
LEMMA AnswerKeeps == ASSUME Inv, NEW b \in Browsers, NEW s \in Socket, Answer(b, s) PROVE Inv'
<1>1. /\ Published(s)
      /\ entries' = [entries EXCEPT ![b] = @ \cup {s}] /\ sent' = [sent EXCEPT ![b] = @ \cup {s}]
      /\ UNCHANGED <<pc, sock, current, made, advert, query, name, registered, links, causes, restarts, losses>>
  BY DEF Answer, map, history
<1>2. entries' \in [Browsers -> SUBSET Socket] /\ sent' \in [Browsers -> SUBSET Socket]
  BY <1>1 DEF Inv, Types, TypeOK
<1>3. Types'
  BY <1>1, <1>2 DEF Inv, Types, TypeOK
<1>4. Names'
  BY <1>1 DEF Inv, Types, TypeOK, Names, Published
<1>5. Control' /\ Reached' /\ Numbered' /\ SocketsLive' /\ Unsplit'
  BY <1>1 DEF Inv, Control, Reached, Numbered, SocketsLive, Unsplit, Handling, At, Holds, Uses, Lives
<1>6. Linked' /\ LinksComplete' /\ Meshed'
  <2>1. SameLives /\ SameRounds
    BY <1>1 DEF SameLives, SameRounds, Handling, At
  <2> QED BY <1>1, <2>1, Kept
<1> QED BY <1>3, <1>4, <1>5, <1>6 DEF Inv

\* The handler starts out with the name it was dialled by.
LEMMA DialKeeps == ASSUME Inv, NEW b \in Browsers, Dial(b) PROVE Inv'
<1> DEFINE g == <<b, "dialled">>
<1>1. /\ pc[b] = "use" /\ pc[g] = "idle"
      /\ pc' = [pc EXCEPT ![b] = "dialling", ![g] = "resolve"] /\ sock' = [sock EXCEPT ![g] = name[b]]
      /\ UNCHANGED <<current, made, advert, query, entries, sent, name,
                     registered, links, causes, restarts, losses>>
  BY DEF Dial, At, map, browse, history
<1>0. /\ pc \in [Actors -> Labels] /\ sock \in [Actors -> Socket \cup {Nil}]
      /\ name \in [Browsers -> Socket \cup {Nil}]
  BY DEF Inv, Types, TypeOK
<1>2. /\ g \in Actors /\ b \in Actors /\ g \in Handlers /\ g # b
      /\ b \notin Handlers /\ b \notin Mains /\ b \notin Requests
      /\ g \notin Browsers /\ g \notin Mains /\ g \notin Requests
      /\ \A o \in Browsers : <<o, "dialled">> \in Handlers /\ (<<o, "dialled">> = g => o = b)
  BY Kinds DEF Actors
<1>3. name[b] \in Socket /\ name[b] # Nil
  BY <1>0, <1>1 DEF Inv, Control, Handling
<1>4. /\ pc'[b] = "dialling" /\ pc'[g] = "resolve" /\ sock'[g] = name[b]
      /\ \A a \in Actors : /\ a # g => sock'[a] = sock[a]
                           /\ a \notin {b, g} => pc'[a] = pc[a]
  BY <1>0, <1>1, <1>2
<1> HIDE DEF g
<1>5. Types'
  <2>1. pc' \in [Actors -> Labels] /\ sock' \in [Actors -> Socket \cup {Nil}]
    BY <1>0, <1>1, <1>3 DEF Labels
  <2>2. \A a \in Actors \ Mains : pc'[a] \in {"store", "use", "joined", "dialling"} => sock'[a] # Nil
    BY <1>1, <1>2, <1>3, <1>4 DEF Inv, Types, TypeOK
  <2> QED BY <1>1, <2>1, <2>2 DEF Inv, Types, TypeOK
<1>6. Control'
  <2>1. \A a \in Mains \cup Requests : a \in Actors /\ a \notin {b, g} /\ pc'[a] = pc[a]
    BY <1>2, <1>4 DEF Actors
  <2>2. \A o \in Handlers : o \in Actors /\ o # b /\ (o # g => pc'[o] = pc[o] /\ sock'[o] = sock[o])
    BY <1>2, <1>4 DEF Actors
  <2>3. \A o \in Browsers : o \in Actors /\ o # g /\ (o # b => pc'[o] = pc[o])
    BY <1>2, <1>4 DEF Actors
  <2>4. \A o \in Handlers : /\ pc'[o] \in {"idle", "resolve", "create", "store", "use"}
                            /\ pc'[o] # "idle" => sock'[o] # Nil
    BY <1>3, <1>4, <2>2 DEF Inv, Control
  <2>5. \A o \in Browsers : /\ pc'[o] \in {"idle", "select", "resolve", "create", "store",
                                            "use", "dialling", "register"}
                            /\ Handling(o)' => name'[o] # Nil
    BY <1>1, <1>3, <1>4, <2>3 DEF Inv, Control, Handling
  <2>6. \A a \in Actors : pc'[a] = "store" => sock'[a] # Nil
    BY <1>3, <1>4 DEF Inv, Control
  <2> QED BY <2>1, <2>4, <2>5, <2>6 DEF Inv, Control
<1>7. Reached'
  <2>1. ASSUME NEW o \in Browsers, At(o, "dialling")'
        PROVE  pc'[<<o, "dialled">>] # "idle" /\ sock'[<<o, "dialled">>][1] = name'[o][1]
    <3>1. CASE o = b
      BY <1>1, <1>4, <3>1 DEF g
    <3>2. CASE o # b
      BY <1>1, <1>2, <1>4, <2>1, <3>2 DEF Inv, Reached, At, Actors
    <3> QED BY <3>1, <3>2
  <2> QED BY <2>1 DEF Reached
<1>8. Names' /\ Numbered'
  BY <1>1 DEF Inv, Names, Numbered
<1>9. \A a \in Actors : /\ Holds(a)' => Holds(a) /\ sock'[a] = sock[a]
                        /\ Uses(a)' => Uses(a) /\ sock'[a] = sock[a]
  BY <1>1, <1>2, <1>4 DEF Holds, Uses
<1>10. SocketsLive'
  BY <1>1, <1>9 DEF Inv, SocketsLive, Lives
<1>11. Unsplit'
  BY <1>1, <1>9 DEF Inv, Unsplit, Lives
<1>12. Linked' /\ LinksComplete' /\ Meshed'
  <2>1. SameLives
    BY <1>1 DEF SameLives
  <2>2. SameRounds
    BY <1>1, <1>2, <1>4 DEF SameRounds, Handling, At, Actors
  <2> QED BY <1>1, <2>1, <2>2, Kept
<1> QED BY <1>5, <1>6, <1>7, <1>8, <1>10, <1>11, <1>12 DEF Inv

\* A name is taken on when it is not known and, but for an overlap, nobody
\* else of the host handles it.
LEMMA TakeKeeps == ASSUME Inv, NEW b \in Browsers, NEW s \in Socket, Take(b, s) PROVE Inv'
<1>0. /\ pc \in [Actors -> Labels] /\ name \in [Browsers -> Socket \cup {Nil}]
      /\ entries \in [Browsers -> SUBSET Socket] /\ b \in Actors
      /\ b \notin Handlers /\ b \notin Mains /\ b \notin Requests
      /\ \A o \in Browsers : o \in Actors /\ <<o, "dialled">> \in Handlers
  BY Kinds DEF Inv, Types, TypeOK, Actors
<1>1. /\ pc[b] = "select" /\ s \in entries[b] /\ entries' = [entries EXCEPT ![b] = @ \ {s}]
      /\ UNCHANGED <<sock, current, made, advert, query, sent, registered, links, restarts, losses>>
  BY DEF Take, At, map
<1>2. entries' \in [Browsers -> SUBSET Socket] /\ \A o \in Browsers : entries'[o] \subseteq entries[o]
  BY <1>0, <1>1
<1>3. CASE Known(b[1], s)
  <2>1. UNCHANGED <<pc, name, causes>>
    BY <1>3 DEF Take
  <2>2. Types'
    BY <1>1, <1>2, <2>1 DEF Inv, Types, TypeOK
  <2>3. Names'
    BY <1>1, <1>2, <2>1 DEF Inv, Names
  <2>4. Control' /\ Reached' /\ Numbered' /\ SocketsLive' /\ Unsplit'
    BY <1>1, <2>1 DEF Inv, Control, Reached, Numbered, SocketsLive, Unsplit, Handling, At, Holds, Uses, Lives
  <2>5. Linked' /\ LinksComplete' /\ Meshed'
    <3>1. SameLives /\ SameRounds
      BY <1>1, <2>1 DEF SameLives, SameRounds, Handling, At
    <3> QED BY <1>1, <2>1, <3>1, Kept
  <2> QED BY <2>2, <2>3, <2>4, <2>5 DEF Inv
<1>4. CASE ~Known(b[1], s)
  <2>1. /\ pc' = [pc EXCEPT ![b] = "resolve"] /\ name' = [name EXCEPT ![b] = s]
        /\ causes' = IF \E o \in Browsers \ {b} : o[1] = b[1] /\ name[o] = s /\ pc[o] \notin {"idle", "select"}
                       THEN causes \cup {"overlap"} ELSE causes
    BY <1>4 DEF Take, Goto
  <2>2. s # Nil /\ s \notin registered[b[1]] /\ advert[s] # "none"
    BY <1>1, <1>4, NilIsNoSocket DEF Known, Inv, Names
  <2>3. causes \subseteq causes' /\ causes' \subseteq Causes /\ ("split" \in causes' <=> "split" \in causes)
    BY <2>1 DEF Inv, Types, TypeOK, Causes
  <2>4. /\ pc'[b] = "resolve" /\ name'[b] = s
        /\ \A a \in Actors : a # b => pc'[a] = pc[a]
        /\ \A o \in Browsers : o # b => name'[o] = name[o]
    BY <1>0, <2>1
  <2>5. Types'
    <3>1. pc' \in [Actors -> Labels] /\ name' \in [Browsers -> Socket \cup {Nil}]
      BY <1>0, <2>1 DEF Labels
    <3>2. \A a \in Actors \ Mains : pc'[a] \in {"store", "use", "joined", "dialling"} => sock'[a] # Nil
      BY <1>1, <2>4 DEF Inv, Types, TypeOK
    <3> QED BY <1>1, <1>2, <2>3, <3>1, <3>2 DEF Inv, Types, TypeOK
  <2>6. Control'
    BY <1>0, <1>1, <2>1, <2>2, <2>4 DEF Inv, Control, Handling
  <2>7. Reached'
    BY <1>0, <1>1, <2>4, Kinds DEF Inv, Reached, At, Actors
  <2>8. Names' /\ Numbered'
    BY <1>0, <1>1, <1>2, <2>2, <2>4 DEF Inv, Names, Numbered
  <2>9. \A a \in Actors : (Holds(a)' <=> Holds(a)) /\ (Uses(a)' <=> Uses(a))
    BY <1>1, <2>4 DEF Holds, Uses
  <2>10. SocketsLive' /\ Unsplit'
    BY <1>1, <2>3, <2>9 DEF Inv, SocketsLive, Unsplit, Lives
  <2>11. Linked' /\ LinksComplete'
    <3>1. \A o \in Browsers : At(o, "register")' => At(o, "register") /\ o # b
      BY <1>0, <2>4 DEF At
    <3> QED BY <1>1, <2>4, <3>1 DEF Inv, Linked, LinksComplete, Hears
  <2>12. Meshed'
    <3> SUFFICES ASSUME causes' = {} PROVE Meshed'
      BY DEF Meshed
    <3>1. causes = {} /\ \A o \in Browsers \ {b} : o[1] = b[1] /\ Handling(o) => name[o] # s
      BY <2>1, <2>3 DEF Handling
    <3>2. \A o \in Browsers : o # b => (Handling(o)' <=> Handling(o)) /\ (At(o, "register")' <=> At(o, "register"))
      BY <1>0, <2>4 DEF Handling, At
    <3>3. \A o \in Browsers : Handling(o)' => name'[o] \notin registered'[o[1]]
      BY <1>1, <2>2, <2>4, <3>1, <3>2 DEF Inv, Meshed
    <3>4. \A o, q \in Browsers : Handling(o)' /\ Handling(q)' /\ o[1] = q[1] /\ name'[o] = name'[q] => o = q
      BY <2>4, <3>1, <3>2 DEF Inv, Meshed
    <3>5. \A h \in Hosts, t \in Socket : Knows(h, t) => Knows(h, t)'
      <4>1. ~At(b, "register")
        BY <1>1 DEF At
      <4> QED BY <1>1, <2>4, <3>2, <4>1 DEF Knows
    <3>6. ASSUME NEW p \in Socket \X Socket, links[p] > 0, p[1][1] # p[2][1]
          PROVE  links[p] = 1 /\ \E t \in Socket : t[1] = p[2][1] /\ Lives(t)' /\ Knows(p[1][1], t)'
      <4>1. p[1][1] \in Hosts
        BY DEF Socket
      <4> QED BY <1>1, <3>1, <3>5, <3>6, <4>1 DEF Inv, Meshed, Lives
    <3> QED BY <1>1, <3>3, <3>4, <3>6 DEF Meshed
  <2> QED BY <2>5, <2>6, <2>7, <2>8, <2>10, <2>11, <2>12 DEF Inv
<1> QED BY <1>3, <1>4

\* A name that could not be dialled stays open.
LEMMA DialFailsKeeps == ASSUME Inv, NEW b \in Browsers, DialFails(b) PROVE Inv'
<1>0. /\ pc \in [Actors -> Labels] /\ name \in [Browsers -> Socket \cup {Nil}]
      /\ sock \in [Actors -> Socket \cup {Nil}] /\ b \in Actors
      /\ b \notin Handlers /\ b \notin Mains /\ b \notin Requests
      /\ \A o \in Browsers : o \in Actors /\ <<o, "dialled">> \in Handlers
  BY Kinds DEF Inv, Types, TypeOK, Actors
<1>1. /\ pc[b] = "use" /\ pc' = [pc EXCEPT ![b] = "select"]
      /\ name' = [name EXCEPT ![b] = Nil] /\ sock' = [sock EXCEPT ![b] = Nil]
      /\ UNCHANGED <<current, made, advert, query, entries, sent, registered, links, causes, restarts, losses>>
  BY DEF DialFails, Done, At, Goto, map, history
<1>2. /\ pc'[b] = "select" /\ name'[b] = Nil /\ sock'[b] = Nil
      /\ \A a \in Actors : a # b => pc'[a] = pc[a] /\ sock'[a] = sock[a]
      /\ \A o \in Browsers : o # b => name'[o] = name[o]
  BY <1>0, <1>1
<1>3. Types'
  <2>1. /\ pc' \in [Actors -> Labels] /\ name' \in [Browsers -> Socket \cup {Nil}]
        /\ sock' \in [Actors -> Socket \cup {Nil}]
    BY <1>0, <1>1 DEF Labels
  <2>2. \A a \in Actors \ Mains : pc'[a] \in {"store", "use", "joined", "dialling"} => sock'[a] # Nil
    BY <1>2 DEF Inv, Types, TypeOK
  <2> QED BY <1>1, <2>1, <2>2 DEF Inv, Types, TypeOK
<1>4. Control'
  BY <1>0, <1>1, <1>2 DEF Inv, Control, Handling
<1>5. Reached'
  BY <1>0, <1>1, <1>2, Kinds DEF Inv, Reached, At, Actors
<1>6. Names' /\ Numbered'
  BY <1>0, <1>1, <1>2 DEF Inv, Names, Numbered
<1>7. \A a \in Actors : /\ Holds(a)' => Holds(a) /\ sock'[a] = sock[a]
                        /\ Uses(a)' => Uses(a) /\ sock'[a] = sock[a]
  BY <1>1, <1>2 DEF Holds, Uses
<1>8. SocketsLive' /\ Unsplit'
  BY <1>1, <1>7 DEF Inv, SocketsLive, Unsplit, Lives
<1>9. /\ \A o \in Browsers : Handling(o)' => Handling(o) /\ o # b
      /\ \A o \in Browsers : At(o, "register")' <=> At(o, "register") /\ o # b
      /\ ~At(b, "register")
  BY <1>0, <1>1, <1>2 DEF Handling, At
<1>10. Linked' /\ LinksComplete'
  BY <1>1, <1>2, <1>9 DEF Inv, Linked, LinksComplete, Hears
<1>11. Meshed'
  <2> SUFFICES ASSUME causes' = {} PROVE Meshed'
    BY DEF Meshed
  <2>1. \A o \in Browsers : Handling(o)' => name'[o] \notin registered'[o[1]]
    BY <1>1, <1>2, <1>9 DEF Inv, Meshed
  <2>2. \A o, q \in Browsers : Handling(o)' /\ Handling(q)' /\ o[1] = q[1] /\ name'[o] = name'[q] => o = q
    BY <1>1, <1>2, <1>9 DEF Inv, Meshed
  <2>3. \A h \in Hosts, t \in Socket : Knows(h, t) => Knows(h, t)'
    BY <1>1, <1>2, <1>9 DEF Knows
  <2>4. ASSUME NEW p \in Socket \X Socket, links[p] > 0, p[1][1] # p[2][1]
        PROVE  links[p] = 1 /\ \E t \in Socket : t[1] = p[2][1] /\ Lives(t)' /\ Knows(p[1][1], t)'
    <3>1. p[1][1] \in Hosts
      BY DEF Socket
    <3> QED BY <1>1, <2>3, <2>4, <3>1 DEF Inv, Meshed, Lives
  <2> QED BY <1>1, <2>1, <2>2, <2>4 DEF Meshed
<1> QED BY <1>3, <1>4, <1>5, <1>6, <1>8, <1>10, <1>11 DEF Inv

\* The name is written off; its link was made before.
LEMMA RegisterKeeps == ASSUME Inv, NEW b \in Browsers, Register(b) PROVE Inv'
<1> DEFINE h == b[1]
           s == name[b]
<1>0. /\ pc \in [Actors -> Labels] /\ name \in [Browsers -> Socket \cup {Nil}]
      /\ sock \in [Actors -> Socket \cup {Nil}] /\ registered \in [Hosts -> SUBSET Socket]
      /\ b \in Actors /\ h \in Hosts
      /\ b \notin Handlers /\ b \notin Mains /\ b \notin Requests
      /\ \A o \in Browsers : o \in Actors /\ o[1] \in Hosts /\ <<o, "dialled">> \in Handlers
  BY Kinds DEF Inv, Types, TypeOK, Actors
<1>1. /\ pc[b] = "register" /\ pc' = [pc EXCEPT ![b] = "select"] /\ name' = [name EXCEPT ![b] = Nil]
      /\ registered' = [registered EXCEPT ![h] = @ \cup {s}]
      /\ UNCHANGED <<sock, current, made, advert, query, entries, sent, links, causes, restarts, losses>>
  BY DEF Register, Done, At, Goto, map, history
<1>2. /\ pc'[b] = "select" /\ name'[b] = Nil
      /\ \A a \in Actors : a # b => pc'[a] = pc[a]
      /\ \A o \in Browsers : o # b => name'[o] = name[o]
      /\ registered'[h] = registered[h] \cup {s}
      /\ \A k \in Hosts : k # h => registered'[k] = registered[k]
  BY <1>0, <1>1
<1>3. s \in Socket /\ advert[s] # "none" /\ Handling(b)
  BY <1>0, <1>1 DEF Inv, Control, Handling, Names
<1> HIDE DEF h, s
<1>4. Types'
  <2>1. /\ pc' \in [Actors -> Labels] /\ name' \in [Browsers -> Socket \cup {Nil}]
        /\ registered' \in [Hosts -> SUBSET Socket]
    BY <1>0, <1>1, <1>3 DEF Labels
  <2>2. \A a \in Actors \ Mains : pc'[a] \in {"store", "use", "joined", "dialling"} => sock'[a] # Nil
    BY <1>1, <1>2 DEF Inv, Types, TypeOK
  <2> QED BY <1>1, <2>1, <2>2 DEF Inv, Types, TypeOK
<1>5. Control'
  BY <1>0, <1>1, <1>2 DEF Inv, Control, Handling
<1>6. Reached'
  BY <1>0, <1>1, <1>2, Kinds DEF Inv, Reached, At, Actors
<1>7. Names' /\ Numbered'
  BY <1>0, <1>1, <1>2, <1>3 DEF Inv, Names, Numbered
<1>8. \A a \in Actors : (Holds(a)' => Holds(a)) /\ (Uses(a)' => Uses(a))
  BY <1>1, <1>2 DEF Holds, Uses
<1>9. SocketsLive' /\ Unsplit'
  BY <1>1, <1>8 DEF Inv, SocketsLive, Unsplit, Lives
<1>10. /\ \A o \in Browsers : Handling(o)' => Handling(o) /\ o # b
       /\ \A o \in Browsers : At(o, "register")' <=> At(o, "register") /\ o # b
  BY <1>0, <1>1, <1>2 DEF Handling, At
<1>11. Linked'
  BY <1>1, <1>2, <1>10 DEF Inv, Linked, Hears
<1>12. LinksComplete'
  <2>1. losses = 0 /\ advert[s] # "gone" => Hears(h, s[1]) # {}
    BY <1>1 DEF Inv, Linked, At, h, s
  <2>2. losses = 0 => \A k \in Hosts : \A t \in registered[k] : advert[t] # "gone" => Hears(k, t[1]) # {}
    BY DEF Inv, LinksComplete
  <2> QED BY <1>0, <1>1, <1>2, <2>1, <2>2 DEF LinksComplete, Hears
<1>13. Meshed'
  <2> SUFFICES ASSUME causes' = {} PROVE Meshed'
    BY DEF Meshed
  <2>1. ASSUME NEW o \in Browsers, Handling(o)' PROVE name'[o] \notin registered'[o[1]]
    <3>1. o # b /\ Handling(o) /\ name'[o] = name[o] /\ name[o] \notin registered[o[1]]
      BY <1>1, <1>2, <1>10, <2>1 DEF Inv, Meshed
    <3>2. o[1] = h => name[o] # s
      BY <1>1, <1>3, <3>1 DEF Inv, Meshed, h, s
    <3> QED BY <1>0, <1>2, <3>1, <3>2
  <2>2. \A o, q \in Browsers : Handling(o)' /\ Handling(q)' /\ o[1] = q[1] /\ name'[o] = name'[q] => o = q
    BY <1>1, <1>2, <1>10 DEF Inv, Meshed
  <2>3. ASSUME NEW k \in Hosts, NEW t \in Socket, Knows(k, t) PROVE Knows(k, t)'
    <3>1. CASE t \in registered[k]
      BY <1>2, <3>1 DEF Knows
    <3>2. CASE t \notin registered[k]
      <4>1. PICK o \in Browsers : o[1] = k /\ At(o, "register") /\ name[o] = t
        BY <2>3, <3>2 DEF Knows
      <4>2. CASE o = b
        BY <1>2, <4>1, <4>2 DEF Knows, h, s
      <4>3. CASE o # b
        BY <1>2, <1>10, <4>1, <4>3 DEF Knows
      <4> QED BY <4>2, <4>3
    <3> QED BY <3>1, <3>2
  <2>4. ASSUME NEW p \in Socket \X Socket, links[p] > 0, p[1][1] # p[2][1]
        PROVE  links[p] = 1 /\ \E t \in Socket : t[1] = p[2][1] /\ Lives(t)' /\ Knows(p[1][1], t)'
    <3>1. p[1][1] \in Hosts
      BY DEF Socket
    <3> QED BY <1>1, <2>3, <2>4, <3>1 DEF Inv, Meshed, Lives
  <2> QED BY <1>1, <2>1, <2>2, <2>4 DEF Meshed
<1> QED BY <1>4, <1>5, <1>6, <1>7, <1>9, <1>11, <1>12, <1>13 DEF Inv

\* A link breaks: what rests on losses = 0 is given up, the rest says less.
LEMMA LoseLinkKeeps == ASSUME Inv, NEW p \in Socket \X Socket, LoseLink(p) PROVE Inv'
<1>1. /\ links[p] > 0 /\ losses < MaxLosses /\ losses' = losses + 1 /\ links' = [links EXCEPT ![p] = @ - 1]
      /\ UNCHANGED <<pc, sock, current, made, advert, query, entries, sent, name, registered, causes, restarts>>
  BY DEF LoseLink, map, browse
<1>2. links \in [Socket \X Socket -> Nat] /\ losses \in 0..MaxLosses /\ MaxLosses \in Nat
  BY Bounds DEF Inv, Types, TypeOK
<1>3. links' \in [Socket \X Socket -> Nat] /\ losses' \in 0..MaxLosses /\ losses' # 0
  BY <1>1, <1>2
<1>4. \A q \in Socket \X Socket : links'[q] <= links[q] /\ links[q] \in Nat /\ links'[q] \in Nat
  BY <1>1, <1>2
<1>5. Types'
  BY <1>1, <1>3 DEF Inv, Types, TypeOK
<1>6. Control' /\ Reached' /\ Names' /\ Numbered' /\ SocketsLive'
  BY <1>1 DEF Inv, Control, Reached, Names, Numbered, SocketsLive, Handling, At, Holds, Lives
<1>7. Linked' /\ LinksComplete'
  BY <1>3 DEF Linked, LinksComplete
<1>8. \A q \in Socket \X Socket : links'[q] > 0 => links[q] > 0 /\ (links[q] = 1 => links'[q] = 1)
  BY <1>4
<1>9. Unsplit'
  BY <1>1, <1>8 DEF Inv, Unsplit, Uses, Lives
<1>10. Meshed'
  BY <1>1, <1>8 DEF Inv, Meshed, Handling, Lives, Knows, At
<1> QED BY <1>5, <1>6, <1>7, <1>9, <1>10 DEF Inv

\* The handler is done, and its dialler has gone: nobody holds more than before.
LEMMA AbandonedKeeps ==
  ASSUME Inv, NEW b \in Browsers, Upgrade(b), ~At(b, "dialling")
  PROVE  Inv'
<1> DEFINE g == <<b, "dialled">>
<1>0. /\ pc \in [Actors -> Labels] /\ sock \in [Actors -> Socket \cup {Nil}]
      /\ g \in Actors /\ g \in Handlers /\ g \notin Browsers /\ g \notin Mains /\ g \notin Requests
      /\ \A o \in Browsers : /\ o \in Actors /\ <<o, "dialled">> \in Handlers /\ <<o, "dialled">> \in Actors
                             /\ <<o, "dialled">> = g => o = b
  BY Kinds DEF Inv, Types, TypeOK, Actors
<1>1. /\ pc[g] = "use" /\ pc' = [pc EXCEPT ![g] = "idle"] /\ sock' = [sock EXCEPT ![g] = Nil]
      /\ UNCHANGED <<current, made, advert, query, entries, sent, name,
                     registered, links, causes, restarts, losses>>
  BY DEF Upgrade, At, Goto, map, browse
<1>2. /\ pc'[g] = "idle" /\ sock'[g] = Nil
      /\ \A a \in Actors : a # g => pc'[a] = pc[a] /\ sock'[a] = sock[a]
  BY <1>0, <1>1
<1> HIDE DEF g
<1>3. Types'
  <2>1. pc' \in [Actors -> Labels] /\ sock' \in [Actors -> Socket \cup {Nil}]
    BY <1>0, <1>1 DEF Labels
  <2>2. \A a \in Actors \ Mains : pc'[a] \in {"store", "use", "joined", "dialling"} => sock'[a] # Nil
    BY <1>2 DEF Inv, Types, TypeOK
  <2> QED BY <1>1, <2>1, <2>2 DEF Inv, Types, TypeOK
<1>4. Control'
  BY <1>0, <1>1, <1>2 DEF Inv, Control, Handling, Actors
<1>5. Reached'
  <2>1. ASSUME NEW o \in Browsers, At(o, "dialling")'
        PROVE  pc'[<<o, "dialled">>] # "idle" /\ sock'[<<o, "dialled">>][1] = name'[o][1]
    <3>1. At(o, "dialling") /\ o # b /\ <<o, "dialled">> # g
      BY <1>0, <1>1, <1>2, <2>1 DEF At
    <3> QED BY <1>0, <1>1, <1>2, <3>1 DEF Inv, Reached
  <2> QED BY <2>1 DEF Reached
<1>6. Names' /\ Numbered'
  BY <1>1 DEF Inv, Names, Numbered
<1>7. \A a \in Actors : /\ Holds(a)' => Holds(a) /\ sock'[a] = sock[a]
                        /\ Uses(a)' => Uses(a) /\ sock'[a] = sock[a]
  BY <1>2 DEF Holds, Uses
<1>8. SocketsLive' /\ Unsplit'
  BY <1>1, <1>7 DEF Inv, SocketsLive, Unsplit, Lives
<1>9. Linked' /\ LinksComplete' /\ Meshed'
  <2>1. SameLives
    BY <1>1 DEF SameLives
  <2>2. SameRounds
    BY <1>0, <1>2 DEF SameRounds, Handling, At
  <2> QED BY <1>1, <2>1, <2>2, Kept
<1> QED BY <1>3, <1>4, <1>5, <1>6, <1>8, <1>9 DEF Inv

\* The new link joins the sockets in use on both hosts.  It is the first one
\* unless the name had been dialled before, or belongs to an earlier run.
LEMMA UpgradeKeeps == ASSUME Inv, NEW b \in Browsers, Upgrade(b) PROVE Inv'
<1>a. CASE ~At(b, "dialling")
  BY <1>a, AbandonedKeeps
<1>b. CASE At(b, "dialling")
  <2> DEFINE g == <<b, "dialled">>
             h == b[1]
             s == name[b]
             p == <<sock[b], sock[g]>>
  <2>0. /\ pc \in [Actors -> Labels] /\ sock \in [Actors -> Socket \cup {Nil}]
        /\ name \in [Browsers -> Socket \cup {Nil}] /\ links \in [Socket \X Socket -> Nat]
        /\ g \in Actors /\ g \in Handlers /\ g \notin Browsers /\ g \notin Mains /\ g \notin Requests
        /\ b \in Actors /\ b \notin Handlers /\ b \notin Mains /\ b \notin Requests /\ b # g /\ h \in Hosts
        /\ \A o \in Browsers : /\ o \in Actors /\ o[1] \in Hosts
                               /\ <<o, "dialled">> \in Handlers /\ <<o, "dialled">> \in Actors
                               /\ <<o, "dialled">> = g => o = b
    <3>1. /\ pc \in [Actors -> Labels] /\ sock \in [Actors -> Socket \cup {Nil}]
          /\ name \in [Browsers -> Socket \cup {Nil}] /\ links \in [Socket \X Socket -> Nat]
      BY DEF Inv, Types, TypeOK
    <3>2. \A o \in Browsers : /\ o \in Actors /\ o[1] \in Hosts
                              /\ <<o, "dialled">> \in Handlers /\ <<o, "dialled">> \in Actors
      BY Kinds DEF Actors
    <3>3. g \notin Browsers /\ g \notin Mains /\ g \notin Requests
      BY <3>2, Kinds
    <3>4. b \notin Handlers /\ b \notin Mains /\ b \notin Requests
      BY Kinds
    <3> QED BY <3>1, <3>2, <3>3, <3>4
  <2>1. /\ pc[b] = "dialling" /\ pc[g] = "use"
        /\ pc' = [pc EXCEPT ![b] = "register", ![g] = "idle"] /\ sock' = [sock EXCEPT ![b] = Nil, ![g] = Nil]
        /\ links' = [links EXCEPT ![p] = @ + 1]
        /\ causes' = IF advert[s] = "gone" THEN causes \cup {"stale"} ELSE causes
        /\ UNCHANGED <<current, made, advert, query, entries, sent, name, registered, restarts, losses>>
    BY <1>b DEF Upgrade, At, map, browse
  <2>2. /\ pc'[b] = "register" /\ pc'[g] = "idle" /\ sock'[b] = Nil /\ sock'[g] = Nil
        /\ \A a \in Actors : a \notin {b, g} => pc'[a] = pc[a] /\ sock'[a] = sock[a]
    BY <2>0, <2>1
  <2>3. /\ sock[b] \in Socket /\ sock[g] \in Socket /\ s \in Socket /\ Handling(b)
        /\ Uses(b) /\ Uses(g) /\ sock[b][1] = h /\ sock[g][1] = s[1] /\ advert[s] # "none"
    <3>1. Handling(b) /\ s # Nil /\ s \in Socket /\ advert[s] # "none"
      BY <2>0, <2>1 DEF Inv, Control, Handling, Names
    <3>2. sock[b] # Nil /\ sock[g] # Nil
      BY <2>0, <2>1 DEF Inv, Types, TypeOK
    <3>3. sock[g][1] = s[1]
      BY <1>b DEF Inv, Reached
    <3>4. Uses(b) /\ Uses(g) /\ Holds(b)
      BY <2>1, <3>2 DEF Uses, Holds
    <3>5. sock[b][1] = h
      BY <2>0, <3>4 DEF Inv, SocketsLive
    <3> QED BY <2>0, <3>1, <3>2, <3>3, <3>4, <3>5
  <2> HIDE DEF g, h, s
  <2>4. /\ p \in Socket \X Socket /\ p[1] = sock[b] /\ p[2] = sock[g] /\ p[1][1] = h /\ p[2][1] = s[1]
    BY <2>3
  <2> HIDE DEF p
  <2>5. /\ links' \in [Socket \X Socket -> Nat] /\ links'[p] = links[p] + 1 /\ links'[p] > 0
        /\ \A q \in Socket \X Socket : q # p => links'[q] = links[q]
        /\ \A q \in Socket \X Socket : links[q] > 0 => links'[q] > 0
    BY <2>0, <2>1, <2>4
  <2>6. causes \subseteq causes' /\ causes' \subseteq Causes /\ ("split" \in causes' <=> "split" \in causes)
    BY <2>1 DEF Inv, Types, TypeOK, Causes
  <2>7. Types'
    <3>1. pc' \in [Actors -> Labels] /\ sock' \in [Actors -> Socket \cup {Nil}]
      BY <2>0, <2>1 DEF Labels
    <3>2. \A a \in Actors \ Mains : pc'[a] \in {"store", "use", "joined", "dialling"} => sock'[a] # Nil
      BY <2>2 DEF Inv, Types, TypeOK
    <3> QED BY <2>1, <2>5, <2>6, <3>1, <3>2 DEF Inv, Types, TypeOK
  <2>8. Control'
    BY <2>0, <2>1, <2>2, <2>3 DEF Inv, Control, Handling, Actors
  <2>9. Reached'
    <3>1. ASSUME NEW o \in Browsers, At(o, "dialling")'
          PROVE  pc'[<<o, "dialled">>] # "idle" /\ sock'[<<o, "dialled">>][1] = name'[o][1]
      <4>1. o # b /\ At(o, "dialling") /\ <<o, "dialled">> \notin {b, g}
        BY <2>0, <2>2, <3>1 DEF At
      <4> QED BY <2>0, <2>1, <2>2, <4>1 DEF Inv, Reached
    <3> QED BY <3>1 DEF Reached
  <2>10. Names' /\ Numbered'
    BY <2>1 DEF Inv, Names, Numbered
  <2>11. \A a \in Actors : /\ Holds(a)' => Holds(a) /\ sock'[a] = sock[a]
                           /\ Uses(a)' => Uses(a) /\ sock'[a] = sock[a]
    BY <2>2 DEF Holds, Uses
  <2>12. SocketsLive'
    BY <2>1, <2>11 DEF Inv, SocketsLive, Lives
  <2>13. \A k, l \in Hosts : Hears(k, l) # {} => Hears(k, l)' # {}
    BY <2>5 DEF Hears
  <2>14. \A o \in Browsers : At(o, "register")' <=> At(o, "register") \/ o = b
    BY <2>0, <2>2 DEF At
  <2>15. Linked'
    <3>1. ASSUME losses = 0, NEW o \in Browsers, At(o, "register")', advert[name[o]] # "gone"
          PROVE  Hears(o[1], name[o][1])' # {}
      <4>1. CASE o = b
        BY <2>1, <2>4, <2>5, <4>1 DEF Hears, h, s
      <4>2. CASE o # b
        <5>1. Hears(o[1], name[o][1]) # {}
          BY <2>14, <3>1, <4>2 DEF Inv, Linked
        <5> QED BY <2>1, <2>5, <5>1 DEF Hears
      <4> QED BY <4>1, <4>2
    <3> QED BY <2>1, <3>1 DEF Linked, Hears
  <2>16. LinksComplete'
    <3>1. \A k \in Hosts : \A t \in registered[k] : t[1] \in Hosts
      BY DEF Inv, Types, TypeOK, Socket
    <3> QED BY <2>1, <2>13, <3>1 DEF Inv, LinksComplete
  <2>17. Unsplit'
    <3> SUFFICES ASSUME "split" \notin causes PROVE Unsplit'
      BY <2>6 DEF Unsplit
    <3>1. \A t \in Socket : Lives(t)' => t[2] = made'[t[1]]
      BY <2>1 DEF Inv, Unsplit, Lives
    <3>2. \A a \in Actors : Uses(a)' => current'[sock'[a][1]] = sock'[a]
      BY <2>1, <2>11 DEF Inv, Unsplit
    <3>3. current[p[1][1]] = p[1] /\ current[p[2][1]] = p[2]
      BY <2>0, <2>3, <2>4 DEF Inv, Unsplit
    <3>4. \A q \in Socket \X Socket : links'[q] > 0 => q[1] = current'[q[1][1]] /\ q[2] = current'[q[2][1]]
      BY <2>1, <2>5, <3>3 DEF Inv, Unsplit
    <3> QED BY <3>1, <3>2, <3>4 DEF Unsplit
  <2>18. Meshed'
    <3> SUFFICES ASSUME causes' = {} PROVE Meshed'
      BY DEF Meshed
    <3>1. causes = {} /\ Lives(s) /\ s' = s /\ Lives(s)'
      BY <2>1, <2>3, <2>6 DEF Lives, s
    <3>2. \A o \in Browsers : Handling(o)' <=> Handling(o)
      BY <2>0, <2>1, <2>2 DEF Handling
    <3>3. \A o \in Browsers : Handling(o)' => name'[o] \notin registered'[o[1]]
      BY <2>1, <3>1, <3>2 DEF Inv, Meshed
    <3>4. \A o, q \in Browsers : Handling(o)' /\ Handling(q)' /\ o[1] = q[1] /\ name'[o] = name'[q] => o = q
      BY <2>1, <3>1, <3>2 DEF Inv, Meshed
    <3>5. \A k \in Hosts, t \in Socket : Knows(k, t) => Knows(k, t)'
      BY <2>1, <2>14 DEF Knows
    <3>6. Knows(h, s)'
      BY <2>1, <2>2 DEF Knows, At, h, s
    <3>7. ~Knows(h, s)
      <4>1. s \notin registered[h]
        BY <2>3, <3>1 DEF Inv, Meshed, h, s
      <4>2. ASSUME NEW o \in Browsers, o[1] = h, At(o, "register"), name[o] = s PROVE FALSE
        <5>1. Handling(o) /\ o # b
          BY <2>1, <4>2 DEF Handling, At
        <5> QED BY <2>3, <3>1, <4>2, <5>1 DEF Inv, Meshed, h, s
      <4> QED BY <4>1, <4>2 DEF Knows
    <3>8. \A t \in Socket : Lives(t) /\ t[1] = s[1] => t = s
      <4>1. \A t \in Socket : Lives(t) => t[2] = made[t[1]]
        BY <3>1 DEF Inv, Unsplit
      <4>2. \A t \in Socket : t = <<t[1], t[2]>>
        BY DEF Socket
      <4> QED BY <2>3, <3>1, <4>1, <4>2
    <3>9. ASSUME NEW q \in Socket \X Socket, links'[q] > 0, q[1][1] # q[2][1]
          PROVE  links'[q] = 1 /\ \E t \in Socket : t[1] = q[2][1] /\ Lives(t)' /\ Knows(q[1][1], t)'
      <4>1. CASE q = p
        <5>1. ~(links[p] > 0)
          BY <2>3, <2>4, <3>1, <3>7, <3>8, <3>9, <4>1 DEF Inv, Meshed
        <5>2. links[p] \in Nat
          BY <2>0, <2>4
        <5> QED BY <2>3, <2>4, <2>5, <3>1, <3>6, <4>1, <5>1, <5>2
      <4>2. CASE q # p
        <5>1. links[q] > 0 /\ links'[q] = links[q] /\ q[1][1] \in Hosts
          BY <2>5, <3>9, <4>2 DEF Socket
        <5> QED BY <2>1, <3>1, <3>5, <3>9, <5>1 DEF Inv, Meshed, Lives
      <4> QED BY <4>1, <4>2
    <3> QED BY <3>3, <3>4, <3>9 DEF Meshed
  <2> QED BY <2>7, <2>8, <2>9, <2>10, <2>12, <2>15, <2>16, <2>17, <2>18 DEF Inv
<1> QED BY <1>a, <1>b

\* A restart takes everything of its host along: who ran there begins anew,
\* its names are gone, its links are cut, and dials it was answering fail.
LEMMA RestartKeeps == ASSUME Inv, NEW h \in Hosts, Restart(h) PROVE Inv'
<1> DEFINE ends == { a \in Actors : ~(a \in Handlers /\ At(a, "idle")) /\ Place(a) = h }
           cutOff == { b \in Browsers : At(b, "dialling") /\ <<b, "dialled">> \in ends } \ ends
<1>0. /\ pc \in [Actors -> Labels] /\ sock \in [Actors -> Socket \cup {Nil}]
      /\ name \in [Browsers -> Socket \cup {Nil}] /\ links \in [Socket \X Socket -> Nat]
      /\ advert \in [Socket -> {"none", "starting", "published", "marked", "gone"}]
      /\ registered \in [Hosts -> SUBSET Socket] /\ current \in [Hosts -> Socket \cup {Nil}]
      /\ entries \in [Browsers -> SUBSET Socket] /\ sent \in [Browsers -> SUBSET Socket]
      /\ query \in [Hosts -> (UNION { Rounds[k] : k \in Hosts }) \cup {Nil}]
      /\ \A k \in Hosts : query[k] \in Rounds[k] \cup {Nil}
      /\ restarts \in [Hosts -> Nat] /\ \A k \in Hosts : restarts[k] \in 0..MaxRestarts[k]
      /\ MaxRestarts \in [Hosts -> Nat]
      /\ \A s \in Socket : s[1] \in Hosts
  BY Bounds DEF Inv, Types, TypeOK, Socket
<1>1. /\ restarts[h] < MaxRestarts[h] /\ restarts' = [restarts EXCEPT ![h] = @ + 1]
      /\ pc' = [a \in Actors |-> IF a \in ends THEN Start(a)
                                 ELSE IF a \in cutOff THEN "select" ELSE pc[a]]
      /\ sock' = [a \in Actors |-> IF a \in ends \cup cutOff THEN Nil ELSE sock[a]]
      /\ name' = [b \in Browsers |-> IF b \in ends \cup cutOff THEN Nil ELSE name[b]]
      /\ entries' = [b \in Browsers |-> IF b \in ends THEN {} ELSE entries[b]]
      /\ sent' = [b \in Browsers |-> IF b \in ends THEN {} ELSE sent[b]]
  BY DEF Restart
<1>2. /\ current' = [current EXCEPT ![h] = Nil]
      /\ advert' = [s \in Socket |-> IF s[1] = h /\ advert[s] # "none" THEN "gone" ELSE advert[s]]
      /\ registered' = [registered EXCEPT ![h] = {}] /\ query' = [query EXCEPT ![h] = Nil]
      /\ links' = [p \in Socket \X Socket |-> IF h \in {p[1][1], p[2][1]} THEN 0 ELSE links[p]]
      /\ UNCHANGED <<made, causes, losses>>
  BY DEF Restart
<1>3. /\ \A a \in Actors \ Handlers : a \in ends <=> a[1] = h
      /\ \A g \in Handlers : g \in ends => pc[g] # "idle"
      /\ \A g \in Handlers : pc[g] # "idle" => (g \in ends <=> sock[g][1] = h)
  BY Kinds DEF Place, At, Actors
<1>4. /\ cutOff \subseteq Browsers /\ cutOff \cap ends = {} /\ ends \subseteq Actors
      /\ \A b \in cutOff : pc[b] = "dialling"
      /\ \A b \in Browsers : pc[b] = "dialling" /\ <<b, "dialled">> \in ends => b \in ends \cup cutOff
  BY DEF At
<1> HIDE DEF ends, cutOff
<1>5. /\ \A a \in ends : pc'[a] = Start(a) /\ sock'[a] = Nil
      /\ \A b \in cutOff : b \in Actors /\ pc'[b] = "select" /\ sock'[b] = Nil
      /\ \A a \in Actors : a \notin ends \cup cutOff => pc'[a] = pc[a] /\ sock'[a] = sock[a]
      /\ \A b \in Browsers : name'[b] = IF b \in ends \cup cutOff THEN Nil ELSE name[b]
  BY <1>1, <1>4 DEF Actors
<1>6. /\ \A a \in Mains : Start(a) \in {"create", "use"}
      /\ \A a \in Requests : Start(a) = "new"
      /\ \A a \in Browsers \cup Handlers : Start(a) = "idle"
      /\ \A a \in Actors : Start(a) \in {"create", "use", "new", "idle"}
  BY Kinds DEF Start, Actors
<1>7. \A s \in Socket : /\ advert'[s] = "none" <=> advert[s] = "none"
                        /\ s[1] # h => advert'[s] = advert[s]
                        /\ advert'[s] \notin {"none", "gone"} => s[1] # h
                        /\ advert[s] = "gone" => advert'[s] = "gone"
  BY <1>0, <1>2
<1>8. \A p \in Socket \X Socket : /\ links'[p] > 0 => links[p] > 0 /\ links'[p] = links[p] /\ p[1][1] # h /\ p[2][1] # h
                                  /\ p[1][1] # h /\ p[2][1] # h => links'[p] = links[p]
  BY <1>0, <1>2
<1>9. \A k \in Hosts : /\ k # h => registered'[k] = registered[k] /\ current'[k] = current[k]
                       /\ registered'[h] = {} /\ current'[h] = Nil
  BY <1>0, <1>2
<1>10. Types'
  <2>1. pc' \in [Actors -> Labels]
    BY <1>0, <1>1, <1>6 DEF Labels
  <2>2. /\ sock' \in [Actors -> Socket \cup {Nil}] /\ name' \in [Browsers -> Socket \cup {Nil}]
        /\ entries' \in [Browsers -> SUBSET Socket] /\ sent' \in [Browsers -> SUBSET Socket]
    BY <1>0, <1>1
  <2>3. /\ current' \in [Hosts -> Socket \cup {Nil}] /\ registered' \in [Hosts -> SUBSET Socket]
        /\ query' \in [Hosts -> (UNION { Rounds[k] : k \in Hosts }) \cup {Nil}]
        /\ \A k \in Hosts : query'[k] \in Rounds[k] \cup {Nil}
    BY <1>0, <1>2
  <2>4. advert' \in [Socket -> {"none", "starting", "published", "marked", "gone"}]
    BY <1>0, <1>2
  <2>5. links' \in [Socket \X Socket -> Nat]
    BY <1>0, <1>2
  <2>6. restarts' \in [Hosts -> Nat] /\ \A k \in Hosts : restarts'[k] \in 0..MaxRestarts[k]
    BY <1>0, <1>1
  <2>7. \A a \in Actors \ Mains : pc'[a] \in {"store", "use", "joined", "dialling"} => sock'[a] # Nil
    <3>1. \A a \in Actors \ Mains : pc[a] \in {"store", "use", "joined", "dialling"} => sock[a] # Nil
      BY DEF Inv, Types, TypeOK
    <3> QED BY <1>4, <1>5, <1>6, <3>1 DEF Actors
  <2> QED BY <1>2, <2>1, <2>2, <2>3, <2>4, <2>5, <2>6, <2>7 DEF Inv, Types, TypeOK
<1>11. \A a \in Actors : /\ Holds(a)' => Holds(a) /\ a \notin ends \cup cutOff
                         /\ Uses(a)' => Uses(a) /\ Holds(a) /\ a \notin ends \cup cutOff
  BY <1>4, <1>5 DEF Holds, Uses
<1>12. \A b \in Browsers : /\ Handling(b)' => Handling(b) /\ b \notin ends \cup cutOff
                           /\ At(b, "register")' => At(b, "register") /\ b \notin ends \cup cutOff
                           /\ b[1] # h /\ At(b, "register") => At(b, "register")' /\ name'[b] = name[b]
  <2>1. \A b \in Browsers : b \in Actors /\ b \notin Handlers
    BY Kinds DEF Actors
  <2> QED BY <1>3, <1>4, <1>5, <1>6, <2>1 DEF Handling, At
<1>13. Control'
  <2>1. \A a \in Mains : pc'[a] \in {"create", "store", "use"}
    BY <1>4, <1>5, <1>6, Kinds DEF Inv, Control, Actors
  <2>2. \A a \in Requests : pc'[a] \in {"new", "resolve", "create", "store", "use", "joined"}
    BY <1>4, <1>5, <1>6, Kinds DEF Inv, Control, Actors
  <2>3. \A g \in Handlers : /\ pc'[g] \in {"idle", "resolve", "create", "store", "use"}
                            /\ pc'[g] # "idle" => sock'[g] # Nil
    BY <1>4, <1>5, <1>6, Kinds DEF Inv, Control, Actors
  <2>4. \A b \in Browsers : pc'[b] \in {"idle", "select", "resolve", "create", "store",
                                        "use", "dialling", "register"}
    BY <1>4, <1>5, <1>6 DEF Inv, Control, Actors
  <2>5. \A b \in Browsers : Handling(b)' => name'[b] # Nil
    BY <1>5, <1>12 DEF Inv, Control
  <2>6. \A a \in Actors : pc'[a] = "store" => sock'[a] # Nil
    BY <1>4, <1>5, <1>6 DEF Inv, Control
  <2> QED BY <2>1, <2>2, <2>3, <2>4, <2>5, <2>6 DEF Control
<1>14. Reached'
  <2>1. ASSUME NEW b \in Browsers, At(b, "dialling")'
        PROVE  pc'[<<b, "dialled">>] # "idle" /\ sock'[<<b, "dialled">>][1] = name'[b][1]
    <3>1. /\ b \in Actors /\ <<b, "dialled">> \in Actors
          /\ <<b, "dialled">> \in Handlers /\ <<b, "dialled">> \notin Browsers
      BY Kinds DEF Actors
    <3>2. b \notin ends \cup cutOff /\ pc[b] = "dialling"
      BY <1>5, <1>6, <2>1, <3>1 DEF At
    <3>3. <<b, "dialled">> \notin ends \cup cutOff
      BY <1>4, <3>1, <3>2
    <3> QED BY <1>5, <3>1, <3>2, <3>3 DEF Inv, Reached, At
  <2> QED BY <2>1 DEF Reached
<1>15. Names'
  <2>1. \A b \in Browsers : name'[b] # Nil => name'[b] = name[b] /\ name[b] \in Socket
    BY <1>0, <1>5
  <2>2. \A b \in Browsers : entries'[b] \subseteq entries[b] /\ entries[b] \subseteq Socket
    BY <1>0, <1>1
  <2>3. \A k \in Hosts : registered'[k] \subseteq registered[k] /\ registered[k] \subseteq Socket
    BY <1>0, <1>9
  <2> QED BY <1>7, <2>1, <2>2, <2>3 DEF Inv, Names
<1>16. Numbered'
  BY <1>2, <1>7 DEF Inv, Numbered
<1>17. \A a \in Actors : Holds(a)' => /\ sock'[a] = sock[a] /\ sock[a] \in Socket /\ sock[a][1] # h
                                      /\ Lives(sock[a]) /\ Lives(sock[a])'
                                      /\ (a \notin Handlers => sock[a][1] = a[1])
  <2>1. ASSUME NEW a \in Actors, Holds(a)'
        PROVE  /\ sock'[a] = sock[a] /\ sock[a] \in Socket /\ sock[a][1] # h
               /\ Lives(sock[a]) /\ (a \notin Handlers => sock[a][1] = a[1])
    <3>1. Holds(a) /\ a \notin ends \cup cutOff /\ sock'[a] = sock[a]
      BY <1>5, <1>11, <2>1
    <3>2. sock[a] \in Socket /\ Lives(sock[a]) /\ (a \notin Handlers => sock[a][1] = a[1])
      BY <1>0, <3>1 DEF Inv, SocketsLive, Holds
    <3>3. pc[a] # "idle"
      BY <3>1 DEF Holds
    <3> QED BY <1>3, <3>1, <3>2, <3>3
  <2> QED BY <1>7, <2>1 DEF Lives
<1>18. SocketsLive'
  <2>1. \A k \in Hosts : current'[k] # Nil => Lives(current[k])' /\ current'[k][1] = k
    <3>1. \A k \in Hosts : current'[k] # Nil =>
             current'[k] = current[k] /\ k # h /\ current[k] \in Socket /\ Lives(current[k]) /\ current[k][1] = k
      BY <1>0, <1>9 DEF Inv, SocketsLive
    <3> QED BY <1>7, <3>1 DEF Lives
  <2> QED BY <1>17, <2>1 DEF SocketsLive
<1>19. \A k, l \in Hosts : k # h /\ l # h => Hears(k, l)' = Hears(k, l)
  BY <1>8 DEF Hears
<1>20. Linked'
  <2>1. ASSUME losses = 0, NEW b \in Browsers, At(b, "register")', advert'[name'[b]] # "gone"
        PROVE  \E p \in Socket \X Socket : p[1][1] = b[1] /\ p[2][1] = name'[b][1] /\ links'[p] > 0
    <3>1. /\ At(b, "register") /\ b \notin ends \cup cutOff /\ name'[b] = name[b]
          /\ b \in Actors /\ b \notin Handlers /\ b[1] \in Hosts /\ Handling(b)
      BY <1>5, <1>12, <2>1, Kinds DEF Actors, Handling, At
    <3>2. name[b] \in Socket /\ advert[name[b]] # "none"
      BY <1>0, <3>1 DEF Inv, Control, Names
    <3>3. b[1] # h /\ name[b][1] # h /\ advert[name[b]] # "gone"
      BY <1>3, <1>7, <2>1, <3>1, <3>2
    <3>4. PICK p \in Socket \X Socket : p[1][1] = b[1] /\ p[2][1] = name[b][1] /\ links[p] > 0
      BY <2>1, <3>1, <3>3 DEF Inv, Linked, Hears
    <3> QED BY <1>8, <3>1, <3>3, <3>4
  <2> QED BY <1>2, <2>1 DEF Linked, Hears
<1>21. LinksComplete'
  <2>1. ASSUME losses = 0, NEW k \in Hosts, NEW s \in registered'[k], advert'[s] # "gone"
        PROVE  \E p \in Socket \X Socket : p[1][1] = k /\ p[2][1] = s[1] /\ links'[p] > 0
    <3>1. k # h /\ s \in registered[k] /\ s \in Socket
      BY <1>0, <1>9, <2>1
    <3>2. advert[s] # "none"
      BY <3>1 DEF Inv, Names
    <3>3. s[1] # h /\ advert[s] # "gone"
      BY <1>7, <2>1, <3>1, <3>2
    <3>4. PICK p \in Socket \X Socket : p[1][1] = k /\ p[2][1] = s[1] /\ links[p] > 0
      BY <2>1, <3>1, <3>3 DEF Inv, LinksComplete, Hears
    <3> QED BY <1>8, <3>1, <3>3, <3>4
  <2>2. ASSUME losses = 0, NEW k \in Hosts, NEW s \in registered'[k], advert'[s] # "gone"
        PROVE  { p \in Socket \X Socket : p[1][1] = k /\ p[2][1] = s[1] /\ links'[p] > 0 } # {}
    BY <2>1, <2>2
  <2>3. losses' = losses
    BY <1>2
  <2> QED BY <2>2, <2>3 DEF LinksComplete, Hears
<1>22. Unsplit'
  <2> SUFFICES ASSUME "split" \notin causes PROVE Unsplit'
    BY <1>2 DEF Unsplit
  <2>1. \A s \in Socket : Lives(s)' => s[2] = made'[s[1]]
    BY <1>2, <1>7 DEF Inv, Unsplit, Lives
  <2>2. \A a \in Actors : Uses(a)' => current'[sock'[a][1]] = sock'[a]
    <3>1. ASSUME NEW a \in Actors, Uses(a)' PROVE current'[sock'[a][1]] = sock'[a]
      <4>1. Uses(a) /\ Holds(a)'
        BY <1>11, <3>1 DEF Uses, Holds
      <4> QED BY <1>0, <1>9, <1>17, <4>1 DEF Inv, Unsplit
    <3> QED BY <3>1
  <2>3. \A p \in Socket \X Socket : links'[p] > 0 => p[1] = current'[p[1][1]] /\ p[2] = current'[p[2][1]]
    <3>1. \A p \in Socket \X Socket : p[1][1] \in Hosts /\ p[2][1] \in Hosts
      BY <1>0
    <3> QED BY <1>8, <1>9, <3>1 DEF Inv, Unsplit
  <2> QED BY <2>1, <2>2, <2>3 DEF Unsplit
<1>23. Meshed'
  <2> SUFFICES ASSUME causes = {} PROVE Meshed'
    BY <1>2 DEF Meshed
  <2>1. \A b \in Browsers : Handling(b)' => Handling(b) /\ name'[b] = name[b] /\ b[1] \in Hosts /\ b[1] # h
    BY <1>3, <1>5, <1>12, Kinds DEF Actors
  <2>2. \A b \in Browsers : Handling(b)' => name'[b] \notin registered'[b[1]]
    BY <1>9, <2>1 DEF Inv, Meshed
  <2>3. \A b, o \in Browsers : Handling(b)' /\ Handling(o)' /\ b[1] = o[1] /\ name'[b] = name'[o] => b = o
    BY <2>1 DEF Inv, Meshed
  <2>4. \A k \in Hosts, s \in Socket : k # h /\ Knows(k, s) => Knows(k, s)'
    BY <1>9, <1>12 DEF Knows
  <2>5. ASSUME NEW p \in Socket \X Socket, links'[p] > 0, p[1][1] # p[2][1]
        PROVE  links'[p] = 1 /\ \E s \in Socket : s[1] = p[2][1] /\ Lives(s)' /\ Knows(p[1][1], s)'
    <3>1. links[p] > 0 /\ links'[p] = links[p] /\ p[1][1] # h /\ p[2][1] # h /\ p[1][1] \in Hosts
      BY <1>0, <1>8, <2>5
    <3>2. PICK s \in Socket : s[1] = p[2][1] /\ Lives(s) /\ Knows(p[1][1], s)
      BY <2>5, <3>1 DEF Inv, Meshed
    <3>3. Lives(s)' /\ Knows(p[1][1], s)'
      BY <1>7, <2>4, <3>1, <3>2 DEF Lives
    <3>4. links[p] = 1
      BY <2>5, <3>1 DEF Inv, Meshed
    <3> QED BY <3>1, <3>2, <3>3, <3>4
  <2> QED BY <2>2, <2>3, <2>5 DEF Meshed
<1> QED BY <1>10, <1>13, <1>14, <1>15, <1>16, <1>18, <1>20, <1>21, <1>22, <1>23 DEF Inv

----------------------------------------------------------------------------
(* The theorems.                                                           *)

\* Every step of every goroutine keeps the invariant.
LEMMA NextKeeps == Inv /\ [Next]_vars => Inv'
<1> SUFFICES ASSUME Inv, [Next]_vars PROVE Inv'
  OBVIOUS
<1>1. CASE UNCHANGED vars
  <2>1. UNCHANGED <<pc, sock, current, made, advert, query, entries, sent, name,
                    registered, links, causes, restarts, losses>>
    BY <1>1 DEF vars, map, browse, history
  <2>2. Types'
    BY <2>1 DEF Inv, Types, TypeOK
  <2>3. Control' /\ Reached' /\ Names' /\ Numbered' /\ SocketsLive' /\ Unsplit'
    BY <2>1 DEF Inv, Control, Reached, Names, Numbered, SocketsLive, Unsplit, Handling, At, Holds, Uses, Lives
  <2>4. SameLives /\ SameRounds
    BY <2>1 DEF SameLives, SameRounds, Handling, At
  <2> QED BY <2>1, <2>2, <2>3, <2>4, Kept DEF Inv
<1>2. ASSUME NEW a \in Actors, UseMap(a) PROVE Inv'
  BY <1>2, ResolveKeeps, CreateKeeps, StoreSocketKeeps, JoinKeeps DEF UseMap
<1>3. ASSUME NEW a \in Requests, Request(a) PROVE Inv'
  BY <1>3, RequestKeeps
<1>4. ASSUME NEW s \in Socket, Advertise(s) PROVE Inv'
  BY <1>4, AdvertiseKeeps
<1>5. ASSUME NEW b \in Browsers, Browsing(b) PROVE Inv'
  BY <1>5, StartRoundKeeps, EndRoundKeeps, DialKeeps, DialFailsKeeps, UpgradeKeeps, RegisterKeeps
     DEF Browsing, Handles
<1>6. ASSUME NEW b \in Browsers, NEW s \in Socket, Answer(b, s) \/ Take(b, s) PROVE Inv'
  BY <1>6, AnswerKeeps, TakeKeeps
<1>7. ASSUME NEW p \in Socket \X Socket, LoseLink(p) PROVE Inv'
  BY <1>7, LoseLinkKeeps
<1>8. ASSUME NEW h \in Hosts, Restart(h) PROVE Inv'
  BY <1>8, RestartKeeps
<1> QED BY <1>1, <1>2, <1>3, <1>4, <1>5, <1>6, <1>7, <1>8 DEF Next

\* The invariant holds in every state of every run.
THEOREM InvAlways == Spec => []Inv
BY InitInv, NextKeeps, PTL DEF Spec

\* Types, and that who goes on with a socket has one (service.go:160-175).
THEOREM TypesOfNetwork == Spec => []TypeOK
<1>1. Inv => TypeOK
  BY DEF Inv, Types
<1> QED BY <1>1, InvAlways, PTL

\* Without a split the clients of a host are on the socket its map names,
\* whatever is lost, restarted or dialled twice (service.go:160-164).
THEOREM ClientsMeet == Spec => []ClientsTogether
<1>1. Inv => ClientsTogether
  <2> SUFFICES ASSUME Inv, "split" \notin causes, NEW a \in Requests, At(a, "joined")
               PROVE  sock[a] = current[a[1]]
    BY DEF ClientsTogether
  <2>1. a \in Actors /\ a \notin Mains /\ a \notin Handlers
    BY Kinds DEF Actors
  <2>2. Uses(a) /\ Holds(a)
    BY <2>1 DEF Inv, Types, TypeOK, Uses, Holds, At
  <2> QED BY <2>1, <2>2 DEF Inv, SocketsLive, Unsplit
<1> QED BY <1>1, InvAlways, PTL

\* A name is written off only once there is a link, however dials fail and
\* proxies restart (discovery.go:178-193).
THEOREM NobodyLeftOut == Spec => []LinksComplete
<1>1. Inv => LinksComplete
  BY DEF Inv
<1> QED BY <1>1, InvAlways, PTL

\* Two hosts are linked at most once, between the sockets in use, unless there
\* was a split, an overlap or a stale name (discovery.go:127-195).
THEOREM OneLinkEach == Spec => []LinksExact
<1>1. Inv => LinksExact
  <2> SUFFICES ASSUME Inv, causes = {}, NEW a \in Hosts, NEW b \in Hosts, a # b, NEW p \in Hears(a, b)
               PROVE  p = <<current[a], current[b]>> /\ links[p] = 1
    BY DEF LinksExact
  <2>1. p \in Socket \X Socket /\ links[p] > 0 /\ p[1][1] = a /\ p[2][1] = b /\ p = <<p[1], p[2]>>
    BY DEF Hears
  <2> QED BY <2>1 DEF Inv, Unsplit, Meshed
<1> QED BY <1>1, InvAlways, PTL

=============================================================================
