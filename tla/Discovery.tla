------------------------------ MODULE Discovery ------------------------------
(***************************************************************************)
(* discovery.js, the API an application calls.  JavaScript runs one        *)
(* handler at a time, so a handler is a step.  A call returns a promise;   *)
(* what settles it, a value or an exception, is one of these ways:         *)
(*   now     the function itself                                           *)
(*   later   a callback of the browser that is sure to come                *)
(*   ask     such a callback may instead turn to the agent                 *)
(*   sensor  a sensor or the user, who may never answer                    *)
(*   prompt  the user, whose refusal turns to the agent                    *)
(*   jsonp   the agent's reply, or its failure                             *)
(*   wait    the same, and then a timer of 500 ms, or an exception         *)
(*   never   nothing: the code has no branch for this browser              *)
(* JSONP requests go through jQuery 2.1.3 (src/API/lib), its jsonp         *)
(* prefilter and its script transport: a request puts its handler under    *)
(* the callback name that discovery.js fixes for the function, the reply   *)
(* calls whatever handler is there, and the end of the request puts back   *)
(* the handler it found.                                                   *)
(* connectNWS keeps the last socket in one variable of the script.         *)
(***************************************************************************)
EXTENDS Integers, SequencesExt

CONSTANTS Calls,      \* promises an application asks for
          Asked,      \* functions it calls: pairs of a method and a technology
          Connects,   \* calls of connectNWS, each with a socket of its own
          Null        \* JavaScript's null and undefined

ASSUME NullAssumption == Null \notin Calls \cup Connects \cup {"data", "empty", "error"}

-----------------------------------------------------------------------------
\* The ways a function can take, one for each kind of browser and of what it holds.
namedwebsocketsPresence == {"later"}
batteryPresence         == {"now", "jsonp"}
bluetoothPresence       == {"jsonp"}
cameraPresence          == {"now", "ask", "jsonp"}
audioPresence           == {"now", "later", "never"}
deviceProximityPresence == {"now"}
geolocationPresence     == {"now", "jsonp"}
languagePresence        == {"now"}
orientationPresence     == {"now", "jsonp"}
screenSizePresence      == {"now", "jsonp"}
touchscreenPresence     == {"now", "jsonp"}
upnpPresence            == {"jsonp"}
userProximityPresence   == {"now", "jsonp"}
vibrationPresence       == {"now", "jsonp"}
agentPresence           == {"jsonp"}
connectionPresence      == {"now"}
deviceTypePresence      == {"now"}
batteryGetExtra         == {"now", "later", "jsonp"}
bluetoothGetExtra       == {"jsonp"}
cameraGetExtra          == {"now", "later", "jsonp"}
audioGetExtra           == {"now", "later"}
deviceProximityGetExtra == {"now", "sensor"}
geolocationGetExtra     == {"prompt", "jsonp"}
languageGetExtra        == {"now"}
orientationGetExtra     == {"now", "never", "jsonp"}
screenSizeGetExtra      == {"now", "jsonp"}
upnpGetExtra            == {"jsonp"}
userProximityGetExtra   == {"sensor", "jsonp"}
connectionGetExtra      == {"now"}
deviceTypeGetExtra      == {"now", "never"}
agentGetExtra           == {"wait"}

\* isPresent and getExtra choose the function by the technology.
Presence ==
  [ namedwebsockets |-> namedwebsocketsPresence, battery |-> batteryPresence,
    bluetooth |-> bluetoothPresence, camera |-> cameraPresence, audio |-> audioPresence,
    deviceproximity |-> deviceProximityPresence, geolocation |-> geolocationPresence,
    language |-> languagePresence, orientation |-> orientationPresence,
    screensize |-> screenSizePresence, touchscreen |-> touchscreenPresence,
    upnp |-> upnpPresence, userproximity |-> userProximityPresence,
    vibration |-> vibrationPresence, agent |-> agentPresence,
    connection |-> connectionPresence, devicetype |-> deviceTypePresence ]
Extra ==
  [ battery |-> batteryGetExtra, bluetooth |-> bluetoothGetExtra, camera |-> cameraGetExtra,
    audio |-> audioGetExtra, deviceproximity |-> deviceProximityGetExtra,
    geolocation |-> geolocationGetExtra, language |-> languageGetExtra,
    orientation |-> orientationGetExtra, screensize |-> screenSizeGetExtra,
    upnp |-> upnpGetExtra, userproximity |-> userProximityGetExtra,
    connection |-> connectionGetExtra, devicetype |-> deviceTypeGetExtra,
    agent |-> agentGetExtra ]

\* The other methods ask the agent, save for the devices of a named websocket, which the
\* script knows itself.
Devices    == [ bluetooth |-> {"jsonp"}, upnp |-> {"jsonp"}, namedwebsockets |-> {"now"} ]
Services   == [ bluetooth |-> {"jsonp"}, upnp |-> {"jsonp"} ]
Actions    == [ bluetooth |-> {"jsonp"}, upnp |-> {"jsonp"} ]
Parameters == [ bluetooth |-> {"jsonp"}, upnp |-> {"jsonp"} ]

Methods == [ isPresent |-> Presence, getExtra |-> Extra, getDevices |-> Devices,
             getServices |-> Services, getActions |-> Actions, getParameters |-> Parameters ]
Ways(f) == Methods[f[1]][f[2]]

ASSUME AskedAssumption == \A f \in Asked : f[1] \in DOMAIN Methods /\ f[2] \in DOMAIN Methods[f[1]]

VARIABLES
  call,      \* each call: its function, way, stage, the agent's reply and its answer
  window,    \* window[f]: the call whose handler is under the callback name of f
  box,       \* jQuery's responseContainer: the call whose reply was handed in
  found,     \* jQuery's overwritten: the handler a request found
  wire,      \* requests on their way, in the order they were sent
  crossed    \* history: requests of a function one of which ended before a newer one

VARIABLES
  networkWS, \* the script's variable
  conn,      \* each connectNWS: its socket, the peers told and filed, what it resolved to
  timers,    \* the timers of connectNWS, all of 500 ms, in their order
  shared     \* history: connects whose socket was not the only one alive

http == <<window, box, found, wire, crossed>>
sockets == <<networkWS, conn, timers, shared>>
vars == <<call, http, sockets>>

Stages == {"idle", "browser", "wire", "timer", "stuck", "settled"}

TypeOK ==
  /\ \A c \in Calls : call[c].pc \in Stages /\ (call[c].pc = "wire" <=> c \in ToSet(wire))
  /\ IsInjective(wire)
  /\ \A f \in Asked : window[f] # Null => call[window[f]].fn = f
  /\ \A c \in Calls : c \notin ToSet(wire) => found[c] = Null /\ box[c] = Null
  /\ networkWS \in Connects \cup {Null}

Init ==
  /\ call = [c \in Calls |-> [pc |-> "idle", fn |-> Null, way |-> Null, reply |-> Null, answer |-> Null]]
  /\ window = [f \in Asked |-> Null]
  /\ box = [c \in Calls |-> Null] /\ found = [c \in Calls |-> Null]
  /\ wire = <<>> /\ crossed = {}
  /\ networkWS = Null /\ timers = <<>> /\ shared = {}
  /\ conn = [n \in Connects |-> [ws |-> "none", told |-> 0, filed |-> 0, result |-> "pending"]]

-----------------------------------------------------------------------------
(* Calls.                                                                  *)

\* Mutant: a handler that is there already is left.
SendFirst(c, f, w) ==
  /\ call' = [call EXCEPT ![c].pc = "wire", ![c].fn = f, ![c].way = w]
  /\ found' = [found EXCEPT ![c] = window[f]]
  /\ window' = [window EXCEPT ![f] = IF @ = Null THEN c ELSE @]
  /\ wire' = Append(wire, c)
  /\ UNCHANGED <<box, crossed>>

\* Mutant: a function copied from another one keeps that one's callback name.
Copied(f) == CHOOSE g \in Asked : TRUE
SendCopied(c, f, w) ==
  /\ call' = [call EXCEPT ![c].pc = "wire", ![c].fn = f, ![c].way = w]
  /\ found' = [found EXCEPT ![c] = window[Copied(f)]]
  /\ window' = [window EXCEPT ![Copied(f)] = c]
  /\ wire' = Append(wire, c)
  /\ UNCHANGED <<box, crossed>>

\* $.ajax with a fixed jsonpCallback: the handler goes under its name.
Send(c, f, w) ==
  /\ call' = [call EXCEPT ![c].pc = "wire", ![c].fn = f, ![c].way = w]
  /\ found' = [found EXCEPT ![c] = window[f]]
  /\ window' = [window EXCEPT ![f] = c]
  /\ wire' = Append(wire, c)
  /\ UNCHANGED <<box, crossed>>

\* The application calls f; which way it goes depends on the browser.
Ask(c) ==
  /\ call[c].pc = "idle"
  /\ \E f \in Asked : \E w \in Ways(f) :
       \/ w \in {"jsonp", "wait"} /\ Send(c, f, w)
       \/ /\ w \notin {"jsonp", "wait"}
          /\ call' = [call EXCEPT
               ![c].fn = f, ![c].way = w,
               ![c].pc = CASE w = "now" -> "settled" [] w = "never" -> "stuck" [] OTHER -> "browser",
               ![c].answer = IF w = "now" THEN "native" ELSE Null]
          /\ UNCHANGED http
  /\ UNCHANGED sockets

BrowserSettles(c) ==
  /\ call[c].pc = "browser"
  /\ call' = [call EXCEPT ![c].pc = "settled", ![c].answer = "native"]
  /\ UNCHANGED <<http, sockets>>

BrowserRefuses(c) ==
  /\ call[c].pc = "browser" /\ call[c].way \in {"ask", "prompt"}
  /\ Send(c, call[c].fn, call[c].way)
  /\ UNCHANGED sockets

\* The end of a request, with got in its responseContainer.  jQuery puts back the handler it
\* found ...
PutBack(c) == window' = [window EXCEPT ![call[c].fn] = found[c]]

\* ... calls that handler with the reply as well, and empties the container ...
HandOn(c, got, boxes) ==
  box' = [d \in Calls |-> IF d = c THEN Null
                          ELSE IF d = found[c] /\ d \in ToSet(wire) /\ got # Null THEN got
                          ELSE boxes[d]]

\* ... and .done or .fail settles the promise; agentGetExtra sets its timer there or throws.
SettleOnDone(c, reply, answer) ==
  call' = [call EXCEPT ![c].reply = reply, ![c].answer = answer,
                       ![c].pc = IF answer = "notWorking" THEN "stuck" ELSE "settled"]
Settle(c, reply, answer) ==
  \E pc \in IF call[c].way = "wait" THEN {"timer", "stuck"} ELSE {"settled"} :
    call' = [call EXCEPT ![c].pc = pc, ![c].reply = reply, ![c].answer = answer]

\* c was sent before d; they are of one function; a newer request of it is still on its way.
Before(s, c, d) == \E j, k \in DOMAIN s : j < k /\ s[j] = c /\ s[k] = d
Alike(c, d) == call[c].fn = call[d].fn
Outlasted(c) == \E d \in Calls : Before(wire, c, d) /\ Alike(c, d)

Finish(c, reply, got, answer, boxes) ==
  /\ PutBack(c) /\ HandOn(c, got, boxes) /\ Settle(c, reply, answer)
  /\ found' = [found EXCEPT ![c] = Null]
  /\ \E k \in DOMAIN wire : wire[k] = c /\ wire' = RemoveAt(wire, k)
  /\ crossed' = IF Outlasted(c) THEN crossed \cup { d \in ToSet(wire) : Alike(c, d) } ELSE crossed
  /\ UNCHANGED sockets

\* The script is run and calls the handler that is there now, not always its own.
Loads(c) ==
  /\ call[c].pc = "wire"
  /\ LET h == window[call[c].fn]
         boxes == [d \in Calls |-> IF d = h /\ d \in ToSet(wire) THEN c ELSE box[d]]
     IN Finish(c, "data", boxes[c], IF boxes[c] = Null THEN "false" ELSE boxes[c], boxes)

\* A reply without a call: the agent had nothing to say.
LoadsEmpty(c) ==
  /\ call[c].pc = "wire"
  /\ Finish(c, "empty", box[c], IF box[c] = Null THEN "false" ELSE box[c], box)

\* No agent, or an error of it: jQuery says 404.
Fails(c) ==
  /\ call[c].pc = "wire"
  /\ Finish(c, "error", box[c], "notWorking", box)

\* agentGetExtra resolves 500 ms after the agent's reply or failure.
ExtraTimer(c) ==
  /\ call[c].pc = "timer"
  /\ call' = [call EXCEPT ![c].pc = "settled"]
  /\ UNCHANGED <<http, sockets>>

-----------------------------------------------------------------------------
(* connectNWS.                                                             *)

Living == { n \in Connects : conn[n].ws \in {"connecting", "open", "closing"} }

\* Mutant: the script's variable is shadowed by a local one.
ConnectNWSLocal(n) ==
  /\ conn[n].ws = "none"
  /\ conn' = [conn EXCEPT ![n].ws = "connecting"]
  /\ timers' = Append(timers, n)
  /\ shared' = IF Living # {} THEN shared \cup Living \cup {n} ELSE shared
  /\ UNCHANGED <<call, http, networkWS>>

ConnectNWS(n) ==
  /\ conn[n].ws = "none"
  /\ networkWS' = n
  /\ conn' = [conn EXCEPT ![n].ws = "connecting"]
  /\ timers' = Append(timers, n)
  /\ shared' = IF Living # {} THEN shared \cup Living \cup {n} ELSE shared
  /\ UNCHANGED <<call, http>>

Opens(n) ==
  /\ conn[n].ws = "connecting"
  /\ conn' = [conn EXCEPT ![n].ws = "open"]
  /\ UNCHANGED <<call, http, networkWS, timers, shared>>

\* onconnect files the peer under the script's variable, and throws when that is null.
OnConnect(n) ==
  /\ conn[n].ws = "open" /\ conn[n].told = 0
  /\ conn' = [m \in Connects |->
                [conn[m] EXCEPT !.told = IF m = n THEN 1 ELSE @,
                                !.filed = IF m = networkWS THEN @ + 1 ELSE @]]
  /\ UNCHANGED <<call, http, networkWS, timers, shared>>

\* onclose empties, closes and forgets the socket in the script's variable.
OnClose(n) ==
  /\ n \in Living
  /\ conn' = [m \in Connects |->
                [conn[m] EXCEPT !.ws = IF m = n THEN "closed"
                                       ELSE IF m = networkWS /\ m \in Living THEN "closing" ELSE @,
                                !.filed = IF m = networkWS THEN 0 ELSE @]]
  /\ networkWS' = Null
  /\ UNCHANGED <<call, http, timers, shared>>

\* The timer resolves with what the variable holds by then.
ConnectTimer ==
  /\ timers # <<>>
  /\ conn' = [conn EXCEPT ![Head(timers)].result = networkWS]
  /\ timers' = Tail(timers)
  /\ UNCHANGED <<call, http, networkWS, shared>>

-----------------------------------------------------------------------------
Call(c) == \/ Ask(c) \/ BrowserSettles(c) \/ BrowserRefuses(c)
           \/ Loads(c) \/ LoadsEmpty(c) \/ Fails(c) \/ ExtraTimer(c)
Connection(n) == ConnectNWS(n) \/ Opens(n) \/ OnConnect(n) \/ OnClose(n)

Next == \/ \E c \in Calls : Call(c)
        \/ \E n \in Connects : Connection(n)
        \/ ConnectTimer

Spec == Init /\ [][Next]_vars

\* A script element fires load or error some time, a timer fires, and so do the callbacks of
\* the browser that wait for neither a user nor a sensor.
Certain(c) == call[c].way \in {"later", "ask"} /\ (BrowserSettles(c) \/ BrowserRefuses(c))
FairSpec ==
  /\ Spec
  /\ \A c \in Calls : /\ WF_vars(Certain(c)) /\ WF_vars(ExtraTimer(c))
                      /\ WF_vars(Loads(c) \/ LoadsEmpty(c) \/ Fails(c))
  /\ WF_vars(ConnectTimer)

-----------------------------------------------------------------------------
\* Safety: as long as requests of one function end in the order they nest, the agent's reply
\* to a call and no other settles it, and a failure does so as "Service Not Working".  (A
\* reply without content does not: a call nested in it has then handed over its own.)
OwnAnswer ==
  \A c \in Calls \ crossed :
    call[c].pc \in {"timer", "settled"} =>
      /\ call[c].reply = "data"  => call[c].answer = c
      /\ call[c].reply = "error" => call[c].answer = "notWorking"

\* Safety: the variable never holds a socket whose close was handled, so getDevices (1681-1690)
\* never lists the peers of a closed one.
NotClosed == networkWS # Null => conn[networkWS].ws # "closed"

\* Safety: a connectNWS whose socket was the only one alive resolves with that socket or, once
\* it closed, with null, and files every peer it is told of.
SocketOwn ==
  \A n \in Connects \ shared :
    /\ conn[n].result \in {"pending", n} \/ conn[n].ws = "closed"
    /\ conn[n].ws = "open" => conn[n].filed = conn[n].told

\* Liveness: every call is settled, however requests overlap, save where the browser has no
\* branch (audio presence, device type and orientation), where a sensor or the user is asked,
\* and where agentGetExtra throws before it sets its timer (1244, 1607).
Settles ==
  \A c \in Calls :
    call[c].pc # "idle" ~> \/ call[c].pc = "settled"
                           \/ call[c].pc = "stuck" /\ call[c].way \in {"never", "wait"}
                           \/ call[c].pc = "browser" /\ call[c].way \in {"sensor", "prompt"}
=============================================================================
