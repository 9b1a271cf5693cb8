------------------------------ MODULE MCAgent -------------------------------
(* A small instance of the Android agent: its UPnP half with two devices, its Bluetooth half   *)
(* with two others, one client each.  The halves share no state, so nothing is lost when one   *)
(* of them moves and the other rests as it started; "half" says which.                         *)
EXTENDS Agent

CONSTANTS d1, d2, cl
VARIABLE half

HalfInit == /\ AgentInit /\ half \in {"upnp", "bluetooth"}
            /\ half = "upnp" => adapter = "off"
HalfNext == \/ half = "upnp" /\ UpnpStep /\ UNCHANGED half
            \/ half = "bluetooth" /\ BluetoothStep /\ UNCHANGED half

\* The fairness of each half.  Where the other half moves, none of these steps is possible.
all == <<half, upnpVars, btVars>>
Upnp      == half = "upnp" /\ UNCHANGED <<half, btVars>>
Bluetooth == half = "bluetooth" /\ UNCHANGED <<half, upnpVars>>
HalfSpec == /\ HalfInit /\ [][HalfNext]_all
            /\ WF_all(Main /\ Upnp) /\ WF_all((\E k \in DOMAIN tasks : Step(k)) /\ Upnp)
            /\ WF_all(B!Receive /\ Bluetooth) /\ WF_all(B!TimerFires /\ Bluetooth)
            /\ WF_all(B!ScanEnds /\ Bluetooth)
            /\ \A d \in Near : WF_all(B!Finds(d) /\ Bluetooth)

\* Bound: of what multiplies the states and has little to do with each other, one thing at a time:
\* a fourth change of the UPnP registry or requests; somebody else's scan, a refused start, a
\* repeated report or requests.
Asked(cs, max) == \E c \in Clients : cs[c].left < max \/ cs[c].pc # "idle"
UpnpExtras == << nEvents = MaxEvents, Asked(client, MaxRequests) >>
BtExtras   == << others > 0, refused, \E d \in BtDevices : reported[d] > 1, Asked(asker, MaxAsks) >>
AtMostOne(s) == \A j, k \in DOMAIN s : s[j] /\ s[k] => j = k
OneExtra == AtMostOne(UpnpExtras) /\ AtMostOne(BtExtras)
=============================================================================
