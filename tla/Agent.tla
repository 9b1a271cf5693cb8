-------------------------------- MODULE Agent --------------------------------
(***************************************************************************)
(* The Android agent: its UPnP half (AgentUPnP) and its Bluetooth half (B) *)
(* in one process.  Each half has a vector, a source of events and the     *)
(* requests of its own resources; they share the HTTP server's pool of     *)
(* threads and nothing that either writes, so they interleave freely.      *)
(***************************************************************************)
EXTENDS AgentUPnP

CONSTANTS BtDevices, Near, Nameless, MaxSwitches, MaxOthers, MaxReports, MaxMail, MaxPlace,
          MaxAsks

\* A device is neither of the words that stand in an answer's place.
ASSUME BluetoothAssumption == MaxAsks \in Nat /\ BtDevices \cap {"none", "error"} = {}

VARIABLES created, adapter, scanning, reported, fetching, known, mail, timers,
          found, asker, switches, others, refused

B == INSTANCE AgentBluetooth WITH Devices <- BtDevices, MaxRequests <- MaxAsks,
                                  list <- found, client <- asker

upnpVars == vars
btVars   == <<created, adapter, scanning, reported, fetching, known, mail, timers, found,
              asker, switches, others, refused>>

AgentInit == Init /\ B!Init

UpnpStep      == Next /\ UNCHANGED btVars
BluetoothStep == B!Next /\ UNCHANGED upnpVars
AgentNext     == UpnpStep \/ BluetoothStep

AgentSpec == AgentInit /\ [][AgentNext]_<<upnpVars, btVars>>

\* The properties of the Bluetooth half (AgentBluetooth) under names of their own: a device
\* stands in the vector once and nothing is there before onCreate; rounds of scans do not
\* multiply; scans go on while Bluetooth is on; places and failures of requests are explained.
BluetoothTypes   == B!TypeOK
ChainsBounded    == B!ChainsBounded
ScansGoOn        == B!ScansGoOn
AnswersExplained == B!AnswersExplained
=============================================================================
