--------------------------- MODULE AgentBluetooth ---------------------------
(***************************************************************************)
(* The Bluetooth part of the Android agent: BluetoothService.java and the  *)
(* Bluetooth* resources.  The adapter tells of its scans and its switch by *)
(* broadcasts, which the main thread receives in order and some time       *)
(* later; a scan that finished sets a timer of 60 s for the next one.  The *)
(* threads of the HTTP server read the vector listBluetooth meanwhile.     *)
(***************************************************************************)
EXTENDS Integers, FiniteSets, SequencesExt

CONSTANTS Devices,      \* Bluetooth devices
          Near,         \* those that every scan finds
          Nameless,     \* those that do not tell their names
          Clients,      \* HTTP clients, each with one request at a time
          MaxSwitches,  \* bound: how often Bluetooth is switched on
          MaxOthers,    \* bound: scans that other applications start
          MaxReports,   \* bound: how often a scan reports a device
          MaxMail,      \* bound: broadcasts on their way before the adapter sends another
          MaxPlace,     \* bound: largest place a client asks for
          MaxRequests   \* bound: requests of a client

VARIABLES created,      \* onCreate is done: bluetoothSensor and listBluetooth are there
          adapter,      \* Android: no adapter, off or on
          scanning,     \* Android: isDiscovering()
          reported,     \* Android: how often this scan has reported a device
          fetching,     \* Android: devices whose services are being asked for
          known,        \* Android: devices whose services are in its cache
          mail,         \* broadcasts the receiver has not handled yet
          timers,       \* how many timers of 60 s are running
          list,         \* BluetoothService.listBluetooth
          client,       \* each client's request
          switches,     \* how often Bluetooth was switched on
          others,       \* scans that other applications started
          refused       \* history: a start was refused since Bluetooth was switched on

vars == <<created, adapter, scanning, reported, fetching, known, mail, timers, list,
          client, switches, others, refused>>
radio == <<adapter, reported, known, switches, others>>

Started  == <<"started", "none">>
Finished == <<"finished", "none">>
On       == <<"on", "none">>
Off      == <<"off", "none">>
Found(d) == <<"found", d>>
Mail     == {Started, Finished, On, Off} \cup { Found(d) : d \in Devices }

\* A client: the request it waits for, the last listing it was given, as long as the vector was
\* not cleared (seen), and of the history whether that happened, or Bluetooth was switched
\* off, since the request began (moved).
Idle == [pc |-> "idle", kind |-> "none", seen |-> <<>>, n |-> 0, answer |-> "none",
         moved |-> FALSE, left |-> MaxRequests]

Asking(c)  == client[c].pc # "idle"
Listing(c) == client[c].pc \in {"size", "get", "uuids"}

Size == Len(list)
\* getUuids() is null without them.
Uuids(d) == adapter = "on" /\ d \in known

Unreported == [d \in Devices |-> 0]

TypeOK ==
  /\ created \in BOOLEAN /\ refused \in BOOLEAN
  /\ adapter \in {"none", "off", "on"}
  /\ scanning \in BOOLEAN /\ (scanning => adapter = "on")
  /\ mail \in Seq(Mail) /\ timers \in Nat /\ switches \in Nat /\ others \in Nat
  /\ list \in Seq(Devices) /\ \A j, k \in DOMAIN list : list[j] = list[k] => j = k
  /\ ~created => mail = <<>> /\ timers = 0 /\ list = <<>>

Init == /\ created = FALSE /\ adapter \in {"none", "off", "on"} /\ scanning = FALSE
        /\ reported = Unreported /\ fetching = {} /\ known = {}
        /\ mail = <<>> /\ timers = 0 /\ list = <<>>
        /\ client = [c \in Clients |-> Idle]
        /\ switches = 0 /\ others = 0 /\ refused = FALSE

-----------------------------------------------------------------------------
\* startDiscovery, with the broadcasts q on their way and scanning or not (s).  The code never
\* looks at its result.
Start(q, s) ==
  \/ /\ adapter = "on" /\ ~s
     /\ scanning' = TRUE /\ reported' = Unreported /\ mail' = Append(q, Started) /\ UNCHANGED refused
  \/ /\ adapter = "on" /\ ~s /\ ~refused
     /\ refused' = TRUE /\ scanning' = FALSE /\ mail' = q /\ UNCHANGED reported
  \/ /\ adapter # "on" \/ s
     /\ scanning' = s /\ mail' = q /\ UNCHANGED <<reported, refused>>

\* The vector is cleared: the places clients have seen name nothing any more.
Clear ==
  /\ list' = <<>>
  /\ client' = [c \in Clients |-> [client[c] EXCEPT !.moved = @ \/ Asking(c),
                                                    !.seen = IF Listing(c) THEN @ ELSE <<>>]]

\* onCreate: somebody else's scan is stopped, which the receiver will hear of.
Create ==
  /\ ~created /\ created' = TRUE
  /\ \/ adapter = "on" /\ Start(IF scanning THEN <<Finished>> ELSE <<>>, FALSE)
     \/ adapter # "on" /\ UNCHANGED <<scanning, reported, mail, refused>>
  /\ UNCHANGED <<adapter, fetching, known, timers, list, client, switches, others>>

-----------------------------------------------------------------------------
\* Android.  Before onCreate nobody receives its broadcasts.
Tell(q) == mail' = IF created THEN mail \o q ELSE mail
MaySend == Len(mail) < MaxMail

SwitchOn ==
  /\ adapter = "off" /\ switches < MaxSwitches /\ MaySend
  /\ adapter' = "on" /\ switches' = switches + 1 /\ refused' = FALSE
  /\ Tell(<<On>>)
  /\ UNCHANGED <<created, scanning, reported, fetching, known, timers, list, client, others>>

SwitchOff ==
  /\ adapter = "on" /\ MaySend
  /\ adapter' = "off" /\ scanning' = FALSE /\ fetching' = {} /\ known' = {}
  /\ Tell(IF scanning THEN <<Finished, Off>> ELSE <<Off>>)
  /\ client' = [c \in Clients |-> [client[c] EXCEPT !.moved = @ \/ Asking(c)]]
  /\ UNCHANGED <<created, reported, timers, list, switches, others, refused>>

OtherScan ==
  /\ adapter = "on" /\ ~scanning /\ others < MaxOthers /\ MaySend
  /\ scanning' = TRUE /\ reported' = Unreported /\ others' = others + 1
  /\ Tell(<<Started>>)
  /\ UNCHANGED <<created, adapter, fetching, known, timers, list, client, switches, refused>>

Finds(d) ==
  /\ scanning /\ reported[d] < MaxReports /\ MaySend
  /\ reported' = [reported EXCEPT ![d] = @ + 1]
  /\ Tell(<<Found(d)>>)
  /\ UNCHANGED <<created, adapter, scanning, fetching, known, timers, list, client, switches,
                 others, refused>>

ScanEnds ==
  /\ scanning /\ (\A d \in Near : reported[d] > 0) /\ MaySend
  /\ scanning' = FALSE
  /\ Tell(<<Finished>>)
  /\ UNCHANGED <<created, radio, fetching, timers, list, client, refused>>

\* A device answers the question for its services, or does not.
FetchEnds(d) ==
  /\ d \in fetching /\ fetching' = fetching \ {d}
  /\ known' \in {known, known \cup {d}}
  /\ UNCHANGED <<created, adapter, scanning, reported, mail, timers, list, client, switches,
                 others, refused>>

-----------------------------------------------------------------------------
\* The main thread: onReceive and the timers.
Receives(what) == mail # <<>> /\ Head(mail)[1] = what

\* Mutant: the newest device first.
ReceiveFoundFirst ==
  /\ Receives("found") /\ mail' = Tail(mail)
  /\ LET d == Head(mail)[2] IN list' = IF d \in ToSet(list) THEN list ELSE <<d>> \o list
  /\ UNCHANGED <<created, radio, scanning, fetching, timers, client, refused>>

\* Mutant: no test whether the device is there.
ReceiveFoundAgain ==
  /\ Receives("found") /\ mail' = Tail(mail)
  /\ list' = Append(list, Head(mail)[2])
  /\ UNCHANGED <<created, radio, scanning, fetching, timers, client, refused>>

ReceiveFound ==
  /\ Receives("found") /\ mail' = Tail(mail)
  /\ LET d == Head(mail)[2] IN list' = IF d \in ToSet(list) THEN list ELSE Append(list, d)
  /\ UNCHANGED <<created, radio, scanning, fetching, timers, client, refused>>

ReceiveStarted ==
  /\ Receives("started") /\ mail' = Tail(mail)
  /\ Clear
  /\ UNCHANGED <<created, radio, scanning, fetching, timers, refused>>

\* Another scan may be under way already; then that one's end counts.
ReceiveFinished ==
  /\ Receives("finished") /\ mail' = Tail(mail)
  /\ \/ scanning /\ UNCHANGED <<fetching, timers>>
     \/ /\ ~scanning /\ timers' = timers + 1
        /\ fetching' = IF adapter = "on" THEN fetching \cup ToSet(list) ELSE fetching
  /\ UNCHANGED <<created, radio, scanning, list, client, refused>>

\* Bluetooth may be on again by now, and scanning.
ReceiveOff ==
  /\ Receives("off")
  /\ scanning' = FALSE
  /\ mail' = IF scanning THEN Append(Tail(mail), Finished) ELSE Tail(mail)
  /\ Clear
  /\ UNCHANGED <<created, radio, fetching, timers, refused>>

\* Mutant: the lists are cleared only.
ReceiveOnClears ==
  /\ Receives("on") /\ mail' = Tail(mail)
  /\ Clear
  /\ UNCHANGED <<created, radio, scanning, fetching, timers, refused>>

ReceiveOn ==
  /\ Receives("on")
  /\ Start(Tail(mail), scanning)
  /\ Clear
  /\ UNCHANGED <<created, adapter, fetching, known, timers, switches, others>>

\* Mutant: a timer that repeats.
TimerRepeats ==
  /\ timers > 0 /\ timers' = timers
  /\ Start(mail, scanning)
  /\ UNCHANGED <<created, adapter, fetching, known, list, client, switches, others>>

TimerFires ==
  /\ timers > 0 /\ timers' = timers - 1
  /\ Start(mail, scanning)
  /\ UNCHANGED <<created, adapter, fetching, known, list, client, switches, others>>

-----------------------------------------------------------------------------
\* The HTTP server.  An exception of a request is answered with status 500.
Unmoved == UNCHANGED <<created, radio, scanning, fetching, mail, timers, list, refused>>
Answer(c, a) ==
  client' = [client EXCEPT ![c].pc = "idle", ![c].kind = "none", ![c].n = 0, ![c].answer = a,
                           ![c].moved = FALSE, ![c].left = @ - 1,
                           ![c].seen = IF Listing(c) /\ (client[c].moved \/ a # "devices")
                                       THEN <<>> ELSE @]
Goto(c, pc) == client' = [client EXCEPT ![c].pc = pc]
May(c) == client[c].pc = "idle" /\ client[c].left > 0
NoSensor == ~created \/ adapter = "none"

GetPresence(c) ==
  /\ May(c)
  /\ Answer(c, IF NoSensor THEN "empty" ELSE IF adapter = "on" THEN "present" ELSE "disabled")
  /\ Unmoved

\* A POST does not ask whether Bluetooth is on.
PostPresence(c) ==
  /\ May(c)
  /\ Answer(c, IF NoSensor THEN "empty" ELSE "present")
  /\ Unmoved

\* devices and extra: a loop asks for the size before every get.
AskList(c, kind) ==
  /\ May(c)
  /\ \/ NoSensor /\ Answer(c, "error")
     \/ ~NoSensor /\ adapter = "off" /\ Answer(c, "disabled")
     \/ ~NoSensor /\ adapter = "on" /\ list = <<>> /\ Answer(c, "empty")
     \/ /\ ~NoSensor /\ adapter = "on" /\ list # <<>>
        /\ client' = [client EXCEPT ![c].pc = "size", ![c].kind = kind, ![c].seen = <<>>,
                         ![c].answer = "none"]
  /\ Unmoved
GetDevices(c) == AskList(c, "devices")
GetExtra(c)   == AskList(c, "extra")
PostExtra(c)  == AskList(c, "postExtra")

ReadSize(c) ==
  /\ client[c].pc = "size"
  /\ \/ Len(client[c].seen) >= Size /\ Answer(c, "devices")
     \/ Len(client[c].seen) < Size /\ Goto(c, "get")
  /\ Unmoved

\* The name of a listed device is logged, which fails without one; extra takes the services
\* of the device, POST without asking for null and GET after having asked.
Fails(kind, d) == \/ kind = "devices" /\ d \in Nameless
                  \/ kind = "postExtra" /\ ~Uuids(d)

\* Once Bluetooth is off, Android tells neither the name nor the class of a device any more.
ReadGet(c) ==
  /\ client[c].pc = "get"
  /\ LET r == client[c]
         k == Len(r.seen) + 1 IN
     \/ k > Size /\ Answer(c, "error")
     \/ k <= Size /\ (Fails(r.kind, list[k]) \/ adapter # "on") /\ Answer(c, "error")
     \/ /\ k <= Size /\ ~Fails(r.kind, list[k])
        /\ client' = [client EXCEPT ![c].seen = Append(@, list[k]),
             ![c].pc = IF r.kind # "devices" /\ Uuids(list[k]) THEN "uuids" ELSE "size"]
  /\ Unmoved

\* They are read once more from the device.
ReadUuids(c) ==
  /\ client[c].pc = "uuids"
  /\ LET d == Last(client[c].seen) IN
     \/ Uuids(d) /\ Goto(c, "size")
     \/ ~Uuids(d) /\ Answer(c, "error")
  /\ Unmoved

\* services of device n: the place is not compared with the size, or with one too much.
AskPlace(c, n, pc) ==
  client' = [client EXCEPT ![c].pc = pc, ![c].n = n, ![c].answer = "none"]

GetServices(c) ==
  /\ May(c)
  /\ \E n \in 0..MaxPlace :
       \/ ~created /\ Answer(c, "error")
       \/ created /\ n - 1 > Size /\ Answer(c, "empty")
       \/ created /\ n - 1 <= Size /\ AskPlace(c, n, "test")
  /\ Unmoved

PostServices(c) ==
  /\ May(c)
  /\ \E n \in 0..MaxPlace :
       \/ NoSensor /\ Answer(c, "error")
       \/ ~NoSensor /\ adapter = "off" /\ Answer(c, "disabled")
       \/ ~NoSensor /\ adapter = "on" /\ n = 0 /\ Answer(c, "refused")
       \/ ~NoSensor /\ adapter = "on" /\ n > 0 /\ list = <<>> /\ Answer(c, "empty")
       \/ ~NoSensor /\ adapter = "on" /\ n > 0 /\ list # <<>> /\ AskPlace(c, n, "length")
  /\ Unmoved

\* Element n - 1, of elements counted from 0, is fetched from the vector anew to test its
\* services for null (GET only), to ask how many there are, and to take them.
TakeServices(c) ==
  /\ client[c].pc \in {"test", "length", "take"}
  /\ LET n  == client[c].n
         pc == client[c].pc
     IN \/ n \notin 1..Size /\ Answer(c, "error")
        \/ n \in 1..Size /\ ~Uuids(list[n]) /\ Answer(c, IF pc = "test" THEN "noservices" ELSE "error")
        \/ n \in 1..Size /\ Uuids(list[n]) /\ pc = "test" /\ Goto(c, "length")
        \/ n \in 1..Size /\ Uuids(list[n]) /\ pc = "length" /\ Goto(c, "take")
        \/ n \in 1..Size /\ Uuids(list[n]) /\ pc = "take" /\ Answer(c, list[n])
  /\ Unmoved

-----------------------------------------------------------------------------
Android == \/ SwitchOn \/ SwitchOff \/ OtherScan \/ ScanEnds
           \/ \E d \in Devices : Finds(d) \/ FetchEnds(d)
Receive == ReceiveFound \/ ReceiveStarted \/ ReceiveFinished \/ ReceiveOff \/ ReceiveOn
Request(c) == \/ GetPresence(c) \/ PostPresence(c) \/ GetDevices(c) \/ GetExtra(c) \/ PostExtra(c)
              \/ ReadSize(c) \/ ReadGet(c) \/ ReadUuids(c)
              \/ GetServices(c) \/ PostServices(c) \/ TakeServices(c)

Next == \/ Create \/ Receive \/ TimerFires
        \/ Android
        \/ \E c \in Clients : Request(c)

Spec == Init /\ [][Next]_vars

\* The main thread runs on, its timers fire, and a scan meets who is near and ends.
FairSpec == /\ Spec
            /\ WF_vars(Receive) /\ WF_vars(TimerFires) /\ WF_vars(ScanEnds)
            /\ \A d \in Near : WF_vars(Finds(d))

-----------------------------------------------------------------------------
\* Safety: rounds of scans do not multiply by themselves.  What leads to a scan (a timer, the
\* broadcast that Bluetooth is on) or comes of one (its end) is at most one thing for
\* onCreate, for every time Bluetooth was switched on and every scan of somebody else: each
\* end sets one timer at most (123), each timer starts one scan (126).
Pending(what) == Cardinality({ k \in DOMAIN mail : mail[k] = what })
Chains == timers + Pending(Finished) + Pending(On) + (IF scanning THEN 1 ELSE 0)
ChainsBounded == Chains <= (IF created THEN 1 ELSE 0) + switches + others

\* Liveness: while Bluetooth stays on, scans come and go for ever and the devices near are
\* listed again after each time the vector was cleared (114), unless a start was refused,
\* of which the code takes no notice (126, 141, 176).
Excused == ~created \/ adapter # "on" \/ refused
ScansGoOn == /\ []<>(Excused \/ scanning)
             /\ []<>(Excused \/ ~scanning)
             /\ \A d \in Near : []<>(Excused \/ d \in ToSet(list))

\* Action: a client that asks for place n of a listing gets the services of the device it saw
\* there, unless the vector was cleared since.  A request fails only before onCreate or
\* without an adapter, at a place outside the vector that its tests let pass, at a device
\* without a name or without services where the handler takes them for granted, or because the
\* vector was cleared or Bluetooth switched off under it.
Explained(r, a) ==
  LET at == IF r.pc = "get" THEN Len(r.seen) + 1 ELSE r.n
  IN /\ r.pc = "take" /\ r.n \in 1..Len(r.seen) /\ a \in Devices => a = r.seen[r.n]
     /\ a = "error" /\ r.answer # "error" =>
          \/ NoSensor \/ r.moved
          \/ r.pc = "get" /\ at <= Size /\ Fails(r.kind, list[at])
          \/ r.pc = "test" /\ at \in {0, Size + 1}
          \/ r.pc = "length" /\ (at > Size \/ ~Uuids(list[at]))
AnswersExplained == [][\A c \in Clients : Explained(client[c], client'[c].answer)]_vars
=============================================================================
