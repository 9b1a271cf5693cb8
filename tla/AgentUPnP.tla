----------------------------- MODULE AgentUPnP ------------------------------
(***************************************************************************)
(* The UPnP part of the Android agent: ServiceBoot.java and the Upnp*      *)
(* resources.  Cling's registry reports devices to BrowseRegistryListener, *)
(* whose callbacks run in a pool of threads; they keep the static vector   *)
(* listAdapter, which the threads of the HTTP server read.  Every method   *)
(* of Vector is atomic, the callbacks and the requests are not.  Clients   *)
(* name a device by its place in the vector.                               *)
(***************************************************************************)
EXTENDS Integers, FiniteSets, SequencesExt

CONSTANTS Devices,      \* UPnP devices of the network
          Clients,      \* HTTP clients, each with one request at a time
          Null,         \* Java's null
          MaxEvents,    \* bound: changes of the registry
          MaxIndex,     \* bound: largest place a client asks for
          MaxRequests   \* bound: requests of a client

\* What a request is answered with, save a device.
Answers == {"none", "error", "empty", "present", "devices", "refused"}

ASSUME DevicesAssumption == /\ IsFiniteSet(Devices) /\ Devices \cap Answers = {}
                            /\ Null \notin Devices /\ Null \notin Seq(Devices)
ASSUME BoundsAssumption == {MaxEvents, MaxIndex, MaxRequests} \subseteq Nat

VARIABLES boot,         \* where ServiceBoot's main thread is
          toCopy,       \* onServiceConnected: devices still to be copied
          list,         \* ServiceBoot.listAdapter
          registry,     \* Cling: devices known with all their services
          discovering,  \* Cling: devices whose description is being fetched
          tasks,        \* callbacks started in the pool and not ended
          client,       \* each client's request
          nEvents,      \* changes of the registry so far
          missed,       \* history: devices that came or went before addListener
          overlap       \* history: devices whose callback another one overlapped

vars == <<boot, toCopy, list, registry, discovering, tasks, client, nEvents,
          missed, overlap>>
cling == <<registry, discovering, nEvents>>
history == <<missed, overlap>>

Listening == boot = "up"
Size == Len(list)
Place(d) == IF d \in ToSet(list) THEN CHOOSE k \in 1..Size : list[k] = d /\ \A j \in 1..(k - 1) : list[j] # d ELSE 0
Without(d) == IF Place(d) = 0 THEN list ELSE RemoveAt(list, Place(d))

\* A client: the listing it has (seen), the request it waits for, and of the history whether
\* the vector lost an element or was shifted since the listing (stale), the request (shrunk).
Idle == [pc |-> "idle", seen |-> <<>>, n |-> 0, check |-> "none", answer |-> "none",
         stale |-> FALSE, shrunk |-> FALSE, left |-> MaxRequests]

TypeOK ==
  /\ boot \in {"off", "http", "list", "copying", "up"}
  /\ (list = Null) <=> (boot \in {"off", "http"})
  /\ list # Null => ToSet(list) \subseteq Devices
  /\ registry \cap discovering = {} /\ nEvents <= MaxEvents
  /\ \A k \in DOMAIN tasks : tasks[k].dev \in Devices /\ tasks[k].pos \in Nat

Init == /\ boot = "off" /\ toCopy = <<>> /\ list = Null
        /\ registry = {} /\ discovering = {} /\ tasks = <<>> /\ nEvents = 0
        /\ client = [c \in Clients |-> Idle]
        /\ missed = {} /\ overlap = {}

-----------------------------------------------------------------------------
\* The main thread.

\* onCreate: the HTTP server is started before the vector exists.
StartHttp ==
  /\ boot = "off" /\ boot' = "http"
  /\ UNCHANGED <<toCopy, list, cling, tasks, client, history>>

\* Mutant: the vector is made by onServiceConnected only.
CreateListLater ==
  /\ boot = "http" /\ boot' = "list"
  /\ UNCHANGED <<toCopy, list, cling, tasks, client, history>>

CreateList ==
  /\ boot = "http" /\ boot' = "list" /\ list' = <<>>
  /\ UNCHANGED <<toCopy, cling, tasks, client, history>>

\* onServiceConnected: the devices known now are copied one by one; the listener is added
\* after the last.
Connected ==
  /\ boot = "list" /\ boot' = "copying"
  /\ list' = <<>> /\ toCopy' = SetToSeq(registry)
  /\ UNCHANGED <<cling, tasks, client, history>>

Copy ==
  /\ boot = "copying" /\ toCopy # <<>>
  /\ list' = Append(list, Head(toCopy)) /\ toCopy' = Tail(toCopy)
  /\ UNCHANGED <<boot, cling, tasks, client, history>>

AddListener ==
  /\ boot = "copying" /\ toCopy = <<>> /\ boot' = "up"
  /\ UNCHANGED <<toCopy, list, cling, tasks, client, history>>

-----------------------------------------------------------------------------
\* Cling: a change of the registry starts a callback in the pool, if there is a listener.
Notify(d, op) ==
  /\ nEvents < MaxEvents /\ nEvents' = nEvents + 1
  /\ tasks' = IF Listening THEN Append(tasks, [op |-> op, dev |-> d, pos |-> 0]) ELSE tasks
  /\ overlap' = overlap \cup { e \in {d} : \E k \in DOMAIN tasks : tasks[k].dev = e }
  /\ missed' = IF boot = "copying" THEN missed \cup {d} ELSE missed
  /\ UNCHANGED <<boot, toCopy, list, client>>

DiscoveryStarted(d) ==
  /\ d \notin registry \cup discovering
  /\ discovering' = discovering \cup {d} /\ UNCHANGED registry
  /\ Notify(d, "index")

DiscoveryFailed(d) ==
  /\ d \in discovering
  /\ discovering' = discovering \ {d} /\ UNCHANGED registry
  /\ Notify(d, "remove")

DeviceFound(d) ==
  /\ d \in discovering
  /\ discovering' = discovering \ {d} /\ registry' = registry \cup {d}
  /\ Notify(d, "index")

DeviceLeft(d) ==
  /\ d \in registry
  /\ registry' = registry \ {d} /\ UNCHANGED discovering
  /\ Notify(d, "remove")

MarkStale == client' = [c \in Clients |-> [client[c] EXCEPT !.stale = TRUE, !.shrunk = TRUE]]

\* Task k takes its device out: the places clients have seen go stale, and so does the place
\* another task has found.
TakeOut(k) ==
  /\ list' = Without(tasks[k].dev)
  /\ overlap' = overlap \cup { tasks[j].dev : j \in { i \in DOMAIN tasks \ {k} :
                                                    tasks[i].op \in {"reset", "insert"} } }
  /\ MarkStale
  /\ UNCHANGED <<boot, toCopy, cling, missed>>

\* Task k ends, or goes on at op with the place it found.
End(k) == tasks' = RemoveAt(tasks, k)
Goto(k, op, pos) == tasks' = [tasks EXCEPT ![k].op = op, ![k].pos = pos]

\* Mutant: "position > 0".
IndexOfPositive(k) ==
  /\ tasks[k].op = "index"
  /\ Goto(k, IF Place(tasks[k].dev) <= 1 THEN "append" ELSE "reset", Place(tasks[k].dev))
  /\ UNCHANGED <<boot, toCopy, list, cling, client, history>>

\* deviceAdded: indexOf, then either add at the end, or remove and add at the place found.
IndexOf(k) ==
  /\ tasks[k].op = "index"
  /\ Goto(k, IF Place(tasks[k].dev) = 0 THEN "append" ELSE "reset", Place(tasks[k].dev))
  /\ UNCHANGED <<boot, toCopy, list, cling, client, history>>

\* Mutant: the newest device first.
AddFirst(k) ==
  /\ tasks[k].op = "append"
  /\ list' = <<tasks[k].dev>> \o list
  /\ End(k)
  /\ UNCHANGED <<boot, toCopy, cling, client, history>>

AddLast(k) ==
  /\ tasks[k].op = "append"
  /\ list' = Append(list, tasks[k].dev)
  /\ End(k)
  /\ UNCHANGED <<boot, toCopy, cling, client, history>>

\* Mutant: the new value is not put back.
ResetRemoveOnly(k) ==
  /\ tasks[k].op = "reset"
  /\ TakeOut(k)
  /\ End(k)

ResetRemove(k) ==
  /\ tasks[k].op = "reset"
  /\ TakeOut(k)
  /\ Goto(k, "insert", tasks[k].pos)

\* Vector.add(position, d) throws when the vector has become too short, and the task ends
\* without the device.
ResetInsert(k) ==
  /\ tasks[k].op = "insert"
  /\ \/ tasks[k].pos <= Size + 1 /\ list' = InsertAt(list, tasks[k].pos, tasks[k].dev)
     \/ tasks[k].pos > Size + 1 /\ UNCHANGED list
  /\ End(k)
  /\ MarkStale
  /\ UNCHANGED <<boot, toCopy, cling, history>>

\* deviceRemoved
RemoveDevice(k) ==
  /\ tasks[k].op = "remove"
  /\ TakeOut(k)
  /\ End(k)

-----------------------------------------------------------------------------
\* The HTTP server.  An exception of a request is answered with status 500.
Answer(c, a) ==
  client' = [client EXCEPT ![c].pc = "idle", ![c].answer = a, ![c].left = @ - 1,
                           ![c].n = 0, ![c].check = "none"]
Unmoved == UNCHANGED <<boot, toCopy, list, cling, tasks, history>>
May(c) == boot # "off" /\ client[c].pc = "idle" /\ client[c].left > 0

\* devices and extra: an empty vector is answered at once, else a loop asks for the size
\* before every get.
AskList(c) ==
  /\ May(c)
  /\ \/ list = Null /\ Answer(c, "error")
     \/ list = <<>> /\ Answer(c, "empty")
     \/ list \notin {Null, <<>>}
        /\ client' = [client EXCEPT ![c].pc = "size", ![c].seen = <<>>, ![c].answer = "none",
                                    ![c].stale = FALSE, ![c].shrunk = FALSE]
  /\ Unmoved
GetDevices(c) == AskList(c)
GetExtra(c) == AskList(c)

\* presence: a POST wants a device to be there.
PostPresence(c) ==
  /\ May(c)
  /\ Answer(c, IF list = Null THEN "error" ELSE IF list = <<>> THEN "empty" ELSE "present")
  /\ Unmoved

ReadSize(c) ==
  /\ client[c].pc = "size"
  /\ \/ Len(client[c].seen) >= Size /\ Answer(c, "devices")
     \/ Len(client[c].seen) < Size /\ client' = [client EXCEPT ![c].pc = "get"]
  /\ Unmoved

ReadGet(c) ==
  /\ client[c].pc = "get"
  /\ LET k == Len(client[c].seen) + 1 IN
     \/ k <= Size /\ client' = [client EXCEPT ![c].pc = "size", ![c].seen = Append(@, list[k])]
     \/ k > Size /\ Answer(c, "error")
  /\ Unmoved

\* services, actions and parameters of device n.  What the handler asks of n before it takes
\* the element: that n - 1 be at most the size, that n be positive, or nothing.
Admits(check, n) == /\ check = "size" => n - 1 <= Size
                    /\ check = "positive" => n > 0

\* Mutant: no handler asks anything.
AskPlaceUnchecked(c, check) ==
  /\ May(c)
  /\ \E n \in 0..MaxIndex :
       \/ list = Null /\ Answer(c, "error")
       \/ list = <<>> /\ Answer(c, "empty")
       \/ /\ list \notin {Null, <<>>}
          /\ client' = [client EXCEPT ![c].pc = "take", ![c].n = n, ![c].check = check,
                                      ![c].answer = "none", ![c].shrunk = FALSE]
  /\ Unmoved

AskPlace(c, check) ==
  /\ May(c)
  /\ \E n \in 0..MaxIndex :
       \/ list = Null /\ Answer(c, "error")
       \/ list = <<>> /\ Answer(c, "empty")
       \/ list \notin {Null, <<>>} /\ ~Admits(check, n) /\ Answer(c, "refused")
       \/ /\ list \notin {Null, <<>>} /\ Admits(check, n)
          /\ client' = [client EXCEPT ![c].pc = "take", ![c].n = n, ![c].check = check,
                                      ![c].answer = "none", ![c].shrunk = FALSE]
  /\ Unmoved

GetServices(c) == AskPlace(c, "size")
PostServices(c) == AskPlace(c, "positive")
GetActions(c) == AskPlace(c, "size")
PostActions(c) == AskPlace(c, "none")
GetParameters(c) == AskPlace(c, "size")
PostParameters(c) == AskPlace(c, "size")

\* Then element n - 1, of elements counted from 0, is taken: the answer is made from it.
Take(c) ==
  /\ client[c].pc = "take"
  /\ LET n == client[c].n IN
     \/ n \in 1..Size /\ Answer(c, list[n])
     \/ n \notin 1..Size /\ Answer(c, "error")
  /\ Unmoved

-----------------------------------------------------------------------------
Main == StartHttp \/ CreateList \/ Connected \/ Copy \/ AddListener
Cling(d) == DiscoveryStarted(d) \/ DiscoveryFailed(d) \/ DeviceFound(d) \/ DeviceLeft(d)
Step(k) == IndexOf(k) \/ AddLast(k) \/ ResetRemove(k) \/ ResetInsert(k) \/ RemoveDevice(k)
Request(c) == \/ GetDevices(c) \/ GetExtra(c) \/ ReadSize(c) \/ ReadGet(c) \/ PostPresence(c)
              \/ GetServices(c) \/ GetActions(c) \/ GetParameters(c)
              \/ PostServices(c) \/ PostActions(c) \/ PostParameters(c) \/ Take(c)

Next == \/ Main
        \/ \E d \in Devices : Cling(d)
        \/ \E k \in DOMAIN tasks : Step(k)
        \/ \E c \in Clients : Request(c)

Spec == Init /\ [][Next]_vars

\* The main thread and the pool's threads run on; nothing is asked of the network and clients.
FairSpec == Spec /\ WF_vars(Main) /\ WF_vars(\E k \in DOMAIN tasks : Step(k))

-----------------------------------------------------------------------------
\* Safety: when no callback is under way the vector holds the registry's devices, each once.
\* Exempt are the devices that came or went between the copy and addListener (275-280) and
\* those of whose callbacks another one overlapped: indexOf, remove and add (808-814) are
\* three steps, the place found may be stale, and add then misplaces the device or throws.
Settled == boot = "up" /\ tasks = <<>> /\ discovering = {}
ListExact ==
  Settled => \A d \in Devices \ (missed \cup overlap) :
               Cardinality({k \in 1..Size : list[k] = d}) = IF d \in registry THEN 1 ELSE 0

\* Action: a client that asks for place n of a listing gets the device it saw there, unless
\* since the listing began the vector lost an element, were it to re-set it.
IndexNamesDevice ==
  [][\A c \in Clients :
       LET r == client[c] IN
       r.pc = "take" /\ r.n \in 1..Len(r.seen) /\ ~r.stale /\ client'[c].pc = "idle"
         => client'[c].answer = r.seen[r.n]]_vars

\* Action: a request fails only before the vector exists (559 precedes 567), when the vector
\* shrank under it, when its handler does not compare the place with the size and the place is
\* not there, and at the places on either side of the list that pass what it does ask.
ErrorsExplained ==
  [][\A c \in Clients :
       LET r == client[c] IN
       client'[c].answer = "error" /\ r.answer # "error"
         => \/ list = Null
            \/ r.pc = "take" /\ r.n = 0 /\ r.check # "positive"
            \/ r.pc = "take" /\ r.n = Size + 1
            \/ r.pc = "take" /\ r.n > Size /\ r.check # "size"
            \/ r.shrunk]_vars

\* Liveness: a device that was found is listed in the end, unless it leaves or is exempt.
DeviceAppears ==
  \A d \in Devices :
    d \in registry ~> \/ boot = "up" /\ d \in ToSet(list)
                      \/ d \notin registry \/ d \in missed \cup overlap
=============================================================================
