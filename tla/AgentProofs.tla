----------------------------- MODULE AgentProofs ------------------------------
(***************************************************************************)
(* The requests of the Android agent read a vector that the callbacks of   *)
(* Cling's registry change.  For any network, number of clients and length *)
(* of run: a place of a listing names the device seen there until the      *)
(* vector loses an element, and every failure of a request is explained.   *)
(* The listing a client holds is a beginning of the vector as long as only *)
(* adding at the end happens to it: that is the heart of the invariant.    *)
(* And the callbacks, each of several steps, leave in the vector what the  *)
(* registry has, when no two of one device overlap.  The last section is   *)
(* about both halves of the agent together.                                *)
(***************************************************************************)
EXTENDS Agent, SequenceFacts

Vector == boot \in {"list", "copying", "up"}

TaskRecord == { t \in [op : {"index", "append", "reset", "insert", "remove"}, dev : Devices, pos : Nat] :
                  t.op \in {"reset", "insert"} => t.pos >= 1 }
ClientRecord == [pc : {"idle", "size", "get", "take"}, seen : Seq(Devices), n : Nat,
                 check : {"none", "size", "positive"}, answer : Devices \cup Answers,
                 stale : BOOLEAN, shrunk : BOOLEAN, left : Int]

Booted == /\ boot \in {"off", "http", "list", "copying", "up"}
          /\ Vector => list \in Seq(Devices)
          /\ ~Vector => list = Null
          /\ boot = "list" => list = <<>>
          /\ toCopy \in Seq(Devices)
ClingTypes == /\ registry \subseteq Devices /\ discovering \subseteq Devices
              /\ registry \cap discovering = {} /\ nEvents \in Nat /\ nEvents <= MaxEvents
TaskTypes == tasks \in Seq(TaskRecord) /\ (tasks # <<>> => boot = "up")

\* A request in progress, and the listing of an earlier one, against the vector.
InPlace(r) ==
  /\ r \in ClientRecord
  /\ r.pc # "idle" => Vector
  /\ r.stale = FALSE /\ r.seen # <<>> => Vector /\ Begins(r.seen, list)
  /\ r.pc = "get" /\ r.shrunk = FALSE => Len(r.seen) + 1 <= Len(list)
  /\ r.pc = "take" /\ r.check = "positive" => r.n > 0
  /\ r.pc = "take" /\ r.check = "size" /\ r.shrunk = FALSE => r.n <= Len(list) + 1
ClientsInPlace == client \in [Clients -> ClientRecord] /\ \A c \in Clients : InPlace(client[c])

IInv == Booted /\ ClingTypes /\ TaskTypes /\ ClientsInPlace

\* The initial states satisfy the invariant.
LEMMA InitIInv == Init => IInv
<1> SUFFICES ASSUME Init PROVE IInv
  OBVIOUS
<1>1. Booted /\ TaskTypes
  BY DEF Init, Booted, TaskTypes, Vector
<1>2. ClingTypes
  BY BoundsAssumption DEF Init, ClingTypes
<1>3. Idle \in ClientRecord
  BY BoundsAssumption DEF Idle, ClientRecord, Answers
<1>4. InPlace(Idle)
  BY <1>3 DEF InPlace, Idle
<1>5. ClientsInPlace
  BY <1>3, <1>4 DEF Init, ClientsInPlace
<1> QED BY <1>1, <1>2, <1>5 DEF IInv

-----------------------------------------------------------------------------
\* The vector.

\* Without a device the vector is still one.
LEMMA WithoutIsSeq ==
  ASSUME list \in Seq(Devices), NEW d
  PROVE  /\ Place(d) \in Nat /\ Without(d) \in Seq(Devices)
<1>1. CASE d \in ToSet(list)
  <2> DEFINE k == Place(d)
  <2>1. k \in 1..Size
    BY <1>1, FirstPlace DEF Place, Size
  <2>2. k # 0 /\ k \in Nat /\ k \in DOMAIN list
    BY <2>1, LenProperties DEF Size
  <2> HIDE DEF k
  <2>3. RemoveAt(list, k) \in Seq(Devices)
    BY <2>2, RemoveAtParts
  <2> QED BY <2>2, <2>3 DEF Without, k
<1>2. CASE d \notin ToSet(list)
  BY <1>2 DEF Place, Without
<1> QED BY <1>1, <1>2

\* Clients lose nothing when the vector stays or grows at its end.
LEMMA Grown ==
  ASSUME NEW r, InPlace(r), Vector => Vector', Vector => list \in Seq(Devices),
         \/ list' = list
         \/ \E e \in Devices : list' = Append(list, e)
         \/ ~Vector
         \/ list = <<>> /\ list' = <<>>
  PROVE  InPlace(r)'
<1>1. CASE ~Vector
  BY <1>1 DEF InPlace
<1>2. CASE list' = list
  BY <1>2 DEF InPlace
<1>3. ASSUME Vector, NEW e \in Devices, list' = Append(list, e) PROVE InPlace(r)'
  <2>1. list \in Seq(Devices) /\ Len(list) \in Nat /\ Len(list') = Len(list) + 1
    BY <1>3, AppendProperties, LenProperties
  <2>2. r \in ClientRecord /\ r.seen \in Seq(Devices) /\ Len(r.seen) \in Nat /\ r.n \in Nat
    BY LenProperties DEF InPlace, ClientRecord
  <2>3. r.stale = FALSE /\ r.seen # <<>> => Begins(r.seen, list')
    BY <1>3, <2>1, <2>2, BeginsGrown DEF InPlace
  <2>4. r.pc = "get" /\ r.shrunk = FALSE => Len(r.seen) + 1 <= Len(list')
    BY <2>1, <2>2 DEF InPlace
  <2>5. r.pc = "take" /\ r.check = "size" /\ r.shrunk = FALSE => r.n <= Len(list') + 1
    BY <2>1, <2>2 DEF InPlace
  <2> QED BY <1>3, <2>2, <2>3, <2>4, <2>5 DEF InPlace
<1> QED BY <1>1, <1>2, <1>3

\* What the vector loses every client is warned of.
LEMMA Warned == ASSUME ClientsInPlace, MarkStale, Vector' <=> Vector PROVE ClientsInPlace'
<1>1. ASSUME NEW c \in Clients PROVE client'[c] \in ClientRecord /\ InPlace(client[c])'
  <2>1. PICK r : r = client[c]
    OBVIOUS
  <2>2. PICK q : q = client'[c]
    OBVIOUS
  <2>3. r \in ClientRecord /\ InPlace(r) /\ q = [r EXCEPT !.stale = TRUE, !.shrunk = TRUE]
    BY <2>1, <2>2 DEF ClientsInPlace, MarkStale
  <2>4. /\ q \in ClientRecord /\ q.stale = TRUE /\ q.shrunk = TRUE
        /\ q.pc = r.pc /\ q.check = r.check /\ q.n = r.n
    BY <2>3 DEF ClientRecord
  <2>5. InPlace(q)'
    BY <2>3, <2>4 DEF InPlace
  <2> QED BY <2>2, <2>4, <2>5
<1>2. client' \in [Clients -> ClientRecord]
  BY <1>1 DEF MarkStale
<1> QED BY <1>1, <1>2 DEF ClientsInPlace

\* No client acts, and the vector stays or grows.
LEMMA ClientsGrown ==
  ASSUME ClientsInPlace, client' = client, Vector => Vector', Vector => list \in Seq(Devices),
         \/ list' = list
         \/ \E e \in Devices : list' = Append(list, e)
         \/ ~Vector
         \/ list = <<>> /\ list' = <<>>
  PROVE  ClientsInPlace'
<1>1. ASSUME NEW c \in Clients PROVE InPlace(client[c])'
  <2>1. PICK r : r = client[c]
    OBVIOUS
  <2>2. InPlace(r)'
    BY <2>1, Grown DEF ClientsInPlace
  <2> QED BY <2>1, <2>2
<1> QED BY <1>1 DEF ClientsInPlace

-----------------------------------------------------------------------------
\* The main thread.

\* The vector appears empty and grows by the devices that are copied.
LEMMA MainKeeps == ASSUME IInv, Main PROVE IInv'
<1> USE DEF IInv, Booted, TaskTypes, Vector
<1>1. CASE StartHttp
  <2>1. Booted' /\ ClingTypes' /\ TaskTypes'
    BY <1>1 DEF StartHttp, ClingTypes, cling
  <2>2. ClientsInPlace'
    BY <1>1, ClientsGrown DEF StartHttp
  <2> QED BY <2>1, <2>2
<1>2. CASE CreateList
  <2>1. Booted' /\ ClingTypes' /\ TaskTypes'
    BY <1>2 DEF CreateList, ClingTypes, cling
  <2>2. ClientsInPlace'
    BY <1>2, ClientsGrown DEF CreateList
  <2> QED BY <2>1, <2>2
<1>3. CASE Connected
  <2>1. SetToSeq(registry) \in Seq(Devices)
    <3>1. IsFiniteSet(registry) /\ registry \subseteq Devices
      BY DevicesAssumption, FS_Subset DEF ClingTypes
    <3>2. SetToSeq(registry) \in Seq(registry)
      BY <3>1, SetToSeqIsSeq
    <3> QED BY <3>1, <3>2
  <2>2. Booted' /\ ClingTypes' /\ TaskTypes'
    BY <1>3, <2>1 DEF Connected, ClingTypes, cling
  <2>3. ClientsInPlace'
    BY <1>3, ClientsGrown DEF Connected
  <2> QED BY <2>2, <2>3
<1>4. CASE Copy
  <2>1. /\ list \in Seq(Devices) /\ toCopy \in Seq(Devices) /\ toCopy # <<>>
        /\ list' = Append(list, Head(toCopy)) /\ toCopy' = Tail(toCopy)
    BY <1>4 DEF Copy
  <2>2. Head(toCopy) \in Devices /\ toCopy' \in Seq(Devices) /\ list' \in Seq(Devices)
    BY <2>1
  <2>3. Booted' /\ ClingTypes' /\ TaskTypes'
    BY <1>4, <2>2 DEF Copy, ClingTypes, cling
  <2>4. ClientsInPlace'
    BY <1>4, <2>1, <2>2, ClientsGrown DEF Copy
  <2> QED BY <2>3, <2>4
<1>5. CASE AddListener
  <2>1. Booted' /\ ClingTypes' /\ TaskTypes'
    BY <1>5 DEF AddListener, ClingTypes, cling
  <2>2. ClientsInPlace'
    BY <1>5, ClientsGrown DEF AddListener
  <2> QED BY <2>1, <2>2
<1> QED BY <1>1, <1>2, <1>3, <1>4, <1>5 DEF Main

\* Cling: its sets change, and a task begins when there is a listener.
LEMMA ClingKeeps == ASSUME IInv, NEW d \in Devices, Cling(d) PROVE IInv'
<1>1. PICK op \in {"index", "remove"} : Notify(d, op)
  BY DEF Cling, DiscoveryStarted, DiscoveryFailed, DeviceFound, DeviceLeft
<1>2. ClingTypes'
  <2>1. nEvents' \in Nat /\ nEvents' <= MaxEvents
    BY <1>1, BoundsAssumption DEF Notify, IInv, ClingTypes
  <2> QED BY <2>1 DEF IInv, ClingTypes, Cling, DiscoveryStarted, DiscoveryFailed, DeviceFound, DeviceLeft
<1>3. TaskTypes'
  <2>1. [op |-> op, dev |-> d, pos |-> 0] \in TaskRecord
    BY DEF TaskRecord
  <2> QED BY <1>1, <2>1 DEF IInv, TaskTypes, Notify, Listening
<1>4. UNCHANGED <<boot, toCopy, list, client>>
  BY <1>1 DEF Notify
<1>5. Booted'
  BY <1>4 DEF IInv, Booted, Vector
<1>6. ClientsInPlace'
  BY <1>4, ClientsGrown DEF IInv, Booted, Vector
<1> QED BY <1>2, <1>3, <1>5, <1>6 DEF IInv

-----------------------------------------------------------------------------
\* The callbacks.

\* A task that ends, and one that goes on.
LEMMA TasksKept ==
  ASSUME TaskTypes, NEW k \in DOMAIN tasks, boot' = boot,
         \/ End(k)
         \/ \E op \in {"append", "reset", "insert"} : \E pos \in Nat :
              Goto(k, op, pos) /\ (op # "append" => pos >= 1)
  PROVE  TaskTypes'
<1>1. tasks \in Seq(TaskRecord) /\ tasks # <<>>
  BY DEF TaskTypes
<1>2. CASE End(k)
  BY <1>1, <1>2, RemoveAtParts DEF End, TaskTypes
<1>3. ASSUME NEW op \in {"append", "reset", "insert"}, NEW pos \in Nat, Goto(k, op, pos), op # "append" => pos >= 1
      PROVE  TaskTypes'
  <2>1. tasks[k] \in TaskRecord
    BY <1>1
  <2>2. [tasks[k] EXCEPT !.op = op, !.pos = pos] \in TaskRecord
    BY <1>3, <2>1 DEF TaskRecord
  <2>3. tasks' = [tasks EXCEPT ![k] = [tasks[k] EXCEPT !.op = op, !.pos = pos]]
    BY <1>1, <1>3, <2>1 DEF Goto, TaskRecord
  <2>4. tasks' \in Seq(TaskRecord)
    BY <1>1, <2>2, <2>3
  <2> QED BY <1>1, <2>4 DEF TaskTypes
<1> QED BY <1>2, <1>3

\* A callback adds at the end, or warns the clients.
LEMMA StepKeeps == ASSUME IInv, NEW k \in DOMAIN tasks, Step(k) PROVE IInv'
<1>1. /\ boot = "up" /\ list \in Seq(Devices) /\ tasks[k] \in TaskRecord /\ tasks[k].dev \in Devices
      /\ tasks[k].pos \in Nat
  BY DEF IInv, TaskTypes, Booted, Vector, TaskRecord
<1>2. UNCHANGED <<boot, toCopy, cling>>
  BY DEF Step, IndexOf, AddLast, ResetRemove, ResetInsert, RemoveDevice, TakeOut
<1>3. ClingTypes' /\ (Vector' <=> Vector)
  BY <1>2 DEF IInv, ClingTypes, Vector, cling
<1>4. list' \in Seq(Devices) => Booted'
  BY <1>1, <1>2 DEF IInv, Booted, Vector
<1>5. Place(tasks[k].dev) \in Nat /\ Without(tasks[k].dev) \in Seq(Devices)
  BY <1>1, WithoutIsSeq
<1>6. CASE IndexOf(k)
  <2>1. TaskTypes'
    BY <1>2, <1>5, <1>6, TasksKept DEF IInv, IndexOf
  <2>2. UNCHANGED <<list, client>>
    BY <1>6 DEF IndexOf
  <2>3. ClientsInPlace'
    BY <1>1, <1>3, <2>2, ClientsGrown DEF IInv
  <2> QED BY <1>1, <1>3, <1>4, <2>1, <2>2, <2>3 DEF IInv
<1>7. CASE AddLast(k)
  <2>1. TaskTypes'
    BY <1>2, <1>7, TasksKept DEF IInv, AddLast
  <2>2. list' = Append(list, tasks[k].dev) /\ client' = client
    BY <1>7 DEF AddLast
  <2>3. ClientsInPlace'
    BY <1>1, <1>3, <2>2, ClientsGrown DEF IInv
  <2>4. list' \in Seq(Devices)
    BY <1>1, <2>2
  <2> QED BY <1>3, <1>4, <2>1, <2>3, <2>4 DEF IInv
<1>8. CASE ResetRemove(k)
  <2>1. tasks[k].pos >= 1
    BY <1>1, <1>8 DEF ResetRemove, TaskRecord
  <2>2. TaskTypes'
    BY <1>1, <1>2, <1>8, <2>1, TasksKept DEF IInv, ResetRemove
  <2>3. ClientsInPlace' /\ list' \in Seq(Devices)
    BY <1>3, <1>5, <1>8, Warned DEF IInv, ResetRemove, TakeOut
  <2> QED BY <1>3, <1>4, <2>2, <2>3 DEF IInv
<1>9. CASE ResetInsert(k)
  <2>1. tasks[k].pos >= 1
    BY <1>1, <1>9 DEF ResetInsert, TaskRecord
  <2>2. TaskTypes'
    BY <1>2, <1>9, TasksKept DEF IInv, ResetInsert
  <2>3. ClientsInPlace'
    BY <1>3, <1>9, Warned DEF IInv, ResetInsert
  <2>4. list' \in Seq(Devices)
    <3>1. CASE UNCHANGED list
      BY <1>1, <3>1
    <3>2. CASE tasks[k].pos <= Size + 1 /\ list' = InsertAt(list, tasks[k].pos, tasks[k].dev)
      <4>1. tasks[k].pos \in 1..(Len(list) + 1)
        BY <1>1, <2>1, <3>2, LenProperties DEF Size
      <4> QED BY <1>1, <3>2, <4>1, InsertAtParts
    <3> QED BY <1>9, <3>1, <3>2 DEF ResetInsert
  <2> QED BY <1>3, <1>4, <2>2, <2>3, <2>4 DEF IInv
<1>10. CASE RemoveDevice(k)
  <2>1. TaskTypes'
    BY <1>2, <1>10, TasksKept DEF IInv, RemoveDevice
  <2>2. ClientsInPlace' /\ list' \in Seq(Devices)
    BY <1>3, <1>5, <1>10, Warned DEF IInv, RemoveDevice, TakeOut
  <2> QED BY <1>3, <1>4, <2>1, <2>2 DEF IInv
<1> QED BY <1>6, <1>7, <1>8, <1>9, <1>10 DEF Step

-----------------------------------------------------------------------------
\* The requests.

\* One client goes on, as a request that is in its place.
LEMMA ClientActs ==
  ASSUME IInv, Unmoved, NEW c \in Clients, NEW q, client' = [client EXCEPT ![c] = q], InPlace(q)
  PROVE  IInv'
<1>1. UNCHANGED <<boot, toCopy, list, cling, tasks>>
  BY DEF Unmoved
<1>2. Booted' /\ ClingTypes' /\ TaskTypes'
  BY <1>1 DEF IInv, Booted, ClingTypes, TaskTypes, Vector, cling
<1>3. client' \in [Clients -> ClientRecord]
  BY DEF IInv, ClientsInPlace, InPlace
<1>4. ASSUME NEW b \in Clients PROVE InPlace(client[b])'
  <2>1. PICK r : r = client'[b]
    OBVIOUS
  <2>2. InPlace(r)
    BY <2>1 DEF IInv, ClientsInPlace
  <2>3. InPlace(r)'
    BY <1>1, <2>2 DEF InPlace, Vector
  <2> QED BY <2>1, <2>3
<1> QED BY <1>2, <1>3, <1>4 DEF IInv, ClientsInPlace

\* A request ends: what its client has seen is what it had seen.
LEMMA AnswerKeeps ==
  ASSUME IInv, Unmoved, NEW c \in Clients, NEW a \in Devices \cup Answers, Answer(c, a)
  PROVE  IInv'
<1>1. PICK r : r = client[c]
  OBVIOUS
<1>2. PICK q : q = [r EXCEPT !.pc = "idle", !.answer = a, !.left = @ - 1, !.n = 0, !.check = "none"]
  OBVIOUS
<1>3. r \in ClientRecord /\ InPlace(r) /\ client' = [client EXCEPT ![c] = q]
  BY <1>1, <1>2 DEF IInv, ClientsInPlace, Answer, ClientRecord
<1>4. /\ q \in ClientRecord /\ q.pc = "idle" /\ q.seen = r.seen /\ q.stale = r.stale
  <2>1. PICK l : l = r.left - 1
    OBVIOUS
  <2>2. l \in Int /\ q = [r EXCEPT !.pc = "idle", !.answer = a, !.left = l, !.n = 0, !.check = "none"]
    BY <1>2, <1>3, <2>1 DEF ClientRecord
  <2> QED BY <1>3, <2>2 DEF ClientRecord
<1>5. InPlace(q)
  BY <1>3, <1>4 DEF InPlace
<1> QED BY <1>3, <1>5, ClientActs

\* The vector is there when a request finds it.
LEMMA VectorThere == ASSUME IInv, list # Null PROVE Vector /\ list \in Seq(Devices)
BY DEF IInv, Booted

\* devices and extra: a new listing begins, with nothing seen.
LEMMA AskListKeeps == ASSUME IInv, NEW c \in Clients, AskList(c) PROVE IInv'
<1>1. Unmoved
  BY DEF AskList
<1>2. CASE \E a \in {"error", "empty"} : Answer(c, a)
  BY <1>1, <1>2, AnswerKeeps DEF Answers
<1>3. CASE /\ list \notin {Null, <<>>}
           /\ client' = [client EXCEPT ![c].pc = "size", ![c].seen = <<>>, ![c].answer = "none",
                                       ![c].stale = FALSE, ![c].shrunk = FALSE]
  <2>1. PICK r : r = client[c]
    OBVIOUS
  <2>2. PICK q : q = [r EXCEPT !.pc = "size", !.seen = <<>>, !.answer = "none",
                               !.stale = FALSE, !.shrunk = FALSE]
    OBVIOUS
  <2>3. r \in ClientRecord /\ client' = [client EXCEPT ![c] = q]
    BY <1>3, <2>1, <2>2 DEF IInv, ClientsInPlace, ClientRecord
  <2>4. q \in ClientRecord /\ q.pc = "size" /\ q.seen = <<>>
    <3>1. <<>> \in Seq(Devices) /\ "none" \in Devices \cup Answers
      BY DEF Answers
    <3> QED BY <2>2, <2>3, <3>1 DEF ClientRecord
  <2>5. InPlace(q)
    BY <1>3, <2>4, VectorThere DEF InPlace
  <2> QED BY <1>1, <2>3, <2>5, ClientActs
<1> QED BY <1>2, <1>3 DEF AskList

\* presence is answered at once.
LEMMA PresenceKeeps == ASSUME IInv, NEW c \in Clients, PostPresence(c) PROVE IInv'
<1>1. \E a \in {"error", "empty", "present"} : Answer(c, a)
  BY DEF PostPresence
<1> QED BY <1>1, AnswerKeeps DEF PostPresence, Answers

\* The size lets the next get pass.
LEMMA ReadSizeKeeps == ASSUME IInv, NEW c \in Clients, ReadSize(c) PROVE IInv'
<1>1. Unmoved /\ client[c].pc = "size"
  BY DEF ReadSize
<1>2. CASE Answer(c, "devices")
  BY <1>1, <1>2, AnswerKeeps DEF Answers
<1>3. CASE Len(client[c].seen) < Size /\ client' = [client EXCEPT ![c].pc = "get"]
  <2>1. PICK r : r = client[c]
    OBVIOUS
  <2>2. PICK q : q = [r EXCEPT !.pc = "get"]
    OBVIOUS
  <2>3. r \in ClientRecord /\ InPlace(r) /\ client' = [client EXCEPT ![c] = q]
    BY <1>3, <2>1, <2>2 DEF IInv, ClientsInPlace, ClientRecord
  <2>4. q \in ClientRecord /\ q.pc = "get" /\ q.seen = r.seen /\ q.stale = r.stale /\ r.seen \in Seq(Devices)
    BY <2>2, <2>3 DEF ClientRecord
  <2>5. Vector /\ list \in Seq(Devices)
    BY <1>1, <2>1, <2>3 DEF InPlace, IInv, Booted
  <2>6. Len(q.seen) + 1 <= Len(list)
    BY <1>3, <2>1, <2>4, <2>5, LenProperties DEF Size
  <2>7. InPlace(q)
    BY <2>3, <2>4, <2>5, <2>6 DEF InPlace
  <2> QED BY <1>1, <2>3, <2>7, ClientActs
<1> QED BY <1>2, <1>3 DEF ReadSize

\* One more element of the vector is seen.
LEMMA ReadGetKeeps == ASSUME IInv, NEW c \in Clients, ReadGet(c) PROVE IInv'
<1>1. Unmoved /\ client[c].pc = "get"
  BY DEF ReadGet
<1>2. CASE Answer(c, "error")
  BY <1>1, <1>2, AnswerKeeps DEF Answers
<1>3. CASE /\ Len(client[c].seen) + 1 <= Size
           /\ client' = [client EXCEPT ![c].pc = "size",
                                       ![c].seen = Append(@, list[Len(client[c].seen) + 1])]
  <2>1. PICK r : r = client[c]
    OBVIOUS
  <2>2. PICK e : e = list[Len(r.seen) + 1]
    OBVIOUS
  <2>3. PICK q : q = [r EXCEPT !.pc = "size", !.seen = Append(r.seen, e)]
    OBVIOUS
  <2>4. r \in ClientRecord /\ InPlace(r) /\ client' = [client EXCEPT ![c] = q]
    BY <1>3, <2>1, <2>2, <2>3 DEF IInv, ClientsInPlace, ClientRecord
  <2>5. Vector /\ list \in Seq(Devices)
    BY <1>1, <2>1, <2>4 DEF InPlace, IInv, Booted
  <2>6. r.seen \in Seq(Devices) /\ Len(r.seen) \in Nat /\ Len(list) \in Nat /\ Len(r.seen) + 1 <= Len(list)
    BY <1>3, <2>1, <2>4, <2>5, LenProperties DEF ClientRecord, Size
  <2>7. e \in Devices
    BY <2>2, <2>5, <2>6
  <2>8. /\ q \in ClientRecord /\ q.pc = "size" /\ q.seen = Append(r.seen, e) /\ q.stale = r.stale
    <3>1. PICK p : p = Append(r.seen, e)
      OBVIOUS
    <3>2. p \in Seq(Devices) /\ q = [r EXCEPT !.pc = "size", !.seen = p]
      BY <2>3, <2>6, <2>7, <3>1, AppendProperties
    <3> QED BY <2>4, <3>1, <3>2 DEF ClientRecord
  <2>9. r.stale = FALSE => Begins(Append(r.seen, e), list)
    <3>1. r.stale = FALSE => Begins(r.seen, list)
      <4>1. r.seen = <<>> => Begins(r.seen, list)
        BY <2>6 DEF Begins
      <4> QED BY <2>4, <4>1 DEF InPlace
    <3> QED BY <2>2, <2>5, <2>6, <3>1, BeginsOneMore
  <2>10. InPlace(q)
    BY <2>5, <2>8, <2>9 DEF InPlace
  <2> QED BY <1>1, <2>4, <2>10, ClientActs
<1> QED BY <1>2, <1>3 DEF ReadGet

\* services, actions and parameters: what the handler asks of the place it then knows.
LEMMA AskPlaceKeeps ==
  ASSUME IInv, NEW c \in Clients, NEW check \in {"none", "size", "positive"}, AskPlace(c, check)
  PROVE  IInv'
<1>1. Unmoved
  BY DEF AskPlace
<1>2. CASE \E a \in {"error", "empty", "refused"} : Answer(c, a)
  BY <1>1, <1>2, AnswerKeeps DEF Answers
<1>3. ASSUME NEW n \in 0..MaxIndex, list \notin {Null, <<>>}, Admits(check, n),
             client' = [client EXCEPT ![c].pc = "take", ![c].n = n, ![c].check = check,
                                      ![c].answer = "none", ![c].shrunk = FALSE]
      PROVE  IInv'
  <2>1. PICK r : r = client[c]
    OBVIOUS
  <2>2. PICK q : q = [r EXCEPT !.pc = "take", !.n = n, !.check = check, !.answer = "none", !.shrunk = FALSE]
    OBVIOUS
  <2>3. r \in ClientRecord /\ InPlace(r) /\ client' = [client EXCEPT ![c] = q]
    BY <1>3, <2>1, <2>2 DEF IInv, ClientsInPlace, ClientRecord
  <2>4. n \in Nat
    BY BoundsAssumption
  <2>5. /\ q \in ClientRecord /\ q.pc = "take" /\ q.n = n /\ q.check = check
        /\ q.seen = r.seen /\ q.stale = r.stale
    BY <2>2, <2>3, <2>4 DEF ClientRecord, Answers
  <2>6. Vector /\ Len(list) \in Nat
    BY <1>3, VectorThere, LenProperties
  <2>7. (check = "positive" => n > 0) /\ (check = "size" => n <= Len(list) + 1)
    BY <1>3, <2>4, <2>6 DEF Admits, Size
  <2>8. InPlace(q)
    BY <2>3, <2>5, <2>6, <2>7 DEF InPlace
  <2> QED BY <1>1, <2>3, <2>8, ClientActs
<1> QED BY <1>2, <1>3 DEF AskPlace

\* The element of the place, or an error, ends the request.
LEMMA TakeKeeps == ASSUME IInv, NEW c \in Clients, Take(c) PROVE IInv'
<1>1. Unmoved /\ client[c].pc = "take"
  BY DEF Take
<1>2. list \in Seq(Devices)
  BY <1>1 DEF IInv, ClientsInPlace, InPlace, Booted
<1>3. CASE Answer(c, "error")
  BY <1>1, <1>3, AnswerKeeps DEF Answers
<1>4. CASE client[c].n \in 1..Size /\ Answer(c, list[client[c].n])
  BY <1>1, <1>2, <1>4, AnswerKeeps DEF Size
<1> QED BY <1>3, <1>4 DEF Take

\* Every step keeps the invariant.
LEMMA NextKeepsIInv == ASSUME IInv, [Next]_vars PROVE IInv'
<1>1. ASSUME NEW c \in Clients, Request(c) PROVE IInv'
  BY <1>1, AskListKeeps, PresenceKeeps, ReadSizeKeeps, ReadGetKeeps, AskPlaceKeeps, TakeKeeps
  DEF Request, GetDevices, GetExtra, GetServices, GetActions, GetParameters, PostServices,
      PostActions, PostParameters
<1>2. CASE UNCHANGED vars
  <2>1. UNCHANGED <<boot, toCopy, list, cling, tasks, client>>
    BY <1>2 DEF vars, cling
  <2> QED BY <2>1 DEF IInv, Booted, ClingTypes, TaskTypes, ClientsInPlace, InPlace, Vector, cling
<1> QED BY <1>1, <1>2, MainKeeps, ClingKeeps, StepKeeps DEF Next

\* The invariant holds of every behaviour.
THEOREM IInvAlways == Spec => []IInv
<1> QED BY InitIInv, NextKeepsIInv, PTL DEF Spec

\* The vector exists from CreateList on (ServiceBoot.java 567), and holds devices only.
THEOREM TypesAlways == Spec => []TypeOK
<1>1. IInv => TypeOK
  <2> SUFFICES ASSUME IInv PROVE TypeOK
    OBVIOUS
  <2>1. (list = Null) <=> (boot \in {"off", "http"})
    BY DevicesAssumption DEF IInv, Booted, Vector
  <2>2. list # Null => ToSet(list) \subseteq Devices
    BY DEF IInv, Booted, ToSet
  <2>3. \A k \in DOMAIN tasks : tasks[k].dev \in Devices /\ tasks[k].pos \in Nat
    BY DEF IInv, TaskTypes, TaskRecord
  <2> QED BY <2>1, <2>2, <2>3 DEF TypeOK, IInv, Booted, ClingTypes
<1> QED BY <1>1, IInvAlways, PTL

-----------------------------------------------------------------------------
\* What the steps answer.

\* What a step does to a client's answer and place in its request: nothing, or it is the
\* client's own request.
LEMMA OthersUnanswered ==
  ASSUME IInv, [Next]_vars, NEW c \in Clients, ~Request(c)
  PROVE  client'[c].pc = client[c].pc /\ client'[c].answer = client[c].answer
<1>1. client[c] \in ClientRecord
  BY DEF IInv, ClientsInPlace
<1>2. CASE client' = client
  BY <1>2
<1>3. CASE MarkStale
  BY <1>1, <1>3 DEF MarkStale, ClientRecord
<1>4. ASSUME NEW b \in Clients, b # c, Request(b) PROVE client'[c] = client[c]
  <2>1. client \in [Clients -> ClientRecord]
    BY DEF IInv, ClientsInPlace
  <2>2. AskList(b) \/ PostPresence(b) \/ ReadSize(b) \/ ReadGet(b) \/ Take(b)
          \/ \E check \in {"none", "size", "positive"} : AskPlace(b, check)
    BY <1>4 DEF Request, GetDevices, GetExtra, GetServices, GetActions, GetParameters,
         PostServices, PostActions, PostParameters
  <2>3. CASE \E a : Answer(b, a)
    BY <1>4, <2>1, <2>3 DEF Answer
  <2>4. CASE AskList(b)
    BY <1>4, <2>1, <2>3, <2>4 DEF AskList
  <2>5. CASE PostPresence(b)
    BY <2>3, <2>5 DEF PostPresence
  <2>6. CASE ReadSize(b)
    BY <1>4, <2>1, <2>3, <2>6 DEF ReadSize
  <2>7. CASE ReadGet(b)
    BY <1>4, <2>1, <2>3, <2>7 DEF ReadGet
  <2>8. CASE Take(b)
    BY <2>3, <2>8 DEF Take
  <2>9. ASSUME NEW check, AskPlace(b, check) PROVE client'[c] = client[c]
    BY <1>4, <2>1, <2>3, <2>9 DEF AskPlace
  <2> QED BY <2>2, <2>4, <2>5, <2>6, <2>7, <2>8, <2>9
<1>5. Main \/ (\E d \in Devices : Cling(d)) \/ UNCHANGED vars => client' = client
  BY DEF Main, StartHttp, CreateList, Connected, Copy, AddListener, Cling, DiscoveryStarted,
       DiscoveryFailed, DeviceFound, DeviceLeft, Notify, vars
<1>6. ASSUME NEW k \in DOMAIN tasks, Step(k) PROVE client' = client \/ MarkStale
  BY <1>6 DEF Step, IndexOf, AddLast, ResetRemove, ResetInsert, RemoveDevice, TakeOut
<1> QED BY <1>2, <1>3, <1>4, <1>5, <1>6 DEF Next

\* The end of a request.
LEMMA Answered ==
  ASSUME IInv, NEW c \in Clients, NEW a, Answer(c, a)
  PROVE  client'[c].pc = "idle" /\ client'[c].answer = a
<1>1. client[c] \in ClientRecord
  BY DEF IInv, ClientsInPlace
<1> QED BY <1>1 DEF Answer, IInv, ClientsInPlace, ClientRecord

\* A request about a place is ended by Take, with the element there or with an error.
LEMMA OnlyTakeEnds ==
  ASSUME NEW c \in Clients, Request(c), client[c].pc = "take"
  PROVE  Take(c)
BY DEF Request, GetDevices, GetExtra, GetServices, GetActions, GetParameters, PostServices,
     PostActions, PostParameters, AskList, PostPresence, AskPlace, ReadSize, ReadGet, May

\* A place of a listing names the device seen there, until the vector loses an element
\* (ServiceBoot.java 808-824 against the requests that count from the listing).
THEOREM PlacesKeepTheirDevice == Spec => IndexNamesDevice
<1>1. ASSUME IInv, [Next]_vars, NEW c \in Clients,
             client[c].pc = "take", client[c].n \in 1..Len(client[c].seen), ~client[c].stale,
             client'[c].pc = "idle"
      PROVE  client'[c].answer = client[c].seen[client[c].n]
  <2>1. Take(c)
    <3>1. Request(c)
      BY <1>1, OthersUnanswered
    <3> QED BY <1>1, <3>1, OnlyTakeEnds
  <2>2. PICK r : r = client[c]
    OBVIOUS
  <2>3. r \in ClientRecord /\ InPlace(r) /\ r.pc = "take" /\ r.n \in 1..Len(r.seen) /\ ~r.stale
    BY <1>1, <2>2 DEF IInv, ClientsInPlace
  <2>4. r.seen \in Seq(Devices) /\ Len(r.seen) \in Nat /\ r.seen # <<>> /\ r.stale = FALSE
    BY <2>3, LenProperties DEF ClientRecord
  <2>5. Vector /\ Begins(r.seen, list)
    BY <2>3, <2>4 DEF InPlace
  <2>6. list \in Seq(Devices) /\ Len(list) \in Nat
    BY <1>1, <2>5, LenProperties DEF IInv, Booted
  <2>7. r.n \in 1..Len(list) /\ list[r.n] = r.seen[r.n]
    BY <2>3, <2>4, <2>5, <2>6 DEF Begins
  <2>8. Answer(c, list[r.n])
    BY <2>1, <2>2, <2>7 DEF Take, Size
  <2> QED BY <1>1, <2>2, <2>7, <2>8, Answered
<1>2. IInv /\ [Next]_vars =>
        [\A c \in Clients :
           LET r == client[c] IN
           r.pc = "take" /\ r.n \in 1..Len(r.seen) /\ ~r.stale /\ client'[c].pc = "idle"
             => client'[c].answer = r.seen[r.n]]_vars
  BY <1>1
<1> QED BY <1>2, IInvAlways, PTL DEF Spec, IndexNamesDevice

\* A request fails only for the reasons that ErrorsExplained lists (the comparisons with the
\* size in UpnpService.java and the other resources let one place too many pass).
THEOREM FailuresExplained == Spec => ErrorsExplained
<1>1. ASSUME IInv, [Next]_vars, NEW c \in Clients,
             client'[c].answer = "error", client[c].answer # "error"
      PROVE  \/ list = Null
             \/ client[c].pc = "take" /\ client[c].n = 0 /\ client[c].check # "positive"
             \/ client[c].pc = "take" /\ client[c].n = Size + 1
             \/ client[c].pc = "take" /\ client[c].n > Size /\ client[c].check # "size"
             \/ client[c].shrunk
  <2>1. PICK r : r = client[c]
    OBVIOUS
  <2>2. r \in ClientRecord /\ InPlace(r) /\ r.answer # "error" /\ r.n \in Nat /\ r.seen \in Seq(Devices)
    BY <1>1, <2>1 DEF IInv, ClientsInPlace, ClientRecord
  <2>3. Request(c)
    BY <1>1, OthersUnanswered
  <2>4. CASE AskList(c) \/ PostPresence(c) \/ ReadSize(c) \/ \E check \in {"none", "size", "positive"} : AskPlace(c, check)
    <3>1. \A a \in {"empty", "present", "devices", "refused"} : ~Answer(c, a)
      BY <1>1, Answered
    <3>2. client \in [Clients -> ClientRecord] /\ client[c] = r
      BY <1>1, <2>1 DEF IInv, ClientsInPlace
    <3>3. client' # [client EXCEPT ![c].pc = "size", ![c].seen = <<>>, ![c].answer = "none",
                                   ![c].stale = FALSE, ![c].shrunk = FALSE]
      BY <1>1, <2>2, <3>2 DEF ClientRecord
    <3>4. client' # [client EXCEPT ![c].pc = "get"]
      BY <1>1, <2>2, <3>2 DEF ClientRecord
    <3>5. \A n, check : client' # [client EXCEPT ![c].pc = "take", ![c].n = n, ![c].check = check,
                                                 ![c].answer = "none", ![c].shrunk = FALSE]
      BY <1>1, <2>2, <3>2 DEF ClientRecord
    <3>6. CASE AskList(c)
      BY <3>1, <3>3, <3>6 DEF AskList
    <3>7. CASE PostPresence(c)
      BY <3>1, <3>7 DEF PostPresence
    <3>8. CASE ReadSize(c)
      BY <3>1, <3>4, <3>8 DEF ReadSize
    <3>9. ASSUME NEW check, AskPlace(c, check) PROVE list = Null
      <4>1. PICK n \in 0..MaxIndex :
              \/ list = Null
              \/ Answer(c, "empty") \/ Answer(c, "refused")
              \/ client' = [client EXCEPT ![c].pc = "take", ![c].n = n, ![c].check = check,
                                          ![c].answer = "none", ![c].shrunk = FALSE]
        BY <3>9 DEF AskPlace
      <4> QED BY <3>1, <3>5, <4>1
    <3> QED BY <2>4, <3>6, <3>7, <3>8, <3>9
  <2>5. CASE ReadGet(c)
    <3>1. r.pc = "get" /\ Vector
      BY <2>1, <2>2, <2>5 DEF ReadGet, InPlace
    <3>2. list \in Seq(Devices) /\ Len(list) \in Nat /\ Len(r.seen) \in Nat
      BY <1>1, <2>2, <3>1, LenProperties DEF IInv, Booted
    <3>3. CASE Len(r.seen) + 1 > Len(list)
      <4>1. r.shrunk # FALSE
        <5>1. ~(Len(r.seen) + 1 <= Len(list))
          BY <3>2, <3>3
        <5> QED BY <2>2, <3>1, <5>1 DEF InPlace
      <4> QED BY <2>1, <2>2, <4>1 DEF ClientRecord
    <3>4. CASE Len(r.seen) + 1 <= Len(list)
      <4>1. client' = [client EXCEPT ![c].pc = "size", ![c].seen = Append(@, list[Len(r.seen) + 1])]
        BY <2>1, <2>5, <3>2, <3>4 DEF ReadGet, Size
      <4>2. client'[c].answer = r.answer
        BY <1>1, <2>1, <2>2, <4>1 DEF IInv, ClientsInPlace, ClientRecord
      <4> QED BY <1>1, <2>2, <4>2
    <3> QED BY <3>2, <3>3, <3>4
  <2>6. CASE Take(c)
    <3>1. r.pc = "take" /\ Vector
      BY <2>1, <2>2, <2>6 DEF Take, InPlace
    <3>2. list \in Seq(Devices) /\ Len(list) \in Nat
      BY <1>1, <3>1, LenProperties DEF IInv, Booted
    <3>3. CASE r.n \in 1..Len(list)
      <4>1. list[r.n] \in Devices /\ Answer(c, list[r.n])
        BY <2>1, <2>6, <3>2, <3>3 DEF Take, Size
      <4>2. list[r.n] # "error"
        BY <4>1, DevicesAssumption DEF Answers
      <4> QED BY <1>1, <4>1, <4>2, Answered
    <3>4. CASE r.n = 0
      BY <2>1, <2>2, <3>1, <3>4 DEF InPlace
    <3>5. CASE r.n > Len(list)
      <4>1. r.check = "size" /\ r.shrunk = FALSE => r.n = Len(list) + 1
        BY <2>2, <3>1, <3>2, <3>5 DEF InPlace
      <4> QED BY <2>1, <2>2, <3>1, <3>5, <4>1 DEF Size, ClientRecord
    <3> QED BY <2>2, <3>2, <3>3, <3>4, <3>5
  <2> QED BY <2>3, <2>4, <2>5, <2>6 DEF Request, GetDevices, GetExtra, GetServices, GetActions,
            GetParameters, PostServices, PostActions, PostParameters
<1>2. IInv /\ [Next]_vars =>
        [\A c \in Clients :
           LET r == client[c] IN
           client'[c].answer = "error" /\ r.answer # "error"
             => \/ list = Null
                \/ r.pc = "take" /\ r.n = 0 /\ r.check # "positive"
                \/ r.pc = "take" /\ r.n = Size + 1
                \/ r.pc = "take" /\ r.n > Size /\ r.check # "size"
                \/ r.shrunk]_vars
  BY <1>1
<1> QED BY <1>2, IInvAlways, PTL DEF Spec, ErrorsExplained
-----------------------------------------------------------------------------
(* The vector holds what the registry holds.  Said of a device that neither came or went         *)
(* between the copy and addListener nor has two callbacks at a time.                              *)

Known(d) == d \in registry \cup discovering
Shown(d) == d \in ToSet(list)

\* What is copied and what is still to be copied are the registry's devices.
Copied(d) ==
  boot = "copying" => /\ Once(list \o toCopy, d)
                      /\ d \in ToSet(list \o toCopy) <=> d \in registry

\* A callback on its way: what it has found out of its device is still so.
OnItsWay(k, d) ==
  /\ tasks[k].op = "remove" <=> ~Known(d)
  /\ tasks[k].op \in {"append", "insert"} => ~Shown(d)
  /\ tasks[k].op = "reset" => Shown(d) /\ tasks[k].pos <= Size
  /\ tasks[k].op = "insert" => tasks[k].pos <= Size + 1

OneTask(d) == \A j, k \in DOMAIN tasks : tasks[j].dev = d /\ tasks[k].dev = d => j = k

\* A device without a callback: one whose description is being fetched may be listed or not.
AtRest(d) == (d \in registry => Shown(d)) /\ (Shown(d) => Known(d))

Followed(d) ==
  boot = "up" => /\ Once(list, d) /\ OneTask(d)
                 /\ \A k \in DOMAIN tasks : tasks[k].dev = d => OnItsWay(k, d)
                 /\ (\A k \in DOMAIN tasks : tasks[k].dev # d) => AtRest(d)

Plain == Devices \ (missed \cup overlap)
ExactInv == \A d \in Plain : Copied(d) /\ Followed(d)

\* Initially no listener is added.
LEMMA InitExact == Init => ExactInv
BY DEF Init, ExactInv, Copied, Followed

\* The copy: what is taken from the one sequence is added to the other.
LEMMA MainExact == ASSUME IInv, ExactInv, Main PROVE ExactInv'
<1>0. /\ missed' = missed /\ overlap' = overlap /\ registry' = registry /\ discovering' = discovering
      /\ tasks' = tasks
  BY DEF Main, StartHttp, CreateList, Connected, Copy, AddListener, cling, history
<1>1. CASE StartHttp \/ CreateList
  BY <1>1 DEF StartHttp, CreateList, ExactInv, Copied, Followed
<1>2. CASE Connected
  <2>1. boot' = "copying" /\ list' = <<>> /\ toCopy' = SetToSeq(registry)
    BY <1>2 DEF Connected
  <2>2. IsFiniteSet(registry)
    BY DevicesAssumption, FS_Subset DEF IInv, ClingTypes
  <2>3. /\ SetToSeq(registry) \in Seq(registry) /\ ToSet(SetToSeq(registry)) = registry
        /\ IsInjective(SetToSeq(registry))
    BY <2>2, SetToSeqIsSeq
  <2>4. list' \o toCopy' = SetToSeq(registry)
    BY <2>1, <2>3, ConcatEmptySeq
  <2>5. ASSUME NEW d PROVE Once(list' \o toCopy', d) /\ (d \in ToSet(list' \o toCopy') <=> d \in registry')
    BY <1>0, <2>3, <2>4 DEF Once, IsInjective
  <2> QED BY <2>1, <2>5 DEF ExactInv, Copied, Followed
<1>3. CASE Copy
  <2>1. /\ list \in Seq(Devices) /\ toCopy \in Seq(Devices) /\ toCopy # <<>> /\ boot = "copying" /\ boot' = boot
        /\ list' = Append(list, Head(toCopy)) /\ toCopy' = Tail(toCopy)
    BY <1>3 DEF Copy, IInv, Booted, Vector
  <2>2. list' \o toCopy' = list \o toCopy
    BY <2>1, HandedOver
  <2>3. ASSUME NEW d \in Plain' PROVE Copied(d)' /\ Followed(d)'
    BY <1>0, <2>1, <2>2 DEF ExactInv, Copied, Followed, Plain
  <2> QED BY <2>3 DEF ExactInv
<1>4. CASE AddListener
  <2>1. boot = "copying" /\ toCopy = <<>> /\ boot' = "up" /\ list' = list /\ list \in Seq(Devices)
    BY <1>4 DEF AddListener, IInv, Booted, Vector
  <2>2. list \o toCopy = list
    BY <2>1, ConcatEmptySeq
  <2>3. tasks' = <<>> /\ DOMAIN tasks' = {}
    BY <1>0, <2>1 DEF IInv, TaskTypes
  <2>4. ASSUME NEW d \in Plain' PROVE Copied(d)' /\ Followed(d)'
    <3>1. Once(list, d) /\ (d \in ToSet(list) <=> d \in registry)
      BY <1>0, <2>1, <2>2, <2>4 DEF ExactInv, Copied, Plain
    <3> QED BY <1>0, <2>1, <2>3, <3>1 DEF Copied, Followed, OneTask, AtRest, Shown, Known
  <2> QED BY <2>4 DEF ExactInv
<1> QED BY <1>1, <1>2, <1>3, <1>4 DEF Main

\* What one callback, or a change of another device, leaves as it was for d.
SameTasks(d) ==
  /\ \A j \in DOMAIN tasks' : tasks'[j].dev = d => \E k \in DOMAIN tasks : tasks[k] = tasks'[j]
  /\ \A k \in DOMAIN tasks : tasks[k].dev = d => \E j \in DOMAIN tasks' : tasks'[j] = tasks[k]
  /\ OneTask(d) => OneTask(d)'

LEMMA Untouched ==
  ASSUME NEW d, boot = "up", boot' = boot, Followed(d), SameTasks(d),
         d \in registry' <=> d \in registry, Known(d)' <=> Known(d),
         Once(list, d) => Once(list', d), d \in ToSet(list') <=> d \in ToSet(list),
         Len(list) \in Nat, Len(list') \in Nat, tasks \in Seq(TaskRecord),
         \/ Len(list') >= Len(list)
         \/ \A k \in DOMAIN tasks : tasks[k].dev = d => tasks[k].op \notin {"reset", "insert"}
  PROVE  Followed(d)'
<1>1. Shown(d)' <=> Shown(d)
  BY DEF Shown
<1>2. Once(list', d) /\ OneTask(d)'
  BY DEF Followed, SameTasks
<1>3. ASSUME NEW j \in DOMAIN tasks', tasks'[j].dev = d PROVE OnItsWay(j, d)'
  <2>1. PICK k \in DOMAIN tasks : tasks[k] = tasks'[j]
    BY <1>3 DEF SameTasks
  <2>2. OnItsWay(k, d) /\ tasks[k].dev = d /\ tasks[k].pos \in Nat
    BY <1>3, <2>1 DEF Followed, TaskRecord
  <2>3. PICK t : t = tasks[k]
    OBVIOUS
  <2>4. t.op \in {"reset", "insert"} => Len(list') >= Len(list)
    BY <2>2, <2>3
  <2>5. t = tasks'[j] /\ t.pos \in Nat
    BY <2>1, <2>2, <2>3
  <2>6. t.op = "reset" => t.pos <= Len(list')
    BY <2>2, <2>3, <2>4, <2>5 DEF OnItsWay, Size
  <2>7. t.op = "insert" => t.pos <= Len(list') + 1
    BY <2>2, <2>3, <2>4, <2>5 DEF OnItsWay, Size
  <2> QED BY <1>1, <2>2, <2>3, <2>5, <2>6, <2>7 DEF OnItsWay, Size
<1>4. ASSUME \A j \in DOMAIN tasks' : tasks'[j].dev # d PROVE AtRest(d)'
  <2>1. \A k \in DOMAIN tasks : tasks[k].dev # d
    BY <1>4 DEF SameTasks
  <2> QED BY <1>1, <2>1 DEF Followed, AtRest
<1> QED BY <1>2, <1>3, <1>4 DEF Followed

\* A callback ends: those of other devices stay, and its device has none, if it had one.
LEMMA TaskEnds ==
  ASSUME tasks \in Seq(TaskRecord), NEW k \in DOMAIN tasks, End(k), NEW d
  PROVE  /\ d # tasks[k].dev => SameTasks(d)
         /\ d = tasks[k].dev /\ OneTask(d) => \A j \in DOMAIN tasks' : tasks'[j].dev # d
<1>1. tasks' \in Seq(TaskRecord) /\ OneMore(tasks', k, tasks[k], tasks)
  BY RemoveAtParts, RemoveAtCounts DEF End
<1>2. /\ Len(tasks') \in Nat /\ DOMAIN tasks' = 1..Len(tasks') /\ DOMAIN tasks = 1..Len(tasks)
      /\ Len(tasks) = Len(tasks') + 1 /\ k \in 1..Len(tasks)
  BY <1>1, LenProperties DEF OneMore
<1> DEFINE to(j) == IF j < k THEN j ELSE j + 1
           from(j) == IF j < k THEN j ELSE j - 1
<1>3. \A j \in DOMAIN tasks' : to(j) \in DOMAIN tasks /\ to(j) # k /\ tasks[to(j)] = tasks'[j]
  BY <1>1, <1>2 DEF OneMore
<1>4. \A i, j \in DOMAIN tasks' : to(i) = to(j) => i = j
  BY <1>2
<1>5. \A j \in DOMAIN tasks : j # k => from(j) \in DOMAIN tasks' /\ to(from(j)) = j
  BY <1>2
<1> HIDE DEF to, from
<1>6. ASSUME d # tasks[k].dev PROVE SameTasks(d)
  <2>1. \A j \in DOMAIN tasks : tasks[j].dev = d => tasks'[from(j)] = tasks[j] /\ from(j) \in DOMAIN tasks'
    BY <1>3, <1>5, <1>6
  <2>2. OneTask(d) => OneTask(d)'
    BY <1>3, <1>4 DEF OneTask
  <2> QED BY <1>3, <2>1, <2>2 DEF SameTasks
<1>7. ASSUME d = tasks[k].dev, OneTask(d), NEW j \in DOMAIN tasks', tasks'[j].dev = d PROVE FALSE
  BY <1>3, <1>7 DEF OneTask
<1> QED BY <1>6, <1>7

\* A callback goes on.
LEMMA TaskGoes ==
  ASSUME tasks \in Seq(TaskRecord), NEW k \in DOMAIN tasks, NEW op, NEW pos, Goto(k, op, pos), NEW d
  PROVE  /\ d # tasks[k].dev => SameTasks(d)
         /\ DOMAIN tasks' = DOMAIN tasks
         /\ \A j \in DOMAIN tasks : tasks'[j].dev = tasks[j].dev /\ (j # k => tasks'[j] = tasks[j])
         /\ tasks'[k].op = op /\ tasks'[k].pos = pos
<1>1. tasks[k] \in TaskRecord /\ DOMAIN tasks = 1..Len(tasks)
  BY LenProperties
<1>2. DOMAIN tasks' = DOMAIN tasks
  BY <1>1 DEF Goto
<1>3. tasks'[k].op = op /\ tasks'[k].pos = pos /\ tasks'[k].dev = tasks[k].dev
  BY <1>1 DEF Goto, TaskRecord
<1>4. \A j \in DOMAIN tasks : j # k => tasks'[j] = tasks[j]
  BY <1>1 DEF Goto
<1>5. d # tasks[k].dev => SameTasks(d)
  BY <1>2, <1>3, <1>4 DEF SameTasks, OneTask
<1> QED BY <1>2, <1>3, <1>4, <1>5

\* A callback begins.
LEMMA TaskBegins ==
  ASSUME tasks \in Seq(TaskRecord), NEW t \in TaskRecord, tasks' = Append(tasks, t), NEW d
  PROVE  /\ d # t.dev => SameTasks(d)
         /\ d = t.dev /\ (\A k \in DOMAIN tasks : tasks[k].dev # d) =>
              \E k \in DOMAIN tasks' : /\ tasks'[k] = t
                                       /\ \A j \in DOMAIN tasks' : tasks'[j].dev = d => j = k
<1> DEFINE n == Len(tasks) + 1
<1>1. /\ Len(tasks) \in Nat /\ DOMAIN tasks = 1..Len(tasks) /\ DOMAIN tasks' = 1..n
      /\ tasks'[n] = t /\ \A j \in DOMAIN tasks : tasks'[j] = tasks[j]
  BY AppendProperties, LenProperties
<1>2. \A j \in DOMAIN tasks' : j = n \/ j \in DOMAIN tasks
  BY <1>1
<1>3. n \in DOMAIN tasks' /\ DOMAIN tasks \subseteq DOMAIN tasks'
  BY <1>1
<1> HIDE DEF n
<1>4. ASSUME d # t.dev PROVE SameTasks(d)
  BY <1>1, <1>2, <1>3, <1>4 DEF SameTasks, OneTask
<1>5. ASSUME d = t.dev, \A k \in DOMAIN tasks : tasks[k].dev # d
      PROVE  \A j \in DOMAIN tasks' : tasks'[j].dev = d => j = n
  BY <1>1, <1>2, <1>5
<1> QED BY <1>1, <1>3, <1>4, <1>5

\* A change of the registry: of its device this is the only callback.
LEMMA ClingExact == ASSUME IInv, ExactInv, NEW e \in Devices, Cling(e) PROVE ExactInv'
<1>1. PICK op \in {"index", "remove"} :
        /\ Notify(e, op)
        /\ op = "remove" <=> e \notin registry' \cup discovering'
        /\ \A d : d # e => (d \in registry' <=> d \in registry) /\ (d \in discovering' <=> d \in discovering)
  BY DEF Cling, DiscoveryStarted, DiscoveryFailed, DeviceFound, DeviceLeft, IInv, ClingTypes
<1>2. /\ UNCHANGED <<boot, toCopy, list>> /\ missed \subseteq missed' /\ overlap \subseteq overlap'
      /\ e \in overlap' \/ \A k \in DOMAIN tasks : tasks[k].dev # e
      /\ boot = "copying" => e \in missed'
      /\ tasks' = IF Listening THEN Append(tasks, [op |-> op, dev |-> e, pos |-> 0]) ELSE tasks
  BY <1>1 DEF Notify
<1>3. ASSUME NEW d \in Plain' PROVE Copied(d)' /\ Followed(d)'
  <2>1. d \in Plain /\ Copied(d) /\ Followed(d)
    BY <1>2, <1>3 DEF Plain, ExactInv
  <2>2. Copied(d)'
    BY <1>1, <1>2, <1>3, <2>1 DEF Copied, Plain
  <2>3. CASE boot # "up"
    BY <1>2, <2>2, <2>3 DEF Followed
  <2>4. CASE boot = "up"
    <3> DEFINE t == [op |-> op, dev |-> e, pos |-> 0]
    <3>1. /\ tasks \in Seq(TaskRecord) /\ t \in TaskRecord /\ t.dev = e /\ t.op = op /\ tasks' = Append(tasks, t)
          /\ list \in Seq(Devices) /\ Len(list) \in Nat
      BY <1>2, <2>4, LenProperties DEF IInv, TaskTypes, TaskRecord, Listening, Booted, Vector
    <3> HIDE DEF t
    <3>2. CASE d # e
      <4>1. SameTasks(d)
        BY <3>1, <3>2, TaskBegins
      <4>2. (d \in registry' <=> d \in registry) /\ (Known(d)' <=> Known(d))
        BY <1>1, <3>2 DEF Known
      <4>3. Followed(d)'
        BY <1>2, <2>1, <2>4, <3>1, <4>1, <4>2, Untouched
      <4> QED BY <2>2, <4>3
    <3>3. CASE d = e
      <4>1. \A k \in DOMAIN tasks : tasks[k].dev # e
        BY <1>2, <1>3, <3>3 DEF Plain
      <4>2. PICK k \in DOMAIN tasks' : tasks'[k] = t /\ \A j \in DOMAIN tasks' : tasks'[j].dev = d => j = k
        BY <3>1, <3>3, <4>1, TaskBegins
      <4>3. OneTask(d)' /\ tasks'[k].dev = d
        BY <3>1, <3>3, <4>2 DEF OneTask
      <4>4. tasks'[k].op = op /\ (op = "remove" <=> ~Known(d)')
        BY <1>1, <3>1, <3>3, <4>2 DEF Known
      <4>5. OnItsWay(k, d)'
        BY <4>4 DEF OnItsWay
      <4> QED BY <1>2, <2>1, <2>2, <2>4, <4>2, <4>3, <4>5 DEF Followed
    <3> QED BY <3>2, <3>3
  <2> QED BY <2>2, <2>3, <2>4
<1> QED BY <1>3 DEF ExactInv

\* The first place of a device, and the vector without it.
LEMMA WithoutCounts ==
  ASSUME list \in Seq(Devices), NEW e
  PROVE  /\ Shown(e) => Place(e) \in 1..Size /\ Len(Without(e)) = Size - 1
         /\ ~Shown(e) => Place(e) = 0 /\ Without(e) = list
         /\ Place(e) = 0 <=> ~Shown(e)
         /\ \A d : d # e => /\ Once(list, d) => Once(Without(e), d)
                            /\ d \in ToSet(Without(e)) <=> d \in ToSet(list)
         /\ Once(list, e) => e \notin ToSet(Without(e))
<1>1. CASE Shown(e)
  <2> DEFINE k == Place(e)
             r == Without(e)
  <2>1. k \in 1..Size /\ list[k] = e
    BY <1>1, FirstPlace DEF Place, Size, Shown
  <2>2. k # 0 /\ k \in DOMAIN list /\ Len(list) \in Nat
    BY <2>1, LenProperties DEF Size
  <2>3. r = RemoveAt(list, k)
    BY <2>2 DEF Without
  <2> HIDE DEF k, r
  <2>4. r \in Seq(Devices) /\ Len(r) = Size - 1 /\ OneMore(r, k, e, list)
    BY <2>1, <2>2, <2>3, RemoveAtParts, RemoveAtCounts DEF Size
  <2>5. /\ \A d : d # e => (Once(r, d) <=> Once(list, d)) /\ (d \in ToSet(r) <=> d \in ToSet(list))
        /\ Once(list, e) <=> e \notin ToSet(r)
    BY <2>4, OneMoreCounts
  <2> QED BY <1>1, <2>1, <2>2, <2>4, <2>5 DEF k, r
<1>2. CASE ~Shown(e)
  <2>1. Place(e) = 0
    BY <1>2 DEF Place, Shown
  <2>2. Without(e) = list
    BY <2>1 DEF Without
  <2> QED BY <1>2, <2>1, <2>2 DEF Shown
<1> QED BY <1>1, <1>2

\* What a step of e's callback does to the vector, as another device sees it.
LEMMA OthersInVector ==
  ASSUME IInv, NEW k \in DOMAIN tasks, Step(k), NEW d, d # tasks[k].dev
  PROVE  /\ Once(list, d) => Once(list', d)
         /\ d \in ToSet(list') <=> d \in ToSet(list)
         /\ SameTasks(d)
         /\ Len(list') \in Nat
         /\ \/ Len(list') >= Len(list)
            \/ d \in overlap'
            \/ \A j \in DOMAIN tasks : tasks[j].dev = d => tasks[j].op \notin {"reset", "insert"}
<1> DEFINE e == tasks[k].dev
<1>1. /\ list \in Seq(Devices) /\ Len(list) \in Nat /\ tasks \in Seq(TaskRecord) /\ e \in Devices
      /\ tasks[k].pos \in Nat /\ (tasks[k].op = "insert" => tasks[k].pos >= 1)
  BY LenProperties DEF IInv, TaskTypes, Booted, Vector, TaskRecord
<1> HIDE DEF e
<1>2. SameTasks(d)
  <2>1. CASE End(k)
    BY <1>1, <2>1, TaskEnds
  <2>2. CASE \E op, pos : Goto(k, op, pos)
    BY <1>1, <2>2, TaskGoes
  <2> QED BY <2>1, <2>2 DEF Step, IndexOf, AddLast, ResetRemove, ResetInsert, RemoveDevice
<1>3. CASE list' = list
  BY <1>1, <1>2, <1>3
<1>4. ASSUME NEW p, list' \in Seq(Devices), OneMore(list, p, e, list')
      PROVE  /\ Once(list, d) => Once(list', d)
             /\ d \in ToSet(list') <=> d \in ToSet(list)
             /\ Len(list') \in Nat /\ Len(list') >= Len(list)
  <2>1. Len(list') = Len(list) + 1
    BY <1>4 DEF OneMore
  <2>2. (Once(list, d) <=> Once(list', d)) /\ (d \in ToSet(list) <=> d \in ToSet(list'))
    BY <1>1, <1>4, OneMoreCounts DEF e
  <2> QED BY <1>1, <2>1, <2>2
<1>5. CASE AddLast(k)
  <2>1. list' = Append(list, e)
    BY <1>5 DEF AddLast, e
  <2>2. list' \in Seq(Devices) /\ OneMore(list, Len(list) + 1, e, list')
    BY <1>1, <2>1, AppendProperties, AppendCounts
  <2> QED BY <1>2, <1>4, <2>2
<1>6. CASE ResetInsert(k) /\ list' # list
  <2>1. list' = InsertAt(list, tasks[k].pos, e) /\ tasks[k].pos \in 1..(Len(list) + 1)
    BY <1>1, <1>6 DEF ResetInsert, Size, e
  <2>2. list' \in Seq(Devices) /\ OneMore(list, tasks[k].pos, e, list')
    BY <1>1, <2>1, InsertAtParts, InsertAtCounts
  <2> QED BY <1>2, <1>4, <2>2
<1>7. CASE TakeOut(k)
  <2>1. list' = Without(e)
    BY <1>7 DEF TakeOut, e
  <2>2. Once(list, d) => Once(list', d)
    BY <1>1, <2>1, WithoutCounts DEF e
  <2>3. d \in ToSet(list') <=> d \in ToSet(list)
    BY <1>1, <2>1, WithoutCounts DEF e
  <2>4. Len(list') \in Nat
    BY <1>1, <2>1, WithoutIsSeq, LenProperties
  <2>5. ASSUME NEW j \in DOMAIN tasks, tasks[j].dev = d, tasks[j].op \in {"reset", "insert"}
        PROVE  d \in overlap'
    BY <1>7, <2>5 DEF TakeOut
  <2> QED BY <1>2, <2>2, <2>3, <2>4, <2>5
<1> QED BY <1>3, <1>5, <1>6, <1>7 DEF Step, IndexOf, ResetRemove, RemoveDevice

\* A step of a device's own callback, the only one it has.
LEMMA OwnStep ==
  ASSUME IInv, NEW k \in DOMAIN tasks, Step(k), NEW e, e = tasks[k].dev, Followed(e)
  PROVE  Followed(e)'
<1>1. /\ list \in Seq(Devices) /\ Len(list) \in Nat /\ Size = Len(list) /\ tasks \in Seq(TaskRecord)
      /\ tasks[k] \in TaskRecord /\ tasks[k].pos \in Nat /\ boot = "up" /\ e \in Devices
      /\ (tasks[k].op \in {"reset", "insert"} => tasks[k].pos >= 1)
  BY LenProperties DEF IInv, TaskTypes, Booted, Vector, TaskRecord, Size
<1>2. /\ boot' = boot /\ registry' = registry /\ discovering' = discovering
      /\ Known(e)' = Known(e)
  BY DEF Step, IndexOf, AddLast, ResetRemove, ResetInsert, RemoveDevice, TakeOut, cling, Known
<1>3. Once(list, e) /\ OneTask(e) /\ OnItsWay(k, e)
  BY <1>1 DEF Followed
<1>4. ASSUME End(k), Once(list', e), AtRest(e)' PROVE Followed(e)'
  <2>1. \A j \in DOMAIN tasks' : tasks'[j].dev # e
    BY <1>1, <1>3, <1>4, TaskEnds
  <2> QED BY <1>4, <2>1 DEF Followed, OneTask
<1>5. ASSUME NEW op, NEW pos, Goto(k, op, pos), Once(list', e),
             op = "remove" <=> ~Known(e),
             op \in {"append", "insert"} => e \notin ToSet(list'),
             op = "reset" => e \in ToSet(list') /\ pos <= Len(list'),
             op = "insert" => pos <= Len(list') + 1
      PROVE  Followed(e)'
  <2>1. /\ DOMAIN tasks' = DOMAIN tasks /\ \A j \in DOMAIN tasks : tasks'[j].dev = tasks[j].dev
        /\ tasks'[k].op = op /\ tasks'[k].pos = pos
    BY <1>1, <1>5, TaskGoes
  <2>2. OneTask(e)'
    BY <1>3, <2>1 DEF OneTask
  <2>3. \A j \in DOMAIN tasks' : tasks'[j].dev = e => j = k
    BY <1>3, <2>1 DEF OneTask
  <2>4. OnItsWay(k, e)'
    BY <1>2, <1>5, <2>1 DEF OnItsWay, Shown, Size
  <2>5. k \in DOMAIN tasks' /\ tasks'[k].dev = e
    BY <2>1
  <2> QED BY <1>5, <2>2, <2>3, <2>4, <2>5 DEF Followed
<1>6. CASE IndexOf(k)
  <2> DEFINE p == Place(e)
  <2>1. tasks[k].op = "index" /\ list' = list /\ Goto(k, IF p = 0 THEN "append" ELSE "reset", p) /\ Known(e)
    BY <1>3, <1>6 DEF IndexOf, OnItsWay
  <2>2. (p = 0 <=> ~Shown(e)) /\ (Shown(e) => p \in 1..Size)
    BY <1>1, WithoutCounts
  <2> HIDE DEF p
  <2>3. CASE p = 0
    BY <1>3, <1>5, <2>1, <2>2, <2>3 DEF Shown
  <2>4. CASE p # 0
    <3>1. e \in ToSet(list') /\ p <= Len(list')
      BY <1>1, <2>1, <2>2, <2>4 DEF Shown
    <3> QED BY <1>3, <1>5, <2>1, <2>4, <3>1
  <2> QED BY <2>3, <2>4
<1>7. CASE AddLast(k)
  <2>1. tasks[k].op = "append" /\ list' = Append(list, e) /\ End(k)
    BY <1>7 DEF AddLast
  <2>2. Known(e) /\ e \notin ToSet(list)
    BY <1>3, <2>1 DEF OnItsWay, Shown
  <2>3. list' \in Seq(Devices) /\ OneMore(list, Len(list) + 1, e, list')
    BY <1>1, <2>1, AppendProperties, AppendCounts
  <2>4. Once(list', e) /\ e \in ToSet(list')
    BY <1>1, <2>2, <2>3, OneMoreCounts
  <2> QED BY <1>2, <1>4, <2>1, <2>2, <2>4 DEF AtRest, Shown
<1>8. CASE ResetRemove(k)
  <2>1. tasks[k].op = "reset" /\ list' = Without(e) /\ Goto(k, "insert", tasks[k].pos)
    BY <1>8 DEF ResetRemove, TakeOut
  <2>2. Known(e) /\ Shown(e) /\ tasks[k].pos <= Size
    BY <1>3, <2>1 DEF OnItsWay
  <2>3. e \notin ToSet(list') /\ Len(list') = Size - 1
    BY <1>1, <1>3, <2>1, <2>2, WithoutCounts
  <2>4. Once(list', e)
    BY <2>3 DEF Once, ToSet
  <2>5. tasks[k].pos <= Len(list') + 1
    BY <1>1, <2>2, <2>3
  <2> QED BY <1>5, <2>1, <2>2, <2>3, <2>4, <2>5
<1>9. CASE ResetInsert(k)
  <2>1. tasks[k].op = "insert" /\ End(k)
    BY <1>9 DEF ResetInsert
  <2>2. Known(e) /\ e \notin ToSet(list) /\ tasks[k].pos <= Len(list) + 1
    BY <1>1, <1>3, <2>1 DEF OnItsWay, Shown
  <2>3. list' = InsertAt(list, tasks[k].pos, e) /\ tasks[k].pos \in 1..(Len(list) + 1)
    BY <1>1, <1>9, <2>1, <2>2 DEF ResetInsert
  <2>4. list' \in Seq(Devices) /\ OneMore(list, tasks[k].pos, e, list')
    BY <1>1, <2>3, InsertAtParts, InsertAtCounts
  <2>5. Once(list', e) /\ e \in ToSet(list')
    BY <1>1, <2>2, <2>4, OneMoreCounts
  <2> QED BY <1>2, <1>4, <2>1, <2>2, <2>5 DEF AtRest, Shown
<1>10. CASE RemoveDevice(k)
  <2>1. tasks[k].op = "remove" /\ list' = Without(e) /\ End(k)
    BY <1>10 DEF RemoveDevice, TakeOut
  <2>2. ~Known(e) /\ e \notin ToSet(list')
    BY <1>1, <1>3, <2>1, WithoutCounts DEF OnItsWay
  <2>3. Once(list', e)
    BY <2>2 DEF Once, ToSet
  <2> QED BY <1>2, <1>4, <2>1, <2>2, <2>3 DEF AtRest, Shown, Known
<1> QED BY <1>6, <1>7, <1>8, <1>9, <1>10 DEF Step

\* A step of a callback.
LEMMA StepExact == ASSUME IInv, ExactInv, NEW k \in DOMAIN tasks, Step(k) PROVE ExactInv'
<1>1. /\ boot = "up" /\ boot' = boot /\ registry' = registry /\ discovering' = discovering /\ missed' = missed
      /\ overlap \subseteq overlap'
      /\ tasks \in Seq(TaskRecord) /\ Len(list) \in Nat
  <2>1. boot = "up" /\ tasks \in Seq(TaskRecord) /\ Len(list) \in Nat
    BY LenProperties DEF IInv, TaskTypes, Booted, Vector
  <2> QED BY <2>1 DEF Step, IndexOf, AddLast, ResetRemove, ResetInsert, RemoveDevice, TakeOut, cling, history
<1>2. ASSUME NEW d \in Plain' PROVE Copied(d)' /\ Followed(d)'
  <2>1. d \in Plain /\ Followed(d) /\ d \notin overlap'
    BY <1>1, <1>2 DEF Plain, ExactInv
  <2>2. ASSUME d = tasks[k].dev PROVE Followed(d)'
    BY <2>1, <2>2, OwnStep
  <2>3. ASSUME d # tasks[k].dev PROVE Followed(d)'
    <3>1. (d \in registry' <=> d \in registry) /\ (Known(d)' <=> Known(d))
      BY <1>1 DEF Known
    <3>2. /\ Once(list, d) => Once(list', d)
          /\ d \in ToSet(list') <=> d \in ToSet(list)
          /\ SameTasks(d) /\ Len(list') \in Nat
          /\ \/ Len(list') >= Len(list)
             \/ \A j \in DOMAIN tasks : tasks[j].dev = d => tasks[j].op \notin {"reset", "insert"}
      BY <2>1, <2>3, OthersInVector
    <3> QED BY <1>1, <2>1, <3>1, <3>2, Untouched
  <2> QED BY <1>1, <2>2, <2>3 DEF Copied
<1> QED BY <1>2 DEF ExactInv

\* When no callback is under way the vector holds the registry's devices, each once: of every
\* device that did not come or go between the copy and addListener, and of whose callbacks no
\* other overlapped one (ServiceBoot.java 275-280 and 808-824).
THEOREM VectorIsRegistry == Spec => []ListExact
<1>1. ASSUME IInv, ExactInv, [Next]_vars PROVE ExactInv'
  <2>1. ASSUME NEW c \in Clients, Request(c)
        PROVE  UNCHANGED <<boot, toCopy, list, registry, discovering, tasks, missed, overlap>>
    BY <2>1 DEF Request, GetDevices, GetExtra, GetServices, GetActions, GetParameters, PostServices,
         PostActions, PostParameters, AskList, AskPlace, PostPresence, ReadSize, ReadGet, Take,
         Unmoved, cling, history
  <2>2. ASSUME UNCHANGED <<boot, toCopy, list, registry, discovering, tasks, missed, overlap>>
        PROVE  ExactInv'
    BY <1>1, <2>2 DEF ExactInv, Plain, Copied, Followed, OneTask, OnItsWay, AtRest, Shown, Known, Size
  <2> QED BY <1>1, <2>1, <2>2, MainExact, ClingExact, StepExact DEF Next, vars
<1>2. ASSUME IInv, ExactInv PROVE ListExact
  <2> SUFFICES ASSUME Settled, NEW d \in Devices \ (missed \cup overlap)
               PROVE  Cardinality({k \in 1..Size : list[k] = d}) = IF d \in registry THEN 1 ELSE 0
    BY DEF ListExact
  <2> DEFINE T == {k \in 1..Size : list[k] = d}
  <2>1. Once(list, d) /\ (Shown(d) <=> d \in registry)
    BY <1>2 DEF Settled, ExactInv, Plain, Followed, AtRest, Known
  <2>2. DOMAIN list = 1..Size
    BY <1>2, LenProperties DEF Settled, IInv, Booted, Vector, Size
  <2>3. CASE d \in registry
    <3>1. \E k : T = {k}
      BY <2>1, <2>2, <2>3 DEF Once, Shown, ToSet
    <3>2. Cardinality(T) = 1
      BY <3>1, FS_Singleton
    <3> QED BY <2>3, <3>2
  <2>4. CASE d \notin registry
    <3>1. T = {}
      BY <2>1, <2>2, <2>4 DEF Shown, ToSet
    <3> QED BY <2>4, <3>1, FS_EmptySet
  <2> QED BY <2>3, <2>4
<1>3. Init => IInv /\ ExactInv
  BY InitIInv, InitExact
<1> QED BY <1>1, <1>2, <1>3, NextKeepsIInv, PTL DEF Spec
-----------------------------------------------------------------------------
\* The two halves together.  A step of one leaves the other as it is, so a run of the agent is
\* a run of each half, and what is proved of a half holds in the agent.

BP == INSTANCE AgentBluetoothProofs WITH Devices <- BtDevices, MaxRequests <- MaxAsks,
                                         list <- found, client <- asker

\* B and BP are instances of one module, whose definitions the provers see apart.  The same
\* broadcasts and switches (Android):
LEMMA SameAndroid == B!Android => BP!Android
<1>1. B!SwitchOn => BP!SwitchOn
  BY DEF B!SwitchOn, B!MaySend, B!Tell, B!On, BP!SwitchOn, BP!MaySend, BP!Tell, BP!On
<1>2. B!SwitchOff => BP!SwitchOff
  BY DEF B!SwitchOff, B!MaySend, B!Tell, B!Finished, B!Off, B!Asking, BP!SwitchOff, BP!MaySend,
     BP!Tell, BP!Finished, BP!Off, BP!Asking
<1>3. B!OtherScan => BP!OtherScan
  BY DEF B!OtherScan, B!MaySend, B!Unreported, B!Tell, B!Started, BP!OtherScan, BP!MaySend,
     BP!Unreported, BP!Tell, BP!Started
<1>4. B!ScanEnds => BP!ScanEnds
  BY DEF B!ScanEnds, B!MaySend, B!Tell, B!Finished, B!radio, BP!ScanEnds, BP!MaySend, BP!Tell,
     BP!Finished, BP!radio
<1>5. \A d \in BtDevices : B!Finds(d) => BP!Finds(d)
  BY DEF B!Finds, B!MaySend, B!Tell, B!Found, BP!Finds, BP!MaySend, BP!Tell, BP!Found
<1>6. \A d \in BtDevices : B!FetchEnds(d) => BP!FetchEnds(d)
  BY DEF B!FetchEnds, BP!FetchEnds
<1> QED
  BY <1>1, <1>2, <1>3, <1>4, <1>5, <1>6 DEF B!Android, BP!Android

\* The same handling of a broadcast (BluetoothService.java 72-146):
LEMMA SameReceive == B!Receive => BP!Receive
<1>1. B!ReceiveFound => BP!ReceiveFound
  BY DEF B!ReceiveFound, B!Receives, B!radio, B!ToSet, BP!ReceiveFound, BP!Receives, BP!radio,
     BP!ToSet
<1>2. B!ReceiveStarted => BP!ReceiveStarted
  BY DEF B!ReceiveStarted, B!Receives, B!Clear, B!Asking, B!Listing, B!radio, BP!ReceiveStarted,
     BP!Receives, BP!Clear, BP!Asking, BP!Listing, BP!radio
<1>3. B!ReceiveFinished => BP!ReceiveFinished
  BY DEF B!ReceiveFinished, B!Receives, B!radio, B!ToSet, BP!ReceiveFinished, BP!Receives,
     BP!radio, BP!ToSet
<1>4. B!ReceiveOff => BP!ReceiveOff
  BY DEF B!ReceiveOff, B!Receives, B!Finished, B!Clear, B!Asking, B!Listing, B!radio,
     BP!ReceiveOff, BP!Receives, BP!Finished, BP!Clear, BP!Asking, BP!Listing, BP!radio
<1>5. B!ReceiveOn => BP!ReceiveOn
  BY DEF B!ReceiveOn, B!Receives, B!Start, B!Unreported, B!Started, B!Clear, B!Asking, B!Listing,
     BP!ReceiveOn, BP!Receives, BP!Start, BP!Unreported, BP!Started, BP!Clear, BP!Asking, BP!Listing
<1> QED
  BY <1>1, <1>2, <1>3, <1>4, <1>5 DEF B!Receive, BP!Receive

\* The same requests (the Bluetooth resources):
LEMMA SameRequest == ASSUME NEW c \in Clients, B!Request(c) PROVE BP!Request(c)
<1>1. B!GetPresence(c) => BP!GetPresence(c)
  BY DEF B!GetPresence, B!May, B!Answer, B!Listing, B!NoSensor, B!Unmoved, B!radio, BP!GetPresence,
     BP!May, BP!Answer, BP!Listing, BP!NoSensor, BP!Unmoved, BP!radio
<1>2. B!PostPresence(c) => BP!PostPresence(c)
  BY DEF B!PostPresence, B!May, B!Answer, B!Listing, B!NoSensor, B!Unmoved, B!radio,
     BP!PostPresence, BP!May, BP!Answer, BP!Listing, BP!NoSensor, BP!Unmoved, BP!radio
<1>3. B!GetDevices(c) => BP!GetDevices(c)
  BY DEF B!GetDevices, B!AskList, B!May, B!NoSensor, B!Answer, B!Listing, B!Unmoved, B!radio,
     BP!GetDevices, BP!AskList, BP!May, BP!NoSensor, BP!Answer, BP!Listing, BP!Unmoved, BP!radio
<1>4. B!GetExtra(c) => BP!GetExtra(c)
  BY DEF B!GetExtra, B!AskList, B!May, B!NoSensor, B!Answer, B!Listing, B!Unmoved, B!radio,
     BP!GetExtra, BP!AskList, BP!May, BP!NoSensor, BP!Answer, BP!Listing, BP!Unmoved, BP!radio
<1>5. B!PostExtra(c) => BP!PostExtra(c)
  BY DEF B!PostExtra, B!AskList, B!May, B!NoSensor, B!Answer, B!Listing, B!Unmoved, B!radio,
     BP!PostExtra, BP!AskList, BP!May, BP!NoSensor, BP!Answer, BP!Listing, BP!Unmoved, BP!radio
<1>6. B!ReadSize(c) => BP!ReadSize(c)
  BY DEF B!ReadSize, B!Size, B!Answer, B!Listing, B!Goto, B!Unmoved, B!radio, BP!ReadSize, BP!Size,
     BP!Answer, BP!Listing, BP!Goto, BP!Unmoved, BP!radio
<1>7. B!ReadGet(c) => BP!ReadGet(c)
  BY DEF B!ReadGet, B!Size, B!Answer, B!Listing, B!Fails, B!Uuids, B!Unmoved, B!radio, BP!ReadGet,
     BP!Size, BP!Answer, BP!Listing, BP!Fails, BP!Uuids, BP!Unmoved, BP!radio
<1>8. B!ReadUuids(c) => BP!ReadUuids(c)
  BY DEF B!ReadUuids, B!Uuids, B!Goto, B!Answer, B!Listing, B!Unmoved, B!radio, B!Last,
     BP!ReadUuids, BP!Uuids, BP!Goto, BP!Answer, BP!Listing, BP!Unmoved, BP!radio, BP!Last
<1>9. B!GetServices(c) => BP!GetServices(c)
  BY DEF B!GetServices, B!May, B!Answer, B!Listing, B!Size, B!AskPlace, B!Unmoved, B!radio,
     BP!GetServices, BP!May, BP!Answer, BP!Listing, BP!Size, BP!AskPlace, BP!Unmoved, BP!radio
<1>10. B!PostServices(c) => BP!PostServices(c)
  BY DEF B!PostServices, B!May, B!NoSensor, B!Answer, B!Listing, B!AskPlace, B!Unmoved, B!radio,
     BP!PostServices, BP!May, BP!NoSensor, BP!Answer, BP!Listing, BP!AskPlace, BP!Unmoved, BP!radio
<1>11. B!TakeServices(c) => BP!TakeServices(c)
  BY DEF B!TakeServices, B!Size, B!Answer, B!Listing, B!Uuids, B!Goto, B!Unmoved, B!radio,
     BP!TakeServices, BP!Size, BP!Answer, BP!Listing, BP!Uuids, BP!Goto, BP!Unmoved, BP!radio
<1> QED
  BY <1>1, <1>2, <1>3, <1>4, <1>5, <1>6, <1>7, <1>8, <1>9, <1>10, <1>11 DEF B!Request, BP!Request

\* So the same steps.
LEMMA SameNext == B!Next => BP!Next
<1>1. B!Create => BP!Create
  BY DEF B!Create, B!Start, B!Unreported, B!Started, B!Finished, BP!Create, BP!Start,
     BP!Unreported, BP!Started, BP!Finished
<1>2. B!TimerFires => BP!TimerFires
  BY DEF B!TimerFires, B!Start, B!Unreported, B!Started, BP!TimerFires, BP!Start, BP!Unreported,
     BP!Started
<1> QED
  BY <1>1, <1>2, SameAndroid, SameReceive, SameRequest DEF B!Next, BP!Next

\* A run of the agent is a run of its UPnP half.
THEOREM AgentRunsUPnP == AgentSpec => Spec
<1>1. AgentInit => Init
  BY DEF AgentInit
<1>2. [AgentNext]_<<upnpVars, btVars>> => [Next]_vars
  BY DEF AgentNext, UpnpStep, BluetoothStep, upnpVars
<1> QED BY <1>1, <1>2, PTL DEF AgentSpec, Spec

\* And of its Bluetooth half.
THEOREM AgentRunsBluetooth == AgentSpec => BP!Spec
<1>1. AgentInit => BP!Init
  BY DEF AgentInit, B!Init, BP!Init, B!Unreported, BP!Unreported, B!Idle, BP!Idle
<1>2. [AgentNext]_<<upnpVars, btVars>> => [BP!Next]_BP!vars
  BY SameNext DEF AgentNext, UpnpStep, BluetoothStep, btVars, BP!vars
<1> QED BY <1>1, <1>2, PTL DEF AgentSpec, BP!Spec

\* So the vector and the requests of the UPnP half are right whatever Bluetooth does.
THEOREM AgentVectorIsRegistry ==
  AgentSpec => [](TypeOK /\ ListExact) /\ IndexNamesDevice /\ ErrorsExplained
BY AgentRunsUPnP, TypesAlways, VectorIsRegistry, PlacesKeepTheirDevice, FailuresExplained, PTL

\* A Bluetooth device stands in the agent's vector once, and before onCreate nothing does
\* (BluetoothService.java 79-81, 152).
THEOREM AgentBluetoothTypes == AgentSpec => []BluetoothTypes
<1>1. BP!TypeOK => BluetoothTypes
  BY DEF BluetoothTypes, B!TypeOK, B!Mail, B!Started, B!Finished, B!On, B!Off, B!Found, BP!TypeOK,
     BP!Mail, BP!Started, BP!Finished, BP!On, BP!Off, BP!Found
<1> QED BY <1>1, AgentRunsBluetooth, BP!VectorWithoutRepeats, PTL

\* However often Bluetooth is switched and others scan while UPnP devices come and go, the
\* rounds of scans do not multiply (123, 126).
THEOREM AgentChainsBounded == AgentSpec => []ChainsBounded
<1>1. ASSUME NEW S PROVE B!Cardinality(S) = BP!Cardinality(S)
  BY DEF B!Cardinality, BP!Cardinality
<1>2. ASSUME NEW what PROVE B!Pending(what) = BP!Pending(what)
  BY <1>1 DEF B!Pending, BP!Pending
<1>3. B!Finished = BP!Finished /\ B!On = BP!On
  BY DEF B!Finished, B!On, BP!Finished, BP!On
<1>4. B!Chains = BP!Chains
  BY <1>2, <1>3 DEF B!Chains, BP!Chains
<1>5. BP!ChainsBounded => ChainsBounded
  BY <1>4 DEF ChainsBounded, B!ChainsBounded, BP!ChainsBounded
<1> QED BY <1>5, AgentRunsBluetooth, BP!OneChainEach, PTL

\* A place of a Bluetooth listing keeps its device and failures are explained, in the agent.
THEOREM AgentAnswersExplained == AgentSpec => AnswersExplained
<1>1. BP!Sensible
  BY BluetoothAssumption DEF BP!Sensible
<1>2. BP!AnswersExplained => AnswersExplained
  BY DEF AnswersExplained, B!AnswersExplained, B!Explained, B!NoSensor, B!Size, B!Fails, B!Uuids,
     B!vars, BP!AnswersExplained, BP!Explained, BP!NoSensor, BP!Size, BP!Fails, BP!Uuids, BP!vars
<1> QED BY <1>1, <1>2, AgentRunsBluetooth, BP!AnswersAreExplained, PTL
=============================================================================
