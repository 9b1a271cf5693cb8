-------------------------------- MODULE Mdns ---------------------------------
(***************************************************************************)
(* The fork of the mdns library: the servers that answer for the services  *)
(* of a network (server.go, zone.go) and one query of a client (client.go).*)
(* A packet is an element of a set: it arrives late or never.  A client    *)
(* and a server have one socket for IPv4 and one for IPv6, as far as they  *)
(* can be bound, and a goroutine for each; a question goes out on every    *)
(* socket and is answered on the one it came in by.                        *)
(***************************************************************************)
EXTENDS Integers, FiniteSets, SequencesExt

CONSTANTS Services,   \* instance names, each with a server of its own
          Hosts,      \* host names
          HostOf,     \* the host of each service, which also stands for its address
          Families,   \* "v4" and "v6"
          Capacity,   \* slots of msgCh (32 in the code)
          Room,       \* slots of the channel of entries (255 in discovery.go)
          Type,       \* the name all services are found under
          Null        \* Go's nil

ASSUME NamesAssumption ==
  /\ Services \cap Hosts = {} /\ {Type, Null} \cap (Services \cup Hosts) = {} /\ Type # Null
  /\ HostOf \in [Services -> Hosts]
  /\ IsFiniteSet(Services) /\ IsFiniteSet(Families)
ASSUME BoundsAssumption == {Capacity, Room} \subseteq Nat \ {0}

VARIABLES server,     \* the goroutines of each server, whether it was shut down, its address
          asked,      \* questions on their way: service, family, name
          replies,    \* answers on their way: service, family, records
          phase,      \* the query: "idle", "open", "closed" or, after a panic, "crashed"
          recv,       \* the client's goroutine of each family: what it holds, where it is
          msgCh,      \* messages the goroutines have handed to the query
          table,      \* inprogress: which entry a name stands for
          entries,    \* the entries made
          offered,    \* params.Entries: entries put there and not taken yet
          queries,    \* questions the client has sent
          heard       \* history: services whose own records the query has handled

vars == <<server, asked, replies, phase, recv, msgCh, table, entries, offered, queries, heard>>
lookup == <<table, entries, offered, queries, heard>>

\* Resource records.  A port and a text are those of the service, whose name stands for them.
Record(type, name, data) == [type |-> type, name |-> name, data |-> data]
Gone == [loops |-> {}, down |-> FALSE, addr |-> Null]
Blank(name) == [name |-> name, host |-> Null, port |-> Null, info |-> Null, addr |-> Null,
                sent |-> FALSE]

Init ==
  /\ server = [s \in Services |-> Gone]
  /\ asked = {} /\ replies = {}
  /\ phase = "idle" /\ recv = [f \in Families |-> [pc |-> "off", msg |-> <<>>]]
  /\ msgCh = <<>> /\ table = <<>> /\ entries = <<>> /\ offered = <<>>
  /\ queries = 0 /\ heard = {}

-----------------------------------------------------------------------------
\* The zone of a service.  Nothing sets its IPv6 address: there is never an AAAA record.
ARecords(s) ==
  IF server[s].addr = Null THEN <<>> ELSE <<Record("A", HostOf[s], server[s].addr)>>

\* Mutant: a question for any record of the instance is answered.
InstanceRecordsAll(s, type) ==
  <<Record("SRV", s, HostOf[s])>> \o ARecords(s) \o <<Record("TXT", s, s)>>

InstanceRecords(s, type) ==
  CASE type = "A" -> ARecords(s)
    [] type = "SRV" -> <<Record("SRV", s, HostOf[s])>> \o ARecords(s)
    [] type = "TXT" -> <<Record("TXT", s, s)>>
    [] type = "ANY" -> <<Record("SRV", s, HostOf[s])>> \o ARecords(s) \o <<Record("TXT", s, s)>>
    [] OTHER -> <<>>

ServiceRecords(s, type) ==
  IF type \in {"ANY", "PTR"} THEN <<Record("PTR", Type, s)>> \o InstanceRecords(s, "ANY") ELSE <<>>

Records(s, name, type) ==
  CASE name = Type -> ServiceRecords(s, type)
    [] name = s -> InstanceRecords(s, type)
    [] OTHER -> <<>>

-----------------------------------------------------------------------------
\* Init of the service notes the host's address, if an interface has one on a /16 or a /24.
Addresses(s) == {HostOf[s], Null}

\* NewServer needs one of the two sockets.
NewServer(s) ==
  /\ server[s] = Gone
  /\ \E fs \in SUBSET Families \ {{}}, addr \in Addresses(s) :
       server' = [server EXCEPT ![s] = [loops |-> fs, down |-> FALSE, addr |-> addr]]
  /\ UNCHANGED <<asked, replies, phase, recv, msgCh, lookup>>

\* The sockets are closed: a read fails, and the loop sees shutdown.
Shutdown(s) ==
  /\ server[s].loops # {} /\ ~server[s].down
  /\ server' = [server EXCEPT ![s].down = TRUE]
  /\ UNCHANGED <<asked, replies, phase, recv, msgCh, lookup>>

RecvEnds(s, f) ==
  /\ server[s].down /\ f \in server[s].loops
  /\ server' = [server EXCEPT ![s].loops = @ \ {f}]
  /\ UNCHANGED <<asked, replies, phase, recv, msgCh, lookup>>

\* A question is answered if the zone has records for it.  All the client's ask for PTR.
HandleQuery(s, f) ==
  /\ ~server[s].down /\ f \in server[s].loops
  /\ \E q \in asked :
       /\ q.to = s /\ q.family = f
       /\ asked' = asked \ {q}
       /\ LET answer == Records(s, q.name, "PTR") IN
          \/ answer = <<>> /\ UNCHANGED replies
          \/ answer # <<>> /\ replies' = replies \cup {[from |-> s, family |-> f, answer |-> answer]}
  /\ UNCHANGED <<server, phase, recv, msgCh, lookup>>

-----------------------------------------------------------------------------
\* The client.  A question reaches the servers that listen when it is sent.
SendQuery(name, families) ==
  /\ queries' = queries + 1
  /\ asked' = asked \cup { q \in [to : Services, family : families, name : {name}] :
                             ~server[q.to].down /\ q.family \in server[q.to].loops }

Listening == { f \in Families : recv[f].pc # "off" }

\* newClient binds what it can, and query starts a goroutine for each socket.
Query ==
  /\ phase = "idle" /\ phase' = "open"
  /\ \E fs \in SUBSET Families \ {{}} :
       /\ recv' = [f \in Families |-> [recv[f] EXCEPT !.pc = IF f \in fs THEN "read" ELSE @]]
       /\ SendQuery(Type, fs)
  /\ UNCHANGED <<server, replies, msgCh, table, entries, offered, heard>>

Read(f) ==
  /\ recv[f].pc = "read" /\ phase = "open"
  /\ \E r \in replies :
       /\ r.family = f
       /\ replies' = replies \ {r}
       /\ recv' = [recv EXCEPT ![f] = [pc |-> "put", msg |-> r.answer]]
  /\ UNCHANGED <<server, asked, phase, msgCh, lookup>>

Put(f) ==
  /\ recv[f].pc = "put" /\ phase # "crashed" /\ Len(msgCh) < Capacity
  /\ msgCh' = Append(msgCh, recv[f].msg)
  /\ recv' = [recv EXCEPT ![f] = [pc |-> "read", msg |-> <<>>]]
  /\ UNCHANGED <<server, asked, replies, phase, lookup>>

\* Mutant: the goroutine waits for a slot alone.
StopReading(f) ==
  /\ recv[f].pc = "read" /\ phase = "closed"
  /\ recv' = [recv EXCEPT ![f].pc = "ended"]
  /\ UNCHANGED <<server, asked, replies, phase, msgCh, lookup>>

\* After Close the read fails and the loop sees closed; a goroutine that waits for a slot is
\* woken by closedCh.
Stop(f) ==
  /\ recv[f].pc \in {"read", "put"} /\ phase = "closed"
  /\ recv' = [recv EXCEPT ![f] = [pc |-> "ended", msg |-> <<>>]]
  /\ UNCHANGED <<server, asked, replies, phase, msgCh, lookup>>

\* The table while the records of a message are handled: t.inp is the entry of the last one.
Bound(f, name, k) == [n \in DOMAIN f \cup {name} |-> IF n = name THEN k ELSE f[n]]

EnsureName(t, name) ==
  IF name \in DOMAIN t.table THEN [t EXCEPT !.inp = t.table[name]]
  ELSE LET k == Len(t.entries) + 1 IN
       [table |-> Bound(t.table, name, k), entries |-> Append(t.entries, Blank(name)), inp |-> k]

\* Mutant: a target that stands for an entry goes on doing so.
AliasOnce(t, src, dst) ==
  LET u == EnsureName(t, src) IN
  IF dst \in DOMAIN u.table THEN u ELSE [u EXCEPT !.table = Bound(u.table, dst, u.inp)]

Alias(t, src, dst) ==
  LET u == EnsureName(t, src) IN [u EXCEPT !.table = Bound(u.table, dst, u.inp)]

Fill(t, e) == [t EXCEPT !.entries = [t.entries EXCEPT ![t.inp] = e]]
Found(t)   == t.entries[t.inp]

Handled(t, rr) ==
  LET u == IF rr.type = "SRV" THEN EnsureName(Alias(t, rr.name, rr.data), rr.name)
           ELSE EnsureName(t, rr.name)
  IN CASE rr.type = "PTR" -> EnsureName(t, rr.data)
       [] rr.type = "SRV" -> Fill(u, [Found(u) EXCEPT !.host = rr.data, !.port = rr.name])
       [] rr.type = "TXT" -> Fill(u, [Found(u) EXCEPT !.info = rr.data])
       [] rr.type = "A"   -> Fill(u, [Found(u) EXCEPT !.addr = rr.data])

\* What a message's records make of it, one after the other.
After(t, msg) ==
  LET at[n \in 0..Len(msg)] == IF n = 0 THEN t ELSE Handled(at[n - 1], msg[n])
  IN at[Len(msg)]

Complete(e) == e.addr # Null /\ e.port # Null /\ e.info # Null

\* Mutant: sent is not set.
Unmarked(t) == t.entries
Marked(t) == [t.entries EXCEPT ![t.inp].sent = TRUE]

\* The loop of query: the records are handled in turn, an entry that becomes complete is
\* offered, which is given up when there is no room, and otherwise its name is asked for.
\* A message without a record of a known type leaves inp nil.
HandleMessage ==
  /\ phase = "open" /\ msgCh # <<>> /\ msgCh' = Tail(msgCh)
  /\ LET t == After([table |-> table, entries |-> entries, inp |-> 0], Head(msgCh))
         e == t.entries[t.inp]
     IN /\ table' = t.table
        /\ heard' = heard \cup { rr.data : rr \in {r \in ToSet(Head(msgCh)) : r.type = "PTR"} }
        /\ \/ /\ t.inp = 0
              /\ phase' = "crashed" /\ entries' = t.entries
              /\ UNCHANGED <<asked, offered, queries>>
           \/ /\ t.inp # 0 /\ Complete(e) /\ ~e.sent
              /\ entries' = Marked(t)
              /\ offered' = IF Len(offered) < Room THEN Append(offered, t.inp) ELSE offered
              /\ UNCHANGED <<asked, phase, queries>>
           \/ /\ t.inp # 0 /\ (~Complete(e) \/ e.sent)
              /\ entries' = t.entries
              /\ SendQuery(e.name, Listening)
              /\ UNCHANGED <<phase, offered>>
  /\ UNCHANGED <<server, replies, recv>>

\* The caller's goroutine takes an entry (discovery.go).
TakeEntry ==
  /\ phase # "crashed" /\ offered # <<>> /\ offered' = Tail(offered)
  /\ UNCHANGED <<server, asked, replies, phase, recv, msgCh, table, entries, queries, heard>>

\* The time is over: query returns and Close runs.
Finish ==
  /\ phase = "open" /\ phase' = "closed"
  /\ UNCHANGED <<server, asked, replies, recv, msgCh, lookup>>

-----------------------------------------------------------------------------
Next ==
  \/ \E s \in Services : NewServer(s) \/ Shutdown(s)
  \/ \E s \in Services, f \in Families : RecvEnds(s, f) \/ HandleQuery(s, f)
  \/ Query \/ HandleMessage \/ TakeEntry \/ Finish
  \/ \E f \in Families : Read(f) \/ Put(f) \/ Stop(f)

Spec == Init /\ [][Next]_vars

\* The goroutines that read run on; nothing is asked of the network or of the timer.
FairSpec == /\ Spec
            /\ \A f \in Families : WF_vars(Stop(f))
            /\ \A s \in Services, f \in Families : WF_vars(RecvEnds(s, f))

-----------------------------------------------------------------------------
TypeOK ==
  /\ \A s \in Services : server[s].loops \subseteq Families /\ server[s].down \in BOOLEAN
  /\ phase \in {"idle", "open", "closed", "crashed"}
  /\ \A f \in Families : /\ recv[f].pc \in {"off", "read", "put", "ended"}
                         /\ (recv[f].pc = "put") <=> (recv[f].msg # <<>>)
  /\ Len(msgCh) <= Capacity /\ Len(offered) <= Room
  /\ \A name \in DOMAIN table : table[name] \in DOMAIN entries
  /\ \A k \in DOMAIN offered : entries[offered[k]].sent

\* Safety: the entries that were offered are exactly the services that answered and have an
\* address, each under an entry of its own, with its own host, port, text and address:
\* services of one host share the name that its A record bears (zone.go:199, client.go:299), and an entry that
\* was given out is the one the query goes on writing to.  The query never meets a message that leaves it
\* without an entry (client.go:223): a server sends no empty answer (server.go:144).
Sent == { k \in DOMAIN entries : entries[k].sent }
EntriesExact ==
  /\ phase # "crashed"
  /\ { entries[k].name : k \in Sent } = { s \in heard : server[s].addr # Null }
  /\ \A k \in Sent : LET s == entries[k].name IN
       entries[k] = [name |-> s, host |-> HostOf[s], port |-> s, info |-> s, addr |-> HostOf[s],
                     sent |-> TRUE]
  /\ \A k, j \in Sent : entries[k].name = entries[j].name => k = j

\* Safety: the questions for an entry that is incomplete or was offered before (client.go:230)
\* set off no more answers: each server answers the first question, once on each socket.
NoStorm == queries + Cardinality(Sent) <= 1 + Cardinality(Services) * Cardinality(Families)

\* Liveness: after Close, or Shutdown, every goroutine that read from a socket ends, also one
\* that waits for room in msgCh when the query is over.
GoroutinesEnd ==
  /\ phase = "closed" ~> \A f \in Families : recv[f].pc \in {"off", "ended"}
  /\ \A s \in Services : server[s].down ~> server[s].loops = {}
=============================================================================
