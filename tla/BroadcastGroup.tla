--------------------------- MODULE BroadcastGroup ---------------------------
(***************************************************************************)
(* What a named websocket promises of its broadcasts, whatever lists,      *)
(* loops and goroutines it is made of: messages are put in one order, and  *)
(* a member is handed those that are for it and were ordered since it      *)
(* joined, one after the other, each before any later one is handed to     *)
(* anybody.                                                                *)
(***************************************************************************)
EXTENDS Integers, Filters

CONSTANTS Receivers,     \* who may join
          Messages,
          Wanted         \* Wanted[r]: the messages that are for r

VARIABLES members,  \* receivers that joined and did not leave
          queue,    \* messages offered and not yet ordered
          log,      \* the order
          start,    \* start[r]: how much of log r joined too late for
          got,      \* got[r]: what r has been handed
          sound     \* nothing has disturbed the group

vars == <<members, queue, log, start, got, sound>>

Init ==
  /\ sound \in BOOLEAN
  /\ members = {}
  /\ queue = << >> /\ log = << >>
  /\ start = [r \in Receivers |-> 0]
  /\ got = [r \in Receivers |-> << >>]

Owed(r) == Filter(SubSeq(log, start[r] + 1, Len(log)), Wanted[r])
Served(r) == Len(got[r]) = Len(Owed(r))

\* Who joins while a message is being handed out may or may not be given it.
Join(r) ==
  /\ r \notin members
  /\ members' = members \cup {r}
  /\ \E n \in {Len(log) - 1, Len(log)} \cap Nat : start' = [start EXCEPT ![r] = n]
  /\ UNCHANGED <<queue, log, got>>

Leave(r) ==
  /\ r \in members
  /\ members' = members \ {r}
  /\ UNCHANGED <<queue, log, start, got>>

Offer(m) ==
  /\ queue' = Append(queue, m)
  /\ UNCHANGED <<members, log, start, got>>

\* The oldest offer is next, when every member has what came before.
Order ==
  /\ queue # << >>
  /\ \A r \in members : Served(r)
  /\ log' = Append(log, Head(queue))
  /\ queue' = Tail(queue)
  /\ UNCHANGED <<members, start, got>>

Hand(r) ==
  /\ r \in members
  /\ ~Served(r)
  /\ got' = [got EXCEPT ![r] = Append(@, Owed(r)[Len(@) + 1])]
  /\ UNCHANGED <<members, queue, log, start>>

Step == \/ \E r \in Receivers : Join(r) \/ Leave(r) \/ Hand(r)
        \/ \E m \in Messages : Offer(m)
        \/ Order

\* A step may disturb the group, which promises nothing from then on.
Next == \/ Step /\ UNCHANGED sound
        \/ ~sound'

Spec == Init /\ [][Next]_vars
=============================================================================
