-------------------------- MODULE P2PSocketsProofs --------------------------
(***************************************************************************)
(* The client namedwebsockets.js, for every set of peers and every number  *)
(* of frames: a shim that closes does not open again, the open one is the  *)
(* one routed to, list and map agree, messages keep their order and the    *)
(* application hears of every peer that comes and goes.  Firing a timer    *)
(* moves those behind it: the invariants speak of timers by their places.  *)
(***************************************************************************)
EXTENDS P2PSockets, SequenceFacts

Kinds == {"open", "message", "closing", "close"}
ShimRecord == [id : Ids, readyState : 0..3, got : Seq(Nat), told : {0, 1}]
TimerRecord(n) ==
  { t \in [delay : {1, 200}, shim : 1..n, type : Kinds, n : Nat, at : {"none", "root", "control"}] :
      /\ t.delay = 200 => t.type = "open"
      /\ t.at = "root" => t.type \in {"closing", "close"} }

Types ==
  /\ shims \in Seq(ShimRecord) /\ timers \in Seq(TimerRecord(Len(shims)))
  /\ p2p \in [Ids -> 0..Len(shims)] /\ messages \in Seq(ToSet(messages))

\* Of a shim at most one "open" is under way; until it happens the shim is connecting and no
\* close of it is under way, unless a "disconnect" came early.
Opening(k) == timers[k].type = "open"
Ends(k) == timers[k].type \in {"closing", "close"}
OpenOnce == \A j, k \in DOMAIN timers : Opening(j) /\ Opening(k) /\ timers[j].shim = timers[k].shim => j = k
OpenFirst ==
  \A k \in DOMAIN timers : Opening(k) =>
    \/ timers[k].shim \in early
    \/ /\ shims[timers[k].shim].readyState = CONNECTING
       /\ \A j \in DOMAIN timers : Ends(j) => timers[j].shim # timers[k].shim

IInv == Types /\ OpenOnce /\ OpenFirst

\* The initial state: no shim, no timer.
LEMMA InitIInv == Init => IInv
<1> SUFFICES ASSUME Init PROVE IInv
  OBVIOUS
<1>1. shims = <<>> /\ timers = <<>> /\ messages = <<>> /\ p2p = [i \in Ids |-> 0]
  BY DEF Init
<1>2. Types
  BY <1>1 DEF Types, ToSet
<1>3. DOMAIN timers = {}
  BY <1>1
<1> QED BY <1>2, <1>3 DEF IInv, OpenOnce, OpenFirst

\* A timer set for a shim that is there: types, and the places of the timers before it.
LEMMA SetTimer ==
  ASSUME NEW n \in Nat, NEW q \in Seq(TimerRecord(n)), NEW t \in TimerRecord(n)
  PROVE  /\ Append(q, t) \in Seq(TimerRecord(n))
         /\ DOMAIN Append(q, t) = 1..(Len(q) + 1) /\ DOMAIN q = 1..Len(q) /\ Len(q) \in Nat
         /\ \A j \in DOMAIN q : Append(q, t)[j] = q[j]
         /\ Append(q, t)[Len(q) + 1] = t
BY AppendProperties, LenProperties

\* The history of messages holds what it holds.
LEMMA AppendIsSeq ==
  ASSUME NEW q, q \in Seq(ToSet(q)), NEW e
  PROVE  Append(q, e) \in Seq(ToSet(Append(q, e))) /\ Len(q) \in Nat
<1> DEFINE S == ToSet(q) \cup {e}
           r == Append(q, e)
<1>1. q \in Seq(S) /\ e \in S
  OBVIOUS
<1>2. r \in Seq(S) /\ Len(q) \in Nat
  BY <1>1, AppendProperties, LenProperties
<1> HIDE DEF r
<1>3. DOMAIN r = 1..Len(r) /\ Len(r) \in Nat /\ \A k \in 1..Len(r) : r[k] \in ToSet(r)
  BY <1>2, LenProperties DEF ToSet
<1>4. r \in [1..Len(r) -> ToSet(r)]
  BY <1>2, <1>3, LenProperties
<1> QED BY <1>2, <1>3, <1>4, SeqDef DEF r

\* More shims make no timer wrong.
LEMMA MoreShims ==
  ASSUME NEW n \in Nat, NEW q \in Seq(TimerRecord(n))
  PROVE  q \in Seq(TimerRecord(n + 1))
<1>1. TimerRecord(n) \subseteq TimerRecord(n + 1)
  BY DEF TimerRecord
<1> QED BY <1>1

\* case "connect": the timer it may set is the only one of the new shim.
LEMMA ConnectKeeps == ASSUME IInv, NEW i \in Ids, ReceiveConnect(i) PROVE IInv'
<1> DEFINE s == Len(shims) + 1
           h == [id |-> i, readyState |-> CONNECTING, got |-> <<>>,
                 told |-> IF Exist(i) THEN 0 ELSE 1]
           t == Timer(200, s, "open", 0, "none")
<1>1. Len(shims) \in Nat /\ s \in Nat
  BY LenProperties DEF IInv, Types
<1>2. h \in ShimRecord
  BY DEF ShimRecord, CONNECTING
<1>3. shims' = Append(shims, h) /\ p2p' = [p2p EXCEPT ![i] = s] /\ messages' = messages /\ early' = early
  BY DEF ReceiveConnect
<1> HIDE DEF h
<1>4. /\ shims' \in Seq(ShimRecord) /\ Len(shims') = s
      /\ \A k \in 1..Len(shims) : shims'[k] = shims[k] 
      /\ shims'[s] = h
  BY <1>1, <1>2, <1>3, AppendProperties DEF IInv, Types
<1>5. timers \in Seq(TimerRecord(s)) /\ \A k \in DOMAIN timers : timers[k].shim \in 1..Len(shims)
  <2>1. timers \in Seq(TimerRecord(Len(shims)))
    BY DEF IInv, Types
  <2>2. \A k \in DOMAIN timers : timers[k] \in TimerRecord(Len(shims))
    BY <2>1
  <2> QED BY <1>1, <2>1, <2>2, MoreShims DEF TimerRecord
<1>6. p2p' \in [Ids -> 0..s]
  BY <1>1, <1>3 DEF IInv, Types
<1>7. CASE UNCHANGED timers
  <2>1. Types'
    BY <1>3, <1>4, <1>5, <1>6, <1>7 DEF Types, IInv
  <2>2. OpenOnce'
    BY <1>7 DEF IInv, OpenOnce, Opening
  <2>3. OpenFirst'
    BY <1>3, <1>4, <1>5, <1>7 DEF IInv, OpenFirst, Opening, Ends
  <2> QED BY <2>1, <2>2, <2>3 DEF IInv
<1>8. CASE timers' = Append(timers, t)
  <2>1. t \in TimerRecord(s) /\ t.type = "open" /\ t.shim = s
    BY <1>1 DEF TimerRecord, Timer, Kinds
  <2> HIDE DEF t
  <2>2. /\ timers' \in Seq(TimerRecord(s))
        /\ DOMAIN timers' = 1..(Len(timers) + 1) /\ DOMAIN timers = 1..Len(timers) /\ Len(timers) \in Nat
        /\ \A j \in DOMAIN timers : timers'[j] = timers[j]
        /\ timers'[Len(timers) + 1] = t
    BY <1>1, <1>5, <1>8, <2>1, SetTimer
  <2>3. Types'
    BY <1>3, <1>4, <1>6, <2>2 DEF Types, IInv
  <2>4. \A j \in DOMAIN timers' : j \in DOMAIN timers \/ j = Len(timers) + 1
    BY <2>2
  <2>5. OpenOnce'
    BY <1>1, <1>5, <2>1, <2>2, <2>4 DEF IInv, OpenOnce, Opening
  <2>6. shims'[s].readyState = CONNECTING
    BY <1>4 DEF h
  <2>7. ASSUME NEW k \in DOMAIN timers', Opening(k)'
        PROVE  \/ timers'[k].shim \in early'
               \/ /\ shims'[timers'[k].shim].readyState = CONNECTING
                  /\ \A j \in DOMAIN timers' : Ends(j)' => timers'[j].shim # timers'[k].shim
    <3>1. \A j \in DOMAIN timers' : Ends(j)' => j \in DOMAIN timers /\ Ends(j) /\ timers'[j] = timers[j]
      BY <2>1, <2>2, <2>4 DEF Ends
    <3>2. CASE k \in DOMAIN timers
      <4>1. Opening(k) /\ timers'[k] = timers[k]
        BY <2>2, <2>7, <3>2 DEF Opening
      <4>2. shims'[timers[k].shim] = shims[timers[k].shim]
        BY <1>4, <1>5, <3>2
      <4> QED BY <1>3, <3>1, <3>2, <4>1, <4>2 DEF IInv, OpenFirst
    <3>3. CASE k = Len(timers) + 1
      <4>1. \A j \in DOMAIN timers : timers[j].shim # s
        BY <1>1, <1>5
      <4> QED BY <2>1, <2>2, <2>6, <3>1, <3>3, <4>1
    <3> QED BY <2>4, <3>2, <3>3
  <2>8. OpenFirst'
    BY <2>7 DEF OpenFirst
  <2> QED BY <2>3, <2>5, <2>8 DEF IInv
<1> QED BY <1>7, <1>8 DEF ReceiveConnect

\* One more timer, which opens nothing, and closes only a shim that has opened or closed early.
LEMMA AddTimer ==
  ASSUME IInv, NEW t \in TimerRecord(Len(shims)), t.type # "open",
         timers' = Append(timers, t), shims' = shims, early \subseteq early',
         p2p' \in [Ids -> 0..Len(shims)], messages' \in Seq(ToSet(messages')),
         t.type \in {"closing", "close"} =>
           \A k \in DOMAIN timers : Opening(k) /\ timers[k].shim = t.shim => t.shim \in early'
  PROVE  IInv'
<1>1. Len(shims) \in Nat /\ timers \in Seq(TimerRecord(Len(shims)))
  BY LenProperties DEF IInv, Types
<1>2. /\ timers' \in Seq(TimerRecord(Len(shims)))
      /\ DOMAIN timers' = 1..(Len(timers) + 1) /\ DOMAIN timers = 1..Len(timers) /\ Len(timers) \in Nat
      /\ \A j \in DOMAIN timers : timers'[j] = timers[j]
      /\ timers'[Len(timers) + 1] = t
  BY <1>1, SetTimer
<1>3. Types'
  BY <1>2 DEF IInv, Types
<1>4. \A k \in DOMAIN timers' : Opening(k)' => k \in DOMAIN timers /\ Opening(k) /\ timers'[k] = timers[k]
  BY <1>2 DEF Opening
<1>5. OpenOnce'
  BY <1>4 DEF IInv, OpenOnce
<1>6. ASSUME NEW k \in DOMAIN timers', Opening(k)', timers'[k].shim \notin early'
      PROVE  /\ shims'[timers'[k].shim].readyState = CONNECTING
             /\ \A j \in DOMAIN timers' : Ends(j)' => timers'[j].shim # timers'[k].shim
  <2>1. k \in DOMAIN timers /\ Opening(k) /\ timers'[k] = timers[k] /\ timers[k].shim \notin early
    BY <1>4, <1>6
  <2>2. /\ shims[timers[k].shim].readyState = CONNECTING
        /\ \A j \in DOMAIN timers : Ends(j) => timers[j].shim # timers[k].shim
    BY <2>1 DEF IInv, OpenFirst
  <2>3. ASSUME NEW j \in DOMAIN timers', Ends(j)' PROVE timers'[j].shim # timers'[k].shim
    <3>1. CASE j \in DOMAIN timers
      BY <1>2, <2>1, <2>2, <2>3, <3>1 DEF Ends
    <3>2. CASE j = Len(timers) + 1
      BY <1>2, <1>6, <2>1, <2>3, <3>2 DEF Ends
    <3> QED BY <1>2, <3>1, <3>2
  <2> QED BY <2>1, <2>2, <2>3
<1>7. OpenFirst'
  BY <1>6 DEF OpenFirst
<1> QED BY <1>3, <1>5, <1>7 DEF IInv

\* case "disconnect": a shim that is still connecting is closed early.
LEMMA DisconnectKeeps == ASSUME IInv, NEW i \in Ids, ReceiveDisconnect(i) PROVE IInv'
<1> DEFINE t == Timer(1, p2p[i], "closing", 0, "root")
<1>1. /\ p2p[i] # 0 /\ timers' = Append(timers, t) /\ shims' = shims /\ messages' = messages
      /\ p2p' = [p2p EXCEPT ![i] = 0]
      /\ early' = early \cup {s \in {p2p[i]} : shims[s].readyState = CONNECTING}
  BY DEF ReceiveDisconnect, DoClose, HandleEvent
<1>2. Len(shims) \in Nat /\ p2p[i] \in 1..Len(shims)
  BY <1>1, LenProperties DEF IInv, Types
<1>3. t \in TimerRecord(Len(shims)) /\ t.type = "closing" /\ t.shim = p2p[i]
  BY <1>2 DEF TimerRecord, Timer, Kinds
<1>4. \A k \in DOMAIN timers : Opening(k) /\ timers[k].shim = p2p[i] => p2p[i] \in early'
  BY <1>1 DEF IInv, OpenFirst
<1>5. p2p' \in [Ids -> 0..Len(shims)] /\ messages' \in Seq(ToSet(messages'))
  BY <1>1, <1>2 DEF IInv, Types
<1> HIDE DEF t
<1> QED BY <1>1, <1>3, <1>4, <1>5, AddTimer

\* case "message" sets a timer that opens and ends nothing.
LEMMA MessageKeeps == ASSUME IInv, NEW i \in Ids, ReceiveMessage(i) PROVE IInv'
<1> DEFINE t == Timer(1, p2p[i], "message", Len(messages) + 1, "none")
           m == [from |-> i, held |-> {s \in ToSet(peers) : shims[s].id = i}]
<1>1. messages' = Append(messages, m) /\ shims' = shims /\ p2p' = p2p /\ early' = early
  BY DEF ReceiveMessage
<1> HIDE DEF m
<1>3. /\ messages' \in Seq(ToSet(messages')) /\ p2p' \in [Ids -> 0..Len(shims)]
      /\ Len(messages) \in Nat /\ Len(shims) \in Nat
  BY <1>1, AppendIsSeq, LenProperties DEF IInv, Types
<1>4. CASE p2p[i] # 0 /\ timers' = Append(timers, t)
  <2>1. t \in TimerRecord(Len(shims)) /\ t.type = "message"
    BY <1>3, <1>4 DEF TimerRecord, Timer, Kinds, IInv, Types
  <2> HIDE DEF t
  <2> QED BY <1>1, <1>3, <1>4, <2>1, AddTimer
<1>5. CASE UNCHANGED timers
  BY <1>1, <1>3, <1>5 DEF IInv, Types, OpenOnce, OpenFirst, Opening, Ends
<1> QED BY <1>4, <1>5 DEF ReceiveMessage, HandleEvent

\* close(): the shim is open, so no timer is left that opens it.
LEMMA CloseKeeps == ASSUME IInv, NEW s \in Shims, Close(s) PROVE IInv'
<1> DEFINE t == Timer(1, s, "closing", 0, "control")
<1>1. /\ timers' = Append(timers, t) /\ UNCHANGED <<shims, p2p, messages, early>>
      /\ shims[s].readyState = OPEN
  BY DEF Close, DoClose, HandleEvent
<1>2. Len(shims) \in Nat /\ s \in 1..Len(shims)
  BY LenProperties DEF IInv, Types, Shims
<1>3. t \in TimerRecord(Len(shims)) /\ t.type = "closing" /\ t.shim = s
  BY <1>2 DEF TimerRecord, Timer, Kinds
<1>4. \A k \in DOMAIN timers : Opening(k) /\ timers[k].shim = s => s \in early'
  BY <1>1 DEF IInv, OpenFirst, OPEN, CONNECTING
<1> HIDE DEF t
<1> QED BY <1>1, <1>3, <1>4, AddTimer DEF IInv, Types

\* Timers that are those of before at other places, with their shims and what they do to them.
LEMMA Rearranged ==
  ASSUME IInv, timers' \in Seq(TimerRecord(Len(shims))), early' = early,
         NEW from \in [DOMAIN timers' -> DOMAIN timers],
         \A j, k \in DOMAIN timers' : from[j] = from[k] => j = k,
         \A j \in DOMAIN timers' : /\ timers'[j].shim = timers[from[j]].shim
                                   /\ Opening(j)' <=> Opening(from[j])
                                   /\ Ends(j)' <=> Ends(from[j]),
         \A j \in DOMAIN timers' : Opening(j)' /\ timers'[j].shim \notin early
           => shims'[timers'[j].shim].readyState = shims[timers'[j].shim].readyState
  PROVE  OpenOnce' /\ OpenFirst'
<1>1. OpenOnce'
  BY DEF IInv, OpenOnce
<1>2. ASSUME NEW k \in DOMAIN timers', Opening(k)', timers'[k].shim \notin early'
      PROVE  /\ shims'[timers'[k].shim].readyState = CONNECTING
             /\ \A j \in DOMAIN timers' : Ends(j)' => timers'[j].shim # timers'[k].shim
  <2>1. from[k] \in DOMAIN timers /\ Opening(from[k]) /\ timers[from[k]].shim \notin early
    BY <1>2
  <2>2. /\ shims[timers[from[k]].shim].readyState = CONNECTING
        /\ \A j \in DOMAIN timers : Ends(j) => timers[j].shim # timers[from[k]].shim
    BY <2>1 DEF IInv, OpenFirst
  <2> QED BY <1>2, <2>1, <2>2
<1>3. OpenFirst'
  BY <1>2 DEF OpenFirst
<1> QED BY <1>1, <1>3

\* The timer of 200 ms is replaced by one of 1 ms that opens the same shim.
LEMMA OpenTimerKeeps == ASSUME IInv, NEW k \in DOMAIN timers, OpenTimer(k) PROVE IInv'
<1> DEFINE q == RemoveAt(timers, k)
           t == Timer(1, timers[k].shim, "open", 0, "none")
<1>1. /\ timers' = Append(q, t) /\ UNCHANGED <<shims, p2p, messages, early>> /\ timers[k].delay = 200
  BY DEF OpenTimer
<1>2. timers[k] \in TimerRecord(Len(shims))
  BY DEF IInv, Types
<1>3. t \in TimerRecord(Len(shims)) /\ t.type = "open" /\ t.shim = timers[k].shim /\ timers[k].type = "open"
  BY <1>1, <1>2 DEF TimerRecord, Timer, Kinds
<1>4. q \in Seq(TimerRecord(Len(shims)))
  BY RemoveAtParts DEF IInv, Types
<1> HIDE DEF q, t
<1>5. timers' = q \o <<t>> /\ <<t>> \in Seq(TimerRecord(Len(shims))) /\ Len(<<t>>) = 1 /\ <<t>>[1] = t
  BY <1>1, <1>3, <1>4, AppendIsConcat
<1>6. q = RemoveAt(timers, k)
  BY DEF q
<1>7. /\ timers' \in Seq(TimerRecord(Len(shims)))
      /\ CameFrom(timers, k, <<t>>, timers')
  <2>1. Len(<<t>>) \in {0, 1}
    BY <1>5
  <2>2. timers \in Seq(TimerRecord(Len(shims)))
    BY DEF IInv, Types
  <2> QED BY <1>5, <1>6, <2>1, <2>2, Moved
<1>8. PICK from \in [DOMAIN timers' -> DOMAIN timers] :
           /\ \A i, j \in DOMAIN timers' : from[i] = from[j] => i = j
           /\ \A j \in DOMAIN timers' : timers'[j] = timers[from[j]] \/ (timers'[j] = t /\ from[j] = k)
  BY <1>5, <1>7 DEF CameFrom
<1>9. \A j \in DOMAIN timers' : /\ timers'[j].shim = timers[from[j]].shim
                                /\ timers'[j].type = timers[from[j]].type
  BY <1>3, <1>8
<1>10. \A j \in DOMAIN timers' : /\ timers'[j].shim = timers[from[j]].shim
                                 /\ Opening(j)' <=> Opening(from[j])
                                 /\ Ends(j)' <=> Ends(from[j])
  BY <1>9 DEF Opening, Ends
<1>11. early' = early /\ shims' = shims
  BY <1>1
<1>12. OpenOnce' /\ OpenFirst'
  BY <1>7, <1>8, <1>10, <1>11, Rearranged
<1> QED BY <1>1, <1>7, <1>12 DEF IInv, Types

\* An event: the shim of its timer changes its state.  When the timer opens it, no other of
\* this shim opens it; when it closes it, none opens it at all, unless it was closed early.
LEMMA EventTimerKeeps == ASSUME IInv, NEW k \in DOMAIN timers, EventTimer(k) PROVE IInv'
<1> DEFINE q == RemoveAt(timers, k)
           t == timers[k]
           c == Timer(1, t.shim, "close", 0, t.at)
           tail == IF t.type = "closing" THEN <<c>> ELSE <<>>
           h == [shims[t.shim] EXCEPT
                   !.readyState = StateAfter(t.shim, t.type),
                   !.got = IF t.type = "message" THEN Append(@, t.n) ELSE @]
<1>1. timers' = q \o tail /\ UNCHANGED <<p2p, messages, early>> /\ t.delay = 1
  BY DEF EventTimer
<1>2. /\ timers \in Seq(TimerRecord(Len(shims))) /\ t \in TimerRecord(Len(shims))
      /\ shims \in Seq(ShimRecord) /\ Len(shims) \in Nat /\ DOMAIN shims = 1..Len(shims)
  BY LenProperties DEF IInv, Types
<1>3. /\ t.shim \in DOMAIN shims /\ shims[t.shim] \in ShimRecord /\ t.n \in Nat
      /\ t.type \in Kinds /\ t.at \in {"none", "root", "control"}
  BY <1>2 DEF TimerRecord
<1>4. shims' = [shims EXCEPT ![t.shim] = h]
  BY <1>2, <1>3 DEF EventTimer, ShimRecord
<1>5. h \in ShimRecord
  <2>1. StateAfter(t.shim, t.type) \in 0..3
    BY <1>3 DEF StateAfter, ShimRecord, OPEN, CLOSING, CLOSED
  <2>2. Append(shims[t.shim].got, t.n) \in Seq(Nat)
    BY <1>3 DEF ShimRecord
  <2> QED BY <1>3, <2>1, <2>2 DEF ShimRecord
<1>6. h.readyState = StateAfter(t.shim, t.type)
  BY <1>3 DEF ShimRecord
<1>7. c \in TimerRecord(Len(shims)) /\ c.type = "close" /\ c.shim = t.shim
  BY <1>2, <1>3 DEF TimerRecord, Timer, Kinds
<1> HIDE DEF c, h
<1>8. /\ tail \in Seq(TimerRecord(Len(shims))) /\ Len(tail) \in {0, 1}
      /\ Len(tail) = 1 => t.type = "closing" /\ tail[1] = c
  <2>1. CASE t.type = "closing"
    BY <1>7, <2>1
  <2>2. CASE t.type # "closing"
    BY <2>2
  <2> QED BY <2>1, <2>2
<1> HIDE DEF tail
<1>9. timers' = RemoveAt(timers, k) \o tail
  BY <1>1
<1>10. timers' \in Seq(TimerRecord(Len(shims))) /\ CameFrom(timers, k, tail, timers')
  BY <1>2, <1>8, <1>9, Moved
<1>11. PICK from \in [DOMAIN timers' -> DOMAIN timers] :
           /\ \A i, j \in DOMAIN timers' : from[i] = from[j] => i = j
           /\ \A j \in DOMAIN timers' : \/ timers'[j] = timers[from[j]] /\ from[j] # k
                                        \/ Len(tail) = 1 /\ timers'[j] = tail[1] /\ from[j] = k
  BY <1>10 DEF CameFrom
<1> HIDE DEF t, q
<1>12. t = timers[k]
  BY DEF t
<1>13. ASSUME NEW j \in DOMAIN timers'
       PROVE  /\ timers'[j].shim = timers[from[j]].shim
              /\ Opening(j)' <=> Opening(from[j])
              /\ Ends(j)' <=> Ends(from[j])
  <2>1. CASE timers'[j] = timers[from[j]]
    BY <2>1 DEF Opening, Ends
  <2>2. CASE timers'[j] = c /\ from[j] = k /\ t.type = "closing"
    BY <1>7, <1>12, <2>2 DEF Opening, Ends
  <2> QED BY <1>8, <1>11, <2>1, <2>2
<1>14. ASSUME NEW j \in DOMAIN timers', Opening(j)', timers'[j].shim \notin early
       PROVE  shims'[timers'[j].shim].readyState = shims[timers'[j].shim].readyState
  <2> DEFINE i == from[j]
  <2>1. i \in DOMAIN timers /\ Opening(i) /\ timers'[j].shim = timers[i].shim /\ timers[i].shim \in DOMAIN shims
    BY <1>2, <1>13, <1>14 DEF TimerRecord
  <2>2. i # k
    <3>1. ~Opening(j)' \/ timers'[j] # c
      BY <1>7 DEF Opening
    <3> QED BY <1>8, <1>11, <1>14, <3>1
  <2> HIDE DEF i
  <2>3. CASE timers[i].shim # t.shim
    BY <1>2, <1>3, <1>4, <2>1, <2>3
  <2>4. CASE timers[i].shim = t.shim
    <3>1. t.type # "open"
      BY <1>12, <2>1, <2>2, <2>4 DEF IInv, OpenOnce, Opening
    <3>2. t.type \notin {"closing", "close"}
      BY <1>12, <1>14, <2>1, <2>4 DEF IInv, OpenFirst, Ends
    <3>3. t.type = "message"
      BY <1>3, <3>1, <3>2 DEF Kinds
    <3>4. h.readyState = shims[t.shim].readyState
      BY <1>6, <3>3 DEF StateAfter
    <3>5. shims'[t.shim] = h
      BY <1>3, <1>4
    <3> QED BY <2>1, <2>4, <3>4, <3>5
  <2> QED BY <2>3, <2>4
<1>15. early' = early
  BY <1>1
<1>16. OpenOnce' /\ OpenFirst'
  BY <1>10, <1>11, <1>13, <1>14, <1>15, Rearranged
<1>17. shims' \in Seq(ShimRecord) /\ Len(shims') = Len(shims)
  BY <1>2, <1>3, <1>4, <1>5
<1>18. Types'
  BY <1>1, <1>10, <1>17 DEF IInv, Types
<1> QED BY <1>16, <1>18 DEF IInv

\* Every step keeps the invariant.
LEMMA StepKeepsIInv == ASSUME IInv, [Next]_vars PROVE IInv'
<1>1. ASSUME NEW i \in Ids, ReceiveConnect(i) PROVE IInv'
  BY <1>1, ConnectKeeps
<1>2. ASSUME NEW i \in Ids, ReceiveDisconnect(i) PROVE IInv'
  BY <1>2, DisconnectKeeps
<1>3. ASSUME NEW i \in Ids, ReceiveMessage(i) PROVE IInv'
  BY <1>3, MessageKeeps
<1>4. ASSUME NEW s \in Shims, Close(s) PROVE IInv'
  BY <1>4, CloseKeeps
<1>5. ASSUME NEW k \in DOMAIN timers, OpenTimer(k) PROVE IInv'
  BY <1>5, OpenTimerKeeps
<1>6. ASSUME NEW k \in DOMAIN timers, EventTimer(k) PROVE IInv'
  BY <1>6, EventTimerKeeps
<1>7. CASE UNCHANGED vars
  BY <1>7 DEF vars, IInv, Types, OpenOnce, OpenFirst, Opening, Ends
<1> QED BY <1>1, <1>2, <1>3, <1>4, <1>5, <1>6, <1>7 DEF Next, Fire

\* The states of a shim change only with an event: no other action opens one.
LEMMA OpensByTimer ==
  ASSUME IInv, [Next]_vars, NEW s \in Shims,
         shims[s].readyState >= CLOSING, shims'[s].readyState = OPEN
  PROVE  s \in early
<1>1. shims \in Seq(ShimRecord) /\ Len(shims) \in Nat /\ s \in 1..Len(shims) /\ shims[s] \in ShimRecord
  BY LenProperties DEF IInv, Types, Shims
<1>2. shims[s].readyState # OPEN /\ shims[s].readyState # CONNECTING
  BY DEF OPEN, CLOSING, CONNECTING
<1>3. CASE shims' = shims
  BY <1>2, <1>3
<1>4. ASSUME NEW i \in Ids, ReceiveConnect(i) PROVE FALSE
  <2>1. PICK h : shims' = Append(shims, h)
    BY <1>4 DEF ReceiveConnect
  <2>2. shims'[s] = shims[s]
    BY <1>1, <2>1
  <2> QED BY <1>2, <2>2
<1>5. ASSUME NEW k \in DOMAIN timers, EventTimer(k) PROVE s \in early
  <2>1. timers[k] \in TimerRecord(Len(shims)) /\ timers[k].shim \in 1..Len(shims)
    BY <1>1 DEF IInv, Types, TimerRecord
  <2>2. shims'[s].readyState = IF timers[k].shim = s THEN StateAfter(s, timers[k].type) ELSE shims[s].readyState
    <3> DEFINE t == timers[k]
               a == IF t.type = "message" THEN Append(shims[t.shim].got, t.n) ELSE shims[t.shim].got
               h == [shims[t.shim] EXCEPT !.readyState = StateAfter(t.shim, t.type), !.got = a]
    <3>1. shims[t.shim] \in ShimRecord
      BY <1>1, <2>1
    <3>2. shims' = [shims EXCEPT ![t.shim] = h]
      BY <1>1, <1>5, <2>1, <3>1 DEF EventTimer, ShimRecord
    <3>3. h.readyState = StateAfter(t.shim, t.type)
      BY <3>1 DEF ShimRecord
    <3> HIDE DEF h
    <3>4. CASE timers[k].shim = s
      BY <1>1, <3>2, <3>3, <3>4
    <3>5. CASE timers[k].shim # s
      BY <1>1, <3>2, <3>5
    <3> QED BY <3>4, <3>5
  <2>3. timers[k].shim = s /\ StateAfter(s, timers[k].type) = OPEN
    BY <1>2, <2>2
  <2>4. Opening(k)
    BY <1>2, <2>3 DEF StateAfter, Opening, OPEN, CLOSING, CLOSED
  <2> QED BY <1>2, <2>3, <2>4 DEF IInv, OpenFirst
<1> QED BY <1>3, <1>4, <1>5 DEF Next, Fire, ReceiveDisconnect, DoClose, HandleEvent, ReceiveMessage, Close, OpenTimer, vars

\* The invariant holds of every behaviour.
THEOREM IInvAlways == Spec => []IInv
<1> QED BY InitIInv, StepKeepsIInv, PTL DEF Spec

\* A shim that is closing or closed opens again only when a "disconnect" came before its first
\* "open" (the timer of line 260 of namedwebsockets.js is never cleared).
THEOREM ShimNeverReopens == Spec => NeverReopens
<1>1. IInv /\ [Next]_vars =>
        [\A s \in Shims : shims[s].readyState >= CLOSING /\ shims'[s].readyState = OPEN => s \in early]_vars
  BY OpensByTimer
<1> QED BY <1>1, IInvAlways, PTL DEF Spec, NeverReopens

-----------------------------------------------------------------------------
(* The type invariant.                                                     *)

\* The shims of the history are shims that were made.
Remembered == displaced \subseteq Shims /\ early \subseteq Shims

\* Only a connect makes shims, and what a frame adds to the history was in the map.
LEMMA StepRemembers == ASSUME IInv, Remembered, [Next]_vars PROVE Remembered'
<1>0. /\ shims \in Seq(ShimRecord) /\ Len(shims) \in Nat /\ DOMAIN shims = 1..Len(shims)
      /\ \A i \in Ids : p2p[i] \in 0..Len(shims)
  BY LenProperties DEF IInv, Types
<1>1. ASSUME NEW i \in Ids, ReceiveConnect(i) PROVE Remembered'
  <2> DEFINE h == [id |-> i, readyState |-> CONNECTING, got |-> <<>>,
                   told |-> IF Exist(i) THEN 0 ELSE 1]
  <2>1. Len(shims') = Len(shims) + 1
    <3>1. h \in ShimRecord
      BY DEF ShimRecord, CONNECTING
    <3>2. shims' = Append(shims, h)
      BY <1>1 DEF ReceiveConnect
    <3> HIDE DEF h
    <3> QED BY <1>0, <3>1, <3>2, AppendProperties
  <2>2. displaced' = displaced \cup ({p2p[i]} \ {0}) /\ early' = early
    BY <1>1 DEF ReceiveConnect
  <2>3. Shims \subseteq Shims' /\ {p2p[i]} \ {0} \subseteq Shims
    BY <1>0, <2>1 DEF Shims
  <2> QED BY <2>2, <2>3 DEF Remembered
<1>2. ASSUME NEW i \in Ids, ReceiveDisconnect(i) PROVE Remembered'
  <2>1. early' = early \cup {s \in {p2p[i]} : shims[s].readyState = CONNECTING}
    BY <1>2 DEF ReceiveDisconnect
  <2>2. early' \subseteq early \cup {p2p[i]} /\ p2p[i] # 0
    BY <1>2, <2>1 DEF ReceiveDisconnect
  <2>3. shims' = shims /\ displaced' = displaced
    BY <1>2 DEF ReceiveDisconnect
  <2> QED BY <1>0, <2>2, <2>3 DEF Remembered, Shims
<1>3. ASSUME NEW i \in Ids, ReceiveMessage(i) PROVE Remembered'
  BY <1>3 DEF ReceiveMessage, Remembered, Shims
<1>4. ASSUME NEW s \in Shims, Close(s) PROVE Remembered'
  BY <1>4 DEF Close, Remembered, Shims
<1>5. ASSUME NEW k \in DOMAIN timers, OpenTimer(k) PROVE Remembered'
  BY <1>5 DEF OpenTimer, Remembered, Shims
<1>6. ASSUME NEW k \in DOMAIN timers, EventTimer(k) PROVE Remembered'
  <2>1. shims' \in Seq(ShimRecord) /\ DOMAIN shims' = DOMAIN shims
    <3>1. IInv'
      BY <1>6, EventTimerKeeps
    <3> QED BY <1>6, <3>1 DEF IInv, Types, EventTimer
  <2>2. Len(shims') = Len(shims)
    BY <1>0, <2>1, LenProperties
  <2> QED BY <1>6, <2>2 DEF EventTimer, Remembered, Shims
<1>7. CASE UNCHANGED vars
  BY <1>7 DEF vars, Remembered, Shims
<1> QED BY <1>1, <1>2, <1>3, <1>4, <1>5, <1>6, <1>7 DEF Next, Fire

\* Shims, the entries of the map, timers and the history keep their types, whatever frames come
\* (namedwebsockets.js, lines 235 to 305).
THEOREM TypesOfShims == Spec => []TypeOK
<1>1. Init => IInv /\ Remembered
  BY InitIInv DEF Init, Remembered
<1>2. IInv /\ Remembered /\ [Next]_vars => (IInv /\ Remembered)'
  BY StepKeepsIInv, StepRemembers
<1>3. IInv /\ Remembered => TypeOK
  <2>1. ASSUME IInv, Remembered PROVE TypeOK
    <3>1. /\ Len(shims) \in Nat /\ DOMAIN shims = Shims /\ \A s \in Shims : shims[s] \in ShimRecord
      BY <2>1, LenProperties DEF IInv, Types, Shims
    <3>2. \A k \in DOMAIN timers : timers[k] \in TimerRecord(Len(shims))
      BY <2>1, LenProperties DEF IInv, Types
    <3> QED BY <2>1, <3>1, <3>2
            DEF TypeOK, IInv, Types, Remembered, ShimRecord, TimerRecord, CONNECTING, CLOSED, Shims
  <2> QED BY <2>1
<1> QED BY <1>1, <1>2, <1>3, PTL DEF Spec

-----------------------------------------------------------------------------
(* Every shim is the map's, was displaced or closed early, or is closing.  *)

Routed(s) == \/ p2p[shims[s].id] = s
             \/ s \in displaced \cup early
             \/ shims[s].readyState >= CLOSING
             \/ \E k \in DOMAIN timers : Ends(k) /\ timers[k].shim = s
AllRouted == \A s \in Shims : Routed(s)
RoutedInv == IInv /\ AllRouted

\* What was there before is still there.
LEMMA AppendKeeps ==
  ASSUME NEW S, NEW q \in Seq(S), NEW e
  PROVE  \A k \in DOMAIN q : k \in DOMAIN Append(q, e) /\ Append(q, e)[k] = q[k]
<1> DEFINE T == S \cup {e}
<1>1. q \in Seq(T) /\ e \in T
  OBVIOUS
<1> HIDE DEF T
<1>2. /\ Append(q, e) \in Seq(T) /\ Len(Append(q, e)) = Len(q) + 1 /\ Len(q) \in Nat
      /\ \A k \in 1..Len(q) : Append(q, e)[k] = q[k]
  BY <1>1, AppendProperties, LenProperties
<1>3. DOMAIN q = 1..Len(q) /\ DOMAIN Append(q, e) = 1..(Len(q) + 1)
  BY <1>1, <1>2, LenProperties
<1> QED BY <1>2, <1>3

\* An action that sets at most one timer more and takes no shim out of the map unseen.
LEMMA StaysRouted ==
  ASSUME RoutedInv, IInv', NEW s \in Shims, shims'[s] = shims[s],
         displaced \subseteq displaced', early \subseteq early',
         timers' = timers \/ \E t : timers' = Append(timers, t),
         p2p[shims[s].id] = s => Routed(s)'
  PROVE  Routed(s)'
<1>1. /\ timers \in Seq(TimerRecord(Len(shims))) /\ timers' \in Seq(TimerRecord(Len(shims')))
      /\ Len(timers) \in Nat /\ DOMAIN timers = 1..Len(timers) /\ DOMAIN timers' = 1..Len(timers')
  BY LenProperties DEF RoutedInv, IInv, Types
<1>2. \A k \in DOMAIN timers : k \in DOMAIN timers' /\ timers'[k] = timers[k]
  <2>1. CASE timers' = timers
    BY <2>1
  <2>2. ASSUME NEW t, timers' = Append(timers, t)
        PROVE  \A k \in DOMAIN timers : k \in DOMAIN timers' /\ timers'[k] = timers[k]
    BY <1>1, <2>2, AppendKeeps
  <2> QED BY <2>1, <2>2
<1>3. ASSUME NEW k \in DOMAIN timers, Ends(k), timers[k].shim = s PROVE Routed(s)'
  <2>1. k \in DOMAIN timers' /\ timers'[k] = timers[k]
    BY <1>2
  <2> QED BY <1>3, <2>1 DEF Routed, Ends
<1>4. Routed(s)
  BY DEF RoutedInv, AllRouted
<1> QED BY <1>3, <1>4 DEF Routed

\* case "connect": the shim that loses the entry of the map is displaced.
LEMMA ConnectRoutes ==
  ASSUME RoutedInv, IInv', NEW i \in Ids, ReceiveConnect(i)
  PROVE  AllRouted'
<1> DEFINE n == Len(shims) + 1
<1>1. /\ shims' = Append(shims, [id |-> i, readyState |-> CONNECTING, got |-> <<>>,
                                 told |-> IF Exist(i) THEN 0 ELSE 1])
      /\ p2p' = [p2p EXCEPT ![i] = n] /\ displaced' = displaced \cup ({p2p[i]} \ {0}) /\ early' = early
      /\ timers' = timers \/ \E t : timers' = Append(timers, t)
  BY DEF ReceiveConnect
<1>2. /\ shims \in Seq(ShimRecord) /\ Len(shims) \in Nat /\ p2p \in [Ids -> 0..Len(shims)]
      /\ Len(shims') = n /\ shims'[n].id = i
      /\ \A s \in 1..Len(shims) : shims'[s] = shims[s] /\ shims[s] \in ShimRecord
  BY <1>1, LenProperties, AppendProperties DEF RoutedInv, IInv, Types
<1>3. ASSUME NEW s, s = n PROVE Routed(s)'
  <2>1. p2p'[i] = s /\ shims'[s].id = i
    BY <1>1, <1>2, <1>3
  <2> QED BY <2>1 DEF Routed
<1> HIDE DEF n
<1>4. ASSUME NEW s \in Shims PROVE Routed(s)'
  <2>1. s \in 1..Len(shims) /\ s # 0
    BY <1>2 DEF Shims
  <2>2. shims'[s] = shims[s] /\ shims[s].id \in Ids
    BY <1>2, <2>1 DEF ShimRecord
  <2>3. p2p[shims[s].id] = s => Routed(s)'
    BY <1>1, <1>2, <2>1, <2>2 DEF Routed
  <2> QED BY <1>1, <2>2, <2>3, StaysRouted
<1>5. \A s \in Shims' : s \in Shims \/ s = n
  BY <1>2 DEF Shims, n
<1> QED BY <1>3, <1>4, <1>5 DEF AllRouted

\* case "disconnect": the shim that leaves the map is about to close.
LEMMA DisconnectRoutes ==
  ASSUME RoutedInv, IInv', NEW i \in Ids, ReceiveDisconnect(i)
  PROVE  AllRouted'
<1> DEFINE t == Timer(1, p2p[i], "closing", 0, "root")
<1>1. /\ timers' = Append(timers, t) /\ shims' = shims /\ p2p' = [p2p EXCEPT ![i] = 0]
      /\ displaced' = displaced /\ early \subseteq early'
  BY DEF ReceiveDisconnect, DoClose, HandleEvent
<1>2. /\ shims \in Seq(ShimRecord) /\ Len(shims) \in Nat /\ p2p \in [Ids -> 0..Len(shims)]
      /\ \A s \in Shims : shims[s].id \in Ids
      /\ timers \in Seq(TimerRecord(Len(shims))) /\ Len(timers) \in Nat
  <2>1. /\ shims \in Seq(ShimRecord) /\ p2p \in [Ids -> 0..Len(shims)]
        /\ timers \in Seq(TimerRecord(Len(shims)))
    BY DEF RoutedInv, IInv, Types
  <2>2. \A s \in Shims : shims[s] \in ShimRecord
    BY <2>1 DEF Shims
  <2>3. \A s \in Shims : shims[s].id \in Ids
    BY <2>2 DEF ShimRecord
  <2>4. Len(shims) \in Nat /\ Len(timers) \in Nat
    BY <2>1, LenProperties
  <2> QED BY <2>1, <2>3, <2>4
<1>3. t.type = "closing" /\ t.shim = p2p[i]
  BY DEF Timer
<1> HIDE DEF t
<1>4. Len(timers) + 1 \in DOMAIN timers' /\ timers'[Len(timers) + 1] = t
  BY <1>1, <1>2
<1>5. ASSUME NEW s \in Shims PROVE Routed(s)'
  <2>1. p2p[shims[s].id] = s => Routed(s)'
    <3>1. CASE shims[s].id = i /\ p2p[i] = s
      BY <1>3, <1>4, <3>1 DEF Routed, Ends
    <3>2. CASE shims[s].id # i
      BY <1>1, <1>2, <3>2 DEF Routed
    <3> QED BY <3>1, <3>2
  <2>2. shims'[s] = shims[s] /\ \E u : timers' = Append(timers, u)
    BY <1>1
  <2> QED BY <1>1, <2>1, <2>2, StaysRouted
<1> QED BY <1>1, <1>5 DEF Shims, AllRouted

\* An action that leaves shims and map alone and sets at most one timer more.
LEMMA QuietRoutes ==
  ASSUME RoutedInv, IInv', UNCHANGED <<shims, p2p, displaced, early>>,
         timers' = timers \/ \E t : timers' = Append(timers, t)
  PROVE  AllRouted'
<1>1. \A s \in Shims : p2p[shims[s].id] = s => Routed(s)'
  BY DEF Routed
<1> QED BY <1>1, StaysRouted DEF Shims, AllRouted

\* A timer that fires: those that end a shim stay, or the shim is closing now.
LEMMA FireRoutes ==
  ASSUME RoutedInv, IInv', NEW k \in DOMAIN timers, OpenTimer(k) \/ EventTimer(k)
  PROVE  AllRouted'
<1> DEFINE t == timers[k]
           tail == IF t.delay = 200 THEN <<Timer(1, t.shim, "open", 0, "none")>>
                   ELSE IF t.type = "closing" THEN <<Timer(1, t.shim, "close", 0, t.at)>> ELSE <<>>
           state(s) == IF t.delay = 1 /\ s = t.shim THEN StateAfter(s, t.type) ELSE shims[s].readyState
<1>1. /\ timers \in Seq(TimerRecord(Len(shims))) /\ t \in TimerRecord(Len(shims))
      /\ shims \in Seq(ShimRecord) /\ Len(shims) \in Nat /\ DOMAIN shims = 1..Len(shims) /\ Shims = 1..Len(shims)
      /\ \A s \in Shims : shims[s] \in ShimRecord
  BY LenProperties DEF RoutedInv, IInv, Types, Shims
<1>2. t.shim \in Shims /\ t.type \in Kinds /\ (t.delay = 200 => t.type = "open") /\ t.n \in Nat /\ t.delay \in {1, 200}
  BY <1>1 DEF TimerRecord
<1>3. UNCHANGED <<p2p, displaced, early>>
  BY DEF OpenTimer, EventTimer
<1>4. \A j \in DOMAIN timers : j # k => \E i \in DOMAIN timers' : timers'[i] = timers[j]
  <2> DEFINE q == RemoveAt(timers, k)
             u == Timer(1, t.shim, "open", 0, "none")
             c == Timer(1, t.shim, "close", 0, t.at)
  <2>1. q \in Seq(TimerRecord(Len(shims))) /\ q = RemoveAt(timers, k)
    BY <1>1, RemoveAtParts
  <2>2. u \in TimerRecord(Len(shims)) /\ c \in TimerRecord(Len(shims))
    BY <1>1, <1>2 DEF TimerRecord, Timer, Kinds, Shims
  <2> HIDE DEF q, u, c
  <2>3. PICK r \in Seq(TimerRecord(Len(shims))) : timers' = q \o r /\ Len(r) \in {0, 1}
    <3>1. CASE OpenTimer(k)
      <4>1. timers' = Append(q, u)
        BY <3>1 DEF OpenTimer, q, u
      <4>2. timers' = q \o <<u>> /\ <<u>> \in Seq(TimerRecord(Len(shims))) /\ Len(<<u>>) = 1
        BY <2>1, <2>2, <4>1, AppendIsConcat
      <4> QED BY <4>2
    <3>2. CASE EventTimer(k) /\ t.type = "closing"
      <4>1. timers' = q \o <<c>>
        BY <3>2 DEF EventTimer, q, c
      <4>2. <<c>> \in Seq(TimerRecord(Len(shims))) /\ Len(<<c>>) = 1
        BY <2>2
      <4> QED BY <4>1, <4>2
    <3>3. CASE EventTimer(k) /\ t.type # "closing"
      <4>1. timers' = q \o <<>>
        BY <3>3 DEF EventTimer, q
      <4>2. <<>> \in Seq(TimerRecord(Len(shims))) /\ Len(<<>>) = 0
        OBVIOUS
      <4> QED BY <4>1, <4>2
    <3> QED BY <3>1, <3>2, <3>3
  <2>4. timers' = RemoveAt(timers, k) \o r
    BY <2>1, <2>3
  <2> DEFINE S == TimerRecord(Len(shims))
  <2>5. timers \in Seq(S) /\ r \in Seq(S) /\ Len(r) \in {0, 1} /\ k \in DOMAIN timers
    BY <1>1, <2>3
  <2> HIDE DEF S
  <2>6. AllBut(timers, k, timers')
    BY <2>4, <2>5, Remains
  <2> QED BY <2>6 DEF AllBut
<1>5. /\ Shims' = Shims
      /\ \A s \in Shims : shims'[s].id = shims[s].id /\ shims'[s].readyState = state(s)
  <2>1. CASE OpenTimer(k)
    BY <1>2, <2>1 DEF OpenTimer, Shims
  <2>2. CASE EventTimer(k)
    <3> DEFINE a == IF t.type = "message" THEN Append(shims[t.shim].got, t.n) ELSE shims[t.shim].got
               h == [shims[t.shim] EXCEPT !.readyState = StateAfter(t.shim, t.type), !.got = a]
    <3>1. shims[t.shim] \in ShimRecord /\ t.delay = 1
      BY <1>1, <1>2, <2>2 DEF EventTimer
    <3>2. shims' = [shims EXCEPT ![t.shim] = h]
      BY <1>1, <1>2, <2>2, <3>1 DEF EventTimer, ShimRecord
    <3>3. h.readyState = StateAfter(t.shim, t.type) /\ h.id = shims[t.shim].id
      BY <3>1 DEF ShimRecord
    <3> HIDE DEF h
    <3>4. Len(shims') = Len(shims)
      BY <1>1, <1>2, <3>2
    <3> QED BY <1>1, <1>2, <3>1, <3>2, <3>3, <3>4 DEF Shims
  <2> QED BY <2>1, <2>2
<1> HIDE DEF t, tail, state
<1>6. ASSUME NEW s \in Shims PROVE Routed(s)'
  <2>1. CASE p2p[shims[s].id] = s \/ s \in displaced \cup early
    BY <1>3, <1>5, <2>1 DEF Routed
  <2>2. CASE s \notin early /\ shims[s].readyState >= CLOSING
    <3>1. state(s) >= CLOSING
      <4>1. s = t.shim => t.type # "open"
        <5>1. Opening(k) => timers[k].shim \in early \/ shims[timers[k].shim].readyState = CONNECTING
          BY DEF RoutedInv, IInv, OpenFirst
        <5> QED BY <2>2, <5>1 DEF t, Opening, CONNECTING, CLOSING
      <4> QED BY <1>2, <2>2, <4>1 DEF state, StateAfter, CLOSING, CLOSED
    <3> QED BY <1>5, <3>1 DEF Routed
  <2>3. ASSUME NEW j \in DOMAIN timers, Ends(j), timers[j].shim = s PROVE Routed(s)'
    <3>1. CASE j # k
      <4>1. PICK i \in DOMAIN timers' : timers'[i] = timers[j]
        BY <1>4, <3>1
      <4>2. Ends(i)' /\ timers'[i].shim = s
        BY <2>3, <4>1 DEF Ends
      <4> QED BY <4>1, <4>2 DEF Routed
    <3>2. CASE j = k
      <4>1. t.type \in {"closing", "close"} /\ s = t.shim /\ t.delay = 1
        BY <1>2, <2>3, <3>2 DEF Ends, t
      <4>2. state(s) >= CLOSING
        BY <4>1 DEF state, StateAfter, CLOSING, CLOSED
      <4> QED BY <1>5, <4>2 DEF Routed
    <3> QED BY <3>1, <3>2
  <2> QED BY <2>1, <2>2, <2>3 DEF RoutedInv, AllRouted, Routed
<1> QED BY <1>5, <1>6 DEF AllRouted

\* Every shim stays accounted for.
LEMMA StepKeepsRouted == ASSUME RoutedInv, [Next]_vars PROVE RoutedInv'
<1>0. IInv'
  BY StepKeepsIInv DEF RoutedInv
<1>1. ASSUME NEW i \in Ids, ReceiveConnect(i) PROVE AllRouted'
  BY <1>0, <1>1, ConnectRoutes
<1>2. ASSUME NEW i \in Ids, ReceiveDisconnect(i) PROVE AllRouted'
  BY <1>0, <1>2, DisconnectRoutes
<1>3. ASSUME NEW i \in Ids, ReceiveMessage(i) PROVE AllRouted'
  <2>1. /\ UNCHANGED <<shims, p2p, displaced, early>>
        /\ timers' = timers \/ \E t : timers' = Append(timers, t)
    BY <1>3 DEF ReceiveMessage, HandleEvent
  <2> QED BY <1>0, <2>1, QuietRoutes
<1>4. ASSUME NEW n \in Shims, Close(n) PROVE AllRouted'
  <2>1. /\ UNCHANGED <<shims, p2p, displaced, early>>
        /\ timers' = timers \/ \E t : timers' = Append(timers, t)
    BY <1>4 DEF Close, DoClose, HandleEvent
  <2> QED BY <1>0, <2>1, QuietRoutes
<1>5. ASSUME NEW k \in DOMAIN timers, OpenTimer(k) \/ EventTimer(k) PROVE AllRouted'
  BY <1>0, <1>5, FireRoutes
<1>6. ASSUME UNCHANGED vars PROVE AllRouted'
  <2>1. UNCHANGED <<shims, p2p, displaced, early, timers>>
    BY <1>6 DEF vars
  <2> QED BY <1>0, <2>1, QuietRoutes
<1>7. AllRouted'
  BY <1>1, <1>2, <1>3, <1>4, <1>5, <1>6 DEF Next, Fire
<1> QED BY <1>0, <1>7 DEF RoutedInv

\* A shim that lets the application send is the one the map routes to, unless it was
\* displaced or closed early (namedwebsockets.js, lines 240 and 266).
THEOREM OpenShimsAreRouted == Spec => []OpenShimRouted
<1>1. Init => RoutedInv
  <2>1. Init => shims = <<>>
    BY DEF Init
  <2>2. shims = <<>> => Shims = {}
    BY DEF Shims
  <2> QED BY <2>1, <2>2, InitIInv DEF RoutedInv, AllRouted
<1>2. RoutedInv /\ [Next]_vars => RoutedInv'
  BY StepKeepsRouted
<1>3. RoutedInv => OpenShimRouted
  BY DEF RoutedInv, AllRouted, Routed, OpenShimRouted, Settled, OPEN, CLOSING
<1> QED BY <1>1, <1>2, <1>3, PTL DEF Spec
-----------------------------------------------------------------------------
(* The application's list and the map know the same ids, each once.        *)

PeerTypes == peers \in Seq(1..Len(shims))

\* The list holds a shim once, and one of each id.
OneEach == /\ IsInjective(peers)
           /\ \A s, t \in ToSet(peers) : shims[s].id = shims[t].id => s = t

\* An id is in the list when the map has a shim of it, and that shim is one of this id.
SameIds == \A i \in Ids : p2p[i] # 0 <=> \E s \in ToSet(peers) : shims[s].id = i
Entries == \A i \in Ids : p2p[i] # 0 => shims[p2p[i]].id = i

\* A shim of the list is the map's, unless a second "connect" took its entry.
Listed == \A s \in ToSet(peers) \ displaced : p2p[shims[s].id] = s

PeersInv == PeerTypes /\ OneEach /\ SameIds /\ Entries /\ Listed

\* The types at hand.
LEMMA ShimTypes ==
  ASSUME IInv
  PROVE  /\ shims \in Seq(ShimRecord) /\ Len(shims) \in Nat /\ DOMAIN shims = 1..Len(shims) /\ Shims = 1..Len(shims)
         /\ \A s \in Shims : /\ shims[s] \in ShimRecord
                             /\ shims[s].id \in Ids /\ shims[s].got \in Seq(Nat) /\ shims[s].told \in {0, 1}
         /\ timers \in Seq(TimerRecord(Len(shims))) /\ Len(timers) \in Nat /\ DOMAIN timers = 1..Len(timers)
         /\ \A k \in DOMAIN timers : timers[k] \in TimerRecord(Len(shims)) /\ timers[k].shim \in Shims
         /\ p2p \in [Ids -> 0..Len(shims)]
<1>1. /\ shims \in Seq(ShimRecord) /\ timers \in Seq(TimerRecord(Len(shims))) /\ p2p \in [Ids -> 0..Len(shims)]
  BY DEF IInv, Types
<1>2. /\ Len(shims) \in Nat /\ DOMAIN shims = 1..Len(shims) /\ Shims = 1..Len(shims)
      /\ Len(timers) \in Nat /\ DOMAIN timers = 1..Len(timers)
  BY <1>1, LenProperties DEF Shims
<1>3. \A s \in Shims : shims[s] \in ShimRecord
  BY <1>1, <1>2
<1>4. \A k \in DOMAIN timers : timers[k] \in TimerRecord(Len(shims))
  BY <1>1
<1>5. \A k \in DOMAIN timers : timers[k].shim \in Shims
  BY <1>2, <1>4 DEF TimerRecord
<1>6. \A s \in Shims : shims[s].id \in Ids /\ shims[s].got \in Seq(Nat) /\ shims[s].told \in {0, 1}
  BY <1>3 DEF ShimRecord
<1> QED BY <1>1, <1>2, <1>3, <1>4, <1>5, <1>6

\* A connect makes one shim more and leaves the others as they are.
LEMMA ConnectAdds ==
  ASSUME IInv, NEW i \in Ids, ReceiveConnect(i)
  PROVE  /\ Len(shims') = Len(shims) + 1 /\ Shims' = Shims \cup {Len(shims) + 1} /\ Len(shims) + 1 \notin Shims
         /\ \A s \in Shims : shims'[s] = shims[s]
         /\ shims'[Len(shims) + 1].id = i /\ shims'[Len(shims) + 1].got = <<>>
         /\ shims'[Len(shims) + 1].told = IF Exist(i) THEN 0 ELSE 1
<1> DEFINE h == [id |-> i, readyState |-> CONNECTING, got |-> <<>>, told |-> IF Exist(i) THEN 0 ELSE 1]
<1>1. shims' = Append(shims, h)
  BY DEF ReceiveConnect
<1>2. h \in ShimRecord
  BY DEF ShimRecord, CONNECTING
<1>5. h.id = i /\ h.got = <<>> /\ h.told = IF Exist(i) THEN 0 ELSE 1
  OBVIOUS
<1> HIDE DEF h
<1>3. shims \in Seq(ShimRecord) /\ Len(shims) \in Nat /\ Shims = 1..Len(shims)
  BY ShimTypes
<1>4. /\ Len(shims') = Len(shims) + 1 /\ shims'[Len(shims) + 1] = h
      /\ \A s \in 1..Len(shims) : shims'[s] = shims[s]
  BY <1>1, <1>2, <1>3, AppendProperties
<1> QED BY <1>3, <1>4, <1>5 DEF Shims

\* A timer leaves the shims' ids and "connect" events, and adds a message it brings.
LEMMA FireChanges ==
  ASSUME IInv, NEW k \in DOMAIN timers, OpenTimer(k) \/ EventTimer(k)
  PROVE  /\ Len(shims') = Len(shims) /\ Shims' = Shims
         /\ \A s \in Shims : /\ shims'[s].id = shims[s].id /\ shims'[s].told = shims[s].told
                             /\ shims'[s].got = IF timers[k].type = "message" /\ s = timers[k].shim
                                                THEN Append(shims[s].got, timers[k].n) ELSE shims[s].got
<1> DEFINE t == timers[k]
<1>1. /\ shims \in Seq(ShimRecord) /\ Len(shims) \in Nat /\ DOMAIN shims = 1..Len(shims) /\ Shims = 1..Len(shims)
      /\ t.shim \in Shims /\ t \in TimerRecord(Len(shims))
      /\ \A s \in Shims : shims[s] \in ShimRecord
  BY ShimTypes
<1>2. CASE OpenTimer(k)
  <2>1. t.type = "open" /\ shims' = shims
    BY <1>1, <1>2 DEF OpenTimer, TimerRecord
  <2> QED BY <2>1 DEF Shims
<1>3. CASE EventTimer(k)
  <2> DEFINE a == IF t.type = "message" THEN Append(shims[t.shim].got, t.n) ELSE shims[t.shim].got
             h == [shims[t.shim] EXCEPT !.readyState = StateAfter(t.shim, t.type), !.got = a]
  <2>1. shims[t.shim] \in ShimRecord
    BY <1>1
  <2>2. shims' = [shims EXCEPT ![t.shim] = h]
    BY <1>1, <1>3, <2>1 DEF EventTimer, ShimRecord
  <2>3. h.id = shims[t.shim].id /\ h.told = shims[t.shim].told /\ h.got = a
    BY <2>1 DEF ShimRecord
  <2> HIDE DEF h
  <2>4. Len(shims') = Len(shims) /\ \A s \in Shims : shims'[s] = IF s = t.shim THEN h ELSE shims[s]
    BY <1>1, <2>2
  <2> QED BY <1>1, <2>3, <2>4 DEF Shims
<1> QED BY <1>2, <1>3

\* What leaves list, map and history alone leaves the invariant of the peers alone.
LEMMA PeersRest ==
  ASSUME IInv, PeersInv, UNCHANGED <<peers, p2p, displaced>>, Len(shims') = Len(shims),
         \A s \in Shims : shims'[s].id = shims[s].id
  PROVE  PeersInv'
<1>1. peers \in Seq(Shims) /\ \A s \in ToSet(peers) : s \in Shims
  BY ShimTypes DEF PeersInv, PeerTypes, ToSet
<1>2. \A i \in Ids : p2p[i] # 0 => p2p[i] \in Shims
  BY ShimTypes
<1>3. \A s \in ToSet(peers) : shims'[s].id = shims[s].id
  BY <1>1
<1>4. PeerTypes' /\ OneEach'
  BY <1>3 DEF PeersInv, PeerTypes, OneEach
<1>5. SameIds' /\ Entries'
  BY <1>2, <1>3 DEF PeersInv, SameIds, Entries
<1>6. Listed'
  BY <1>3 DEF PeersInv, Listed
<1> QED BY <1>4, <1>5, <1>6 DEF PeersInv

\* case "connect": an id that is new is added to the list, one that is there loses its entry.
LEMMA ConnectListed ==
  ASSUME IInv, PeersInv, NEW i \in Ids, ReceiveConnect(i)
  PROVE  PeersInv'
<1> DEFINE n == Len(shims) + 1
<1>1. /\ Len(shims') = n /\ n \notin Shims /\ Shims' = Shims \cup {n}
      /\ \A s \in Shims : shims'[s] = shims[s]
      /\ shims'[n].id = i
  BY ConnectAdds
<1>2. /\ Len(shims) \in Nat /\ Shims = 1..Len(shims) /\ p2p \in [Ids -> 0..Len(shims)]
      /\ \A s \in Shims : shims[s].id \in Ids /\ s # 0
  BY ShimTypes
<1>3. /\ p2p' = [p2p EXCEPT ![i] = n] /\ displaced' = displaced \cup ({p2p[i]} \ {0})
      /\ \/ ~Exist(i) /\ peers' = Append(peers, n)
         \/ Exist(i) /\ peers' = peers
  BY DEF ReceiveConnect
<1>4. /\ peers \in Seq(1..Len(shims)) /\ (\A s \in ToSet(peers) : s \in Shims)
      /\ (Exist(i) <=> \E s \in ToSet(peers) : shims[s].id = i)
  BY <1>2 DEF PeersInv, PeerTypes, ToSet, Exist
<1>5. n # 0 /\ 1..Len(shims) \subseteq 1..n /\ n \in 1..n
  BY <1>2
<1> HIDE DEF n
<1>6. p2p'[i] = n /\ \A j \in Ids : j # i => p2p'[j] = p2p[j]
  BY <1>2, <1>3
<1>7. /\ \A s \in ToSet(peers) : shims'[s].id = shims[s].id /\ s # n
      /\ \A s \in ToSet(peers) : shims[s].id = i => Exist(i)
  BY <1>1, <1>4
<1>8. peers' \in Seq(1..n) /\ IsInjective(peers') /\ ToSet(peers') = IF Exist(i) THEN ToSet(peers) ELSE ToSet(peers) \cup {n}
  <2>1. peers \in Seq(1..n)
    <3> DEFINE A == 1..Len(shims)
               B == 1..n
    <3>1. peers \in Seq(A) /\ A \subseteq B
      BY <1>4, <1>5
    <3> HIDE DEF A, B
    <3>2. peers \in Seq(B)
      BY <3>1
    <3> QED BY <3>2 DEF B
  <2>2. CASE Exist(i)
    BY <1>3, <2>1, <2>2 DEF PeersInv, OneEach
  <2>3. CASE ~Exist(i)
    <3>1. peers' = Append(peers, n) /\ n \notin ToSet(peers) /\ IsInjective(peers)
      BY <1>3, <1>7, <2>3 DEF PeersInv, OneEach
    <3> QED BY <1>5, <2>1, <2>3, <3>1, AppendNew
  <2> QED BY <2>2, <2>3
<1>9. OneEach'
  BY <1>1, <1>7, <1>8 DEF PeersInv, OneEach
<1>10. Entries'
  <2> SUFFICES ASSUME NEW j \in Ids, p2p'[j] # 0 PROVE shims'[p2p'[j]].id = j
    BY DEF Entries
  <2>1. CASE j = i
    BY <1>1, <1>6, <2>1
  <2>2. CASE j # i
    <3>1. p2p'[j] = p2p[j] /\ p2p[j] \in Shims
      BY <1>2, <1>6, <2>2
    <3> QED BY <1>1, <3>1 DEF PeersInv, Entries
  <2> QED BY <2>1, <2>2
<1>11. SameIds'
  <2> SUFFICES ASSUME NEW j \in Ids PROVE p2p'[j] # 0 <=> \E s \in ToSet(peers') : shims'[s].id = j
    BY DEF SameIds
  <2>1. CASE j = i
    <3>1. \E s \in ToSet(peers') : shims'[s].id = i
      BY <1>1, <1>4, <1>7, <1>8
    <3> QED BY <1>5, <1>6, <2>1, <3>1
  <2>2. CASE j # i
    <3>1. (\E s \in ToSet(peers') : shims'[s].id = j) <=> \E s \in ToSet(peers) : shims[s].id = j
      BY <1>1, <1>7, <1>8, <2>2
    <3> QED BY <1>6, <2>2, <3>1 DEF PeersInv, SameIds
  <2> QED BY <2>1, <2>2
<1>12. Listed'
  <2> SUFFICES ASSUME NEW s \in ToSet(peers'), s \notin displaced' PROVE p2p'[shims'[s].id] = s
    BY DEF Listed
  <2>1. CASE s = n
    BY <1>1, <1>6, <2>1
  <2>2. CASE s \in ToSet(peers)
    <3>1. p2p[shims[s].id] = s /\ shims'[s].id = shims[s].id /\ s \in Shims
      BY <1>3, <1>4, <1>7, <2>2 DEF PeersInv, Listed
    <3>2. shims[s].id # i
      BY <1>2, <1>3, <3>1
    <3> QED BY <1>2, <1>6, <3>1, <3>2
  <2> QED BY <1>8, <2>1, <2>2
<1> QED BY <1>1, <1>8, <1>9, <1>10, <1>11, <1>12 DEF PeersInv, PeerTypes

\* case "disconnect": the id leaves list and map.
LEMMA DisconnectListed ==
  ASSUME IInv, PeersInv, NEW i \in Ids, ReceiveDisconnect(i)
  PROVE  PeersInv'
<1> DEFINE T == {s \in Shims : shims[s].id # i}
<1>1. /\ peers' = Filter(peers, T) /\ p2p' = [p2p EXCEPT ![i] = 0]
      /\ UNCHANGED <<shims, displaced>>
  BY DEF ReceiveDisconnect
<1>2. /\ peers \in Seq(1..Len(shims)) /\ IsInjective(peers) /\ p2p \in [Ids -> 0..Len(shims)]
      /\ \A s \in ToSet(peers) : s \in Shims
  BY ShimTypes DEF PeersInv, PeerTypes, OneEach, ToSet
<1>3. /\ peers' \in Seq(1..Len(shims)) /\ IsInjective(peers')
      /\ \A s : s \in ToSet(peers') <=> s \in ToSet(peers) /\ s \in T
  BY <1>1, <1>2, FilterParts
<1>4. \A s : s \in ToSet(peers') <=> s \in ToSet(peers) /\ shims[s].id # i
  BY <1>2, <1>3
<1>5. PeerTypes' /\ OneEach'
  BY <1>1, <1>3, <1>4 DEF PeersInv, PeerTypes, OneEach
<1>6. SameIds' /\ Entries'
  BY <1>1, <1>2, <1>4 DEF PeersInv, SameIds, Entries
<1>7. Listed'
  <2> SUFFICES ASSUME NEW s \in ToSet(peers'), s \notin displaced' PROVE p2p'[shims'[s].id] = s
    BY DEF Listed
  <2>1. s \in ToSet(peers) /\ s \in Shims /\ shims[s].id # i /\ p2p[shims[s].id] = s /\ shims[s].id \in Ids
    BY <1>1, <1>2, <1>4, ShimTypes DEF PeersInv, Listed
  <2> QED BY <1>1, <1>2, <2>1
<1> QED BY <1>5, <1>6, <1>7 DEF PeersInv

\* The initial state: no peer.
LEMMA InitPeers == Init => PeersInv
<1> SUFFICES ASSUME Init PROVE PeersInv
  OBVIOUS
<1>1. peers = <<>> /\ ToSet(peers) = {} /\ DOMAIN peers = {} /\ \A i \in Ids : p2p[i] = 0
  BY DEF Init, ToSet
<1> QED BY <1>1 DEF PeersInv, PeerTypes, OneEach, SameIds, Entries, Listed, IsInjective

\* Every step keeps the list and the map together.
LEMMA StepKeepsPeers == ASSUME IInv, PeersInv, [Next]_vars PROVE PeersInv'
<1>1. ASSUME NEW i \in Ids, ReceiveConnect(i) \/ ReceiveDisconnect(i) PROVE PeersInv'
  BY <1>1, ConnectListed, DisconnectListed
<1>2. ASSUME NEW i \in Ids, ReceiveMessage(i) PROVE UNCHANGED <<shims, peers, p2p, displaced>>
  BY <1>2 DEF ReceiveMessage
<1>3. ASSUME NEW s \in Shims, Close(s) PROVE UNCHANGED <<shims, peers, p2p, displaced>>
  BY <1>3 DEF Close
<1>4. ASSUME NEW k \in DOMAIN timers, OpenTimer(k) \/ EventTimer(k) PROVE PeersInv'
  <2>1. UNCHANGED <<peers, p2p, displaced>>
    BY <1>4 DEF OpenTimer, EventTimer
  <2> QED BY <1>4, <2>1, FireChanges, PeersRest
<1>5. UNCHANGED vars => UNCHANGED <<shims, peers, p2p, displaced>>
  BY DEF vars
<1>6. UNCHANGED <<shims, peers, p2p, displaced>> => PeersInv'
  BY PeersRest
<1> QED BY <1>1, <1>2, <1>3, <1>4, <1>5, <1>6 DEF Next, Fire

\* The application's list and the map know the same ids, each once, however often a peer is
\* announced, withdrawn and announced again (namedwebsockets.js, lines 242, 275-279 and 285).
THEOREM ListMatchesMap == Spec => []PeersMatchMap
<1>1. Init => IInv /\ PeersInv
  BY InitIInv, InitPeers
<1>2. IInv /\ PeersInv /\ [Next]_vars => (IInv /\ PeersInv)'
  BY StepKeepsIInv, StepKeepsPeers
<1>3. IInv /\ PeersInv => PeersMatchMap
  <2> SUFFICES ASSUME IInv, PeersInv PROVE PeersMatchMap
    OBVIOUS
  <2>1. \A s \in ToSet(peers) : shims[s].id \in Ids
    BY ShimTypes DEF PeersInv, PeerTypes, ToSet
  <2>2. {shims[s].id : s \in ToSet(peers)} = {i \in Ids : p2p[i] # 0}
    BY <2>1 DEF PeersInv, SameIds
  <2>3. \A j, k \in DOMAIN peers : shims[peers[j]].id = shims[peers[k]].id => j = k
    BY DEF PeersInv, OneEach, IsInjective, ToSet
  <2> QED BY <2>2, <2>3 DEF PeersMatchMap
<1> QED BY <1>1, <1>2, <1>3, PTL DEF Spec

-----------------------------------------------------------------------------
(* Messages are numbered as they come; the timers hand them on in that order. *)

HeldShims == \A n \in DOMAIN messages : messages[n].held \subseteq Shims

\* No number is from the future.
Numbers ==
  /\ \A s \in Shims : \A j \in DOMAIN shims[s].got : shims[s].got[j] <= Len(messages)
  /\ \A k \in DOMAIN timers : timers[k].type = "message" => timers[k].n <= Len(messages)

\* MessagesInOrder, for one shim.
GotInOrder(s)  == \A j, k \in DOMAIN shims[s].got : j < k => shims[s].got[j] < shims[s].got[k]
GotFirst(s)    == \A j \in DOMAIN shims[s].got, k \in Coming(s) : shims[s].got[j] < timers[k].n
ComeInOrder(s) == \A j, k \in Coming(s) : j < k => timers[j].n < timers[k].n
Reached(s, n)  == n \in ToSet(shims[s].got) \/ \E k \in Coming(s) : timers[k].n = n
NoneLost(s)    == \A n \in DOMAIN messages : s \in messages[n].held /\ s \notin displaced => Reached(s, n)
InOrder(s)     == GotInOrder(s) /\ GotFirst(s) /\ ComeInOrder(s) /\ NoneLost(s)

MessagesInv == HeldShims /\ Numbers /\ \A s \in Shims : InOrder(s)

\* The history of messages has a length, and the numbers are numbers.
LEMMA MessageTypes ==
  ASSUME IInv
  PROVE  /\ Len(messages) \in Nat /\ DOMAIN messages = 1..Len(messages)
         /\ \A k \in DOMAIN timers : timers[k].n \in Nat
         /\ \A s \in Shims : /\ Len(shims[s].got) \in Nat /\ DOMAIN shims[s].got = 1..Len(shims[s].got)
                             /\ \A j \in DOMAIN shims[s].got : shims[s].got[j] \in Nat
<1>1. Len(messages) \in Nat /\ DOMAIN messages = 1..Len(messages)
  BY LenProperties DEF IInv, Types
<1>2. \A k \in DOMAIN timers : timers[k].n \in Nat
  BY ShimTypes DEF TimerRecord
<1>3. \A s \in Shims : shims[s].got \in Seq(Nat)
  BY ShimTypes
<1> QED BY <1>1, <1>2, <1>3, LenProperties

\* A step that brings no message, nor takes one: the shims that were there got what they had, and
\* the messages on their way are the same, perhaps at other places.
LEMMA NoMessage ==
  ASSUME IInv, MessagesInv, messages' = messages, displaced \subseteq displaced', Shims \subseteq Shims',
         \A s \in Shims : shims'[s].got = shims[s].got,
         \A s \in Shims' \ Shims : shims'[s].got = <<>>,
         NEW from, \A j \in DOMAIN timers' : timers'[j].type = "message" =>
                     from[j] \in DOMAIN timers /\ timers'[j] = timers[from[j]],
         \A i, j \in DOMAIN timers' : timers'[i].type = "message" /\ timers'[j].type = "message" /\ i < j
                     => from[i] < from[j],
         \A k \in DOMAIN timers : timers[k].type = "message" =>
                     \E j \in DOMAIN timers' : timers'[j] = timers[k]
  PROVE  MessagesInv'
<1>1. \A s : \A j \in Coming(s)' : from[j] \in Coming(s) /\ timers'[j] = timers[from[j]]
  BY DEF Coming
<1>2. \A s : \A k \in Coming(s) : \E j \in Coming(s)' : timers'[j] = timers[k]
  BY DEF Coming
<1>3. \A s : \A i, j \in Coming(s)' : i < j => from[i] < from[j]
  BY DEF Coming
<1>4. HeldShims'
  BY DEF MessagesInv, HeldShims
<1>5. Numbers'
  <2>1. \A s \in Shims' : \A j \in DOMAIN shims'[s].got : shims'[s].got[j] <= Len(messages')
    <3>1. \A s \in Shims : \A j \in DOMAIN shims'[s].got : shims'[s].got[j] <= Len(messages')
      BY DEF MessagesInv, Numbers
    <3>2. \A s \in Shims' \ Shims : DOMAIN shims'[s].got = {}
      OBVIOUS
    <3> QED BY <3>1, <3>2
  <2>2. \A k \in DOMAIN timers' : timers'[k].type = "message" => timers'[k].n <= Len(messages')
    BY DEF MessagesInv, Numbers
  <2> QED BY <2>1, <2>2 DEF Numbers
<1>6. ASSUME NEW s \in Shims PROVE InOrder(s)'
  <2>1. shims'[s].got = shims[s].got /\ InOrder(s)
    BY DEF MessagesInv
  <2>2. GotInOrder(s)'
    BY <2>1 DEF InOrder, GotInOrder
  <2>3. GotFirst(s)'
    BY <1>1, <2>1 DEF InOrder, GotFirst
  <2>4. ComeInOrder(s)'
    BY <1>1, <1>3, <2>1 DEF InOrder, ComeInOrder
  <2>5. \A n : Reached(s, n) => Reached(s, n)'
    BY <1>2, <2>1 DEF Reached
  <2>6. NoneLost(s)'
    BY <2>1, <2>5 DEF InOrder, NoneLost
  <2> QED BY <2>2, <2>3, <2>4, <2>6 DEF InOrder
<1>7. ASSUME NEW s \in Shims' \ Shims PROVE InOrder(s)'
  <2>1. DOMAIN shims'[s].got = {}
    OBVIOUS
  <2>2. \A k \in DOMAIN timers : timers[k].shim \in Shims
    BY ShimTypes
  <2>3. Coming(s)' = {}
    BY <2>2 DEF Coming
  <2>4. \A n \in DOMAIN messages' : s \notin messages'[n].held
    BY DEF MessagesInv, HeldShims
  <2> QED BY <2>1, <2>3, <2>4 DEF InOrder, GotInOrder, GotFirst, ComeInOrder, NoneLost
<1> QED BY <1>4, <1>5, <1>6, <1>7 DEF MessagesInv

\* What is there now was there before, or is the new one.
LEMMA AppendAdds ==
  ASSUME NEW S, NEW q \in Seq(S), NEW e
  PROVE  \A j \in DOMAIN Append(q, e) : j \in DOMAIN q \/ Append(q, e)[j] = e
<1> DEFINE T == S \cup {e}
<1>1. q \in Seq(T) /\ e \in T
  OBVIOUS
<1> HIDE DEF T
<1>2. /\ DOMAIN q = 1..Len(q) /\ Len(q) \in Nat /\ DOMAIN Append(q, e) = 1..(Len(q) + 1)
      /\ Append(q, e)[Len(q) + 1] = e
  BY <1>1, AppendProperties, LenProperties
<1> QED BY <1>2

\* A timer more, which is for another event.
LEMMA OtherTimer ==
  ASSUME IInv, MessagesInv, messages' = messages, displaced \subseteq displaced', Shims \subseteq Shims',
         \A s \in Shims : shims'[s].got = shims[s].got,
         \A s \in Shims' \ Shims : shims'[s].got = <<>>,
         timers' = timers \/ \E t : timers' = Append(timers, t) /\ t.type # "message"
  PROVE  MessagesInv'
<1> DEFINE from == [j \in DOMAIN timers |-> j]
<1>1. timers \in Seq(TimerRecord(Len(shims))) /\ Len(timers) \in Nat /\ DOMAIN timers = 1..Len(timers)
  BY ShimTypes
<1>2. /\ \A j \in DOMAIN timers : j \in DOMAIN timers' /\ timers'[j] = timers[j]
      /\ \A j \in DOMAIN timers' : timers'[j].type = "message" => j \in DOMAIN timers
  <2>1. CASE timers' = timers
    BY <2>1
  <2>2. ASSUME NEW t, timers' = Append(timers, t), t.type # "message"
        PROVE  /\ \A j \in DOMAIN timers : j \in DOMAIN timers' /\ timers'[j] = timers[j]
               /\ \A j \in DOMAIN timers' : timers'[j].type = "message" => j \in DOMAIN timers
    <3>1. \A k \in DOMAIN timers : k \in DOMAIN timers' /\ timers'[k] = timers[k]
      BY <1>1, <2>2, AppendKeeps
    <3>2. \A j \in DOMAIN timers' : j \in DOMAIN timers \/ timers'[j] = t
      BY <1>1, <2>2, AppendAdds
    <3> QED BY <2>2, <3>1, <3>2
  <2> QED BY <2>1, <2>2
<1>3. \A j \in DOMAIN timers : from[j] = j
  OBVIOUS
<1> HIDE DEF from
<1>4. \A j \in DOMAIN timers' : timers'[j].type = "message" =>
        from[j] \in DOMAIN timers /\ timers'[j] = timers[from[j]]
  BY <1>2, <1>3
<1>5. \A i, j \in DOMAIN timers' : timers'[i].type = "message" /\ timers'[j].type = "message" /\ i < j
        => from[i] < from[j]
  BY <1>2, <1>3
<1>6. \A k \in DOMAIN timers : timers[k].type = "message" => \E j \in DOMAIN timers' : timers'[j] = timers[k]
  BY <1>2
<1> QED BY <1>4, <1>5, <1>6, NoMessage

\* case "message": the last timer has the highest number; who holds the shim that is not
\* displaced holds the one it goes to.
LEMMA MessageOrdered ==
  ASSUME IInv, PeersInv, MessagesInv, NEW i \in Ids, ReceiveMessage(i)
  PROVE  MessagesInv'
<1> DEFINE N == Len(messages) + 1
           m == [from |-> i, held |-> {s \in ToSet(peers) : shims[s].id = i}]
           t == Timer(1, p2p[i], "message", N, "none")
           last == Len(timers) + 1
<1>1. messages' = Append(messages, m) /\ UNCHANGED <<shims, displaced>> /\ Shims' = Shims
  BY DEF ReceiveMessage, Shims
<1>2. /\ Len(messages) \in Nat /\ DOMAIN messages = 1..Len(messages)
      /\ \A k \in DOMAIN timers : timers[k].n \in Nat
      /\ \A s \in Shims : \A j \in DOMAIN shims[s].got : shims[s].got[j] \in Nat
  BY MessageTypes
<1>3. /\ timers \in Seq(TimerRecord(Len(shims))) /\ Len(timers) \in Nat /\ DOMAIN timers = 1..Len(timers)
      /\ p2p \in [Ids -> 0..Len(shims)] /\ Len(shims) \in Nat /\ Shims = 1..Len(shims)
  BY ShimTypes
<1>4. \A s \in ToSet(peers) : s \in Shims
  BY <1>3 DEF PeersInv, PeerTypes, ToSet
<1>5. m.held \subseteq Shims /\ \A s \in m.held : s \notin displaced => p2p[i] = s /\ p2p[i] # 0
  BY <1>3, <1>4 DEF PeersInv, Listed
<1>6. t.type = "message" /\ t.shim = p2p[i] /\ t.n = N
  BY DEF Timer
<1> HIDE DEF m, t
<1>7. /\ Len(messages') = N /\ DOMAIN messages' = 1..N /\ messages'[N] = m
      /\ \A n \in DOMAIN messages : messages'[n] = messages[n]
  <2>1. messages \in Seq(ToSet(messages))
    BY DEF IInv, Types
  <2>2. \A n \in DOMAIN messages : n \in DOMAIN messages' /\ messages'[n] = messages[n]
    BY <1>1, <2>1, AppendKeeps
  <2> QED BY <1>1, <1>2, <2>1, <2>2
<1>8. N \in Nat /\ Len(messages) < N /\ \A n \in DOMAIN messages' : n \in DOMAIN messages \/ n = N
  BY <1>2, <1>7
<1>9. /\ last \notin DOMAIN timers /\ last \in Nat
      /\ \A k \in DOMAIN timers : k < last
      /\ \A k \in DOMAIN timers : k \in DOMAIN timers' /\ timers'[k] = timers[k]
      /\ \A k \in DOMAIN timers' : k \in DOMAIN timers \/ (k = last /\ timers'[k] = t /\ p2p[i] # 0)
      /\ p2p[i] # 0 => last \in DOMAIN timers' /\ timers'[last] = t
  <2>1. CASE timers' = timers /\ p2p[i] = 0
    BY <1>3, <2>1
  <2>2. CASE timers' = Append(timers, t) /\ p2p[i] # 0
    <3>1. \A k \in DOMAIN timers : k \in DOMAIN timers' /\ timers'[k] = timers[k]
      BY <1>3, <2>2, AppendKeeps
    <3>2. DOMAIN timers' = 1..last /\ timers'[last] = t
      BY <1>3, <2>2
    <3> QED BY <1>3, <2>2, <3>1, <3>2
  <2> QED BY <2>1, <2>2 DEF ReceiveMessage, HandleEvent, t
<1> HIDE DEF last
<1>10. HeldShims'
  BY <1>1, <1>5, <1>7, <1>8 DEF MessagesInv, HeldShims
<1>11. /\ \A s \in Shims : \A j \in DOMAIN shims[s].got : shims[s].got[j] < N
       /\ \A k \in DOMAIN timers : timers[k].type = "message" => timers[k].n < N
  BY <1>2, <1>8 DEF MessagesInv, Numbers
<1>12. Numbers'
  <2>1. \A s \in Shims' : \A j \in DOMAIN shims'[s].got : shims'[s].got[j] <= N
    BY <1>1, <1>2, <1>8, <1>11
  <2>2. \A k \in DOMAIN timers' : timers'[k].type = "message" => timers'[k].n <= N
    BY <1>2, <1>6, <1>8, <1>9, <1>11
  <2> QED BY <1>7, <2>1, <2>2 DEF Numbers
<1> HIDE DEF N
<1>13. ASSUME NEW s \in Shims PROVE InOrder(s)'
  <2>1. shims'[s].got = shims[s].got /\ InOrder(s)
    BY <1>1 DEF MessagesInv
  <2>2. /\ \A k \in Coming(s)' : \/ k \in Coming(s) /\ timers'[k] = timers[k] /\ k < last
                                 \/ k = last /\ timers'[k].n = N
        /\ \A k \in Coming(s) : k \in Coming(s)' /\ timers'[k] = timers[k] /\ timers[k].n < N /\ k \in Nat
        /\ p2p[i] = s /\ s # 0 => last \in Coming(s)' /\ timers'[last].n = N
    BY <1>3, <1>6, <1>9, <1>11 DEF Coming
  <2>3. GotInOrder(s)'
    BY <2>1 DEF InOrder, GotInOrder
  <2>4. GotFirst(s)'
    BY <1>11, <2>1, <2>2 DEF InOrder, GotFirst
  <2>5. ComeInOrder(s)'
    <3> SUFFICES ASSUME NEW j \in Coming(s)', NEW k \in Coming(s)', j < k PROVE timers'[j].n < timers'[k].n
      BY DEF ComeInOrder
    <3>1. CASE k \in Coming(s) /\ k < last
      <4>1. j \in Coming(s)
        BY <1>9, <2>2, <3>1
      <4> QED BY <2>1, <2>2, <3>1, <4>1 DEF InOrder, ComeInOrder
    <3>2. CASE k = last /\ timers'[k].n = N
      <4>1. j \in Coming(s)
        <5>1. j # last
          BY <1>9, <3>2
        <5> QED BY <2>2, <5>1
      <4> QED BY <2>2, <3>2, <4>1
    <3> QED BY <2>2, <3>1, <3>2
  <2>6. NoneLost(s)'
    <3> SUFFICES ASSUME NEW n \in DOMAIN messages', s \in messages'[n].held, s \notin displaced
                 PROVE  Reached(s, n)'
      BY <1>1 DEF NoneLost
    <3>1. CASE n \in DOMAIN messages
      <4>1. Reached(s, n)
        BY <1>7, <2>1, <3>1 DEF InOrder, NoneLost
      <4> QED BY <2>1, <2>2, <4>1 DEF Reached
    <3>2. CASE n = N
      BY <1>5, <1>7, <2>2, <3>2 DEF Reached
    <3> QED BY <1>8, <3>1, <3>2
  <2> QED BY <2>3, <2>4, <2>5, <2>6 DEF InOrder
<1> QED BY <1>1, <1>10, <1>12, <1>13 DEF MessagesInv

\* What firing timer k does to the timers.
Fired(k, tail) ==
  /\ Len(tail) \in {0, 1} /\ CameFrom(timers, k, tail, timers')
  /\ Len(tail) = 1 => /\ tail[1].type # "message" /\ timers[k].type # "message"
                      /\ tail[1].shim = timers[k].shim
                      /\ tail[1].at = "root" <=> timers[k].at = "root"
                      /\ timers[k].type # "close"
  /\ Len(tail) = 0 => EventTimer(k) /\ timers[k].type \in {"open", "message", "close"}

LEMMA FireMoves ==
  ASSUME IInv, NEW k \in DOMAIN timers, OpenTimer(k) \/ EventTimer(k)
  PROVE  \E tail : Fired(k, tail)
<1> DEFINE S == TimerRecord(Len(shims))
           t == timers[k]
           q == RemoveAt(timers, k)
           u == Timer(1, t.shim, "open", 0, "none")
           c == Timer(1, t.shim, "close", 0, t.at)
<1>1. timers \in Seq(S) /\ t \in S /\ Len(shims) \in Nat
  BY ShimTypes
<1>2. /\ t.type \in Kinds /\ t.delay \in {1, 200} /\ t.shim \in 1..Len(shims)
      /\ t.at \in {"none", "root", "control"}
      /\ (t.delay = 200 => t.type = "open") /\ (t.at = "root" => t.type \in {"closing", "close"})
  BY <1>1 DEF TimerRecord
<1>3. /\ u \in S /\ u.type = "open" /\ u.shim = t.shim /\ u.at = "none"
      /\ c \in S /\ c.type = "close" /\ c.shim = t.shim /\ c.at = t.at
  BY <1>1, <1>2 DEF TimerRecord, Timer, Kinds
<1>4. q \in Seq(S)
  BY <1>1, RemoveAtParts
<1> HIDE DEF S, u, c
<1>5. CASE OpenTimer(k)
  <2>1. timers' = Append(q, u) /\ t.delay = 200
    BY <1>5 DEF OpenTimer, u
  <2>2. timers' = q \o <<u>> /\ <<u>> \in Seq(S) /\ Len(<<u>>) = 1 /\ <<u>>[1] = u
    <3> HIDE DEF q
    <3> QED BY <1>3, <1>4, <2>1, AppendIsConcat
  <2>3. CameFrom(timers, k, <<u>>, timers')
    BY <1>1, <2>2, Moved
  <2>4. Fired(k, <<u>>)
    BY <1>2, <1>3, <2>1, <2>2, <2>3 DEF Fired
  <2> QED BY <2>4
<1>6. CASE EventTimer(k) /\ t.type = "closing"
  <2>1. timers' = q \o <<c>> /\ <<c>> \in Seq(S) /\ Len(<<c>>) = 1 /\ <<c>>[1] = c
    BY <1>3, <1>6 DEF EventTimer, c
  <2>2. CameFrom(timers, k, <<c>>, timers')
    BY <1>1, <2>1, Moved
  <2>3. Fired(k, <<c>>)
    BY <1>3, <1>6, <2>1, <2>2 DEF Fired
  <2> QED BY <2>3
<1>7. CASE EventTimer(k) /\ t.type # "closing"
  <2>1. timers' = q \o <<>> /\ <<>> \in Seq(S) /\ Len(<<>>) = 0
    BY <1>7 DEF EventTimer
  <2>2. CameFrom(timers, k, <<>>, timers')
    BY <1>1, <2>1, Moved
  <2>3. Fired(k, <<>>)
    BY <1>2, <1>7, <2>1, <2>2 DEF Fired, Kinds
  <2> QED BY <2>3
<1> QED BY <1>2, <1>5, <1>6, <1>7

\* A message that is dispatched was first among those of its shim.
LEMMA EventOrdered ==
  ASSUME IInv, MessagesInv, NEW k \in DOMAIN timers, EventTimer(k), timers[k].type = "message"
  PROVE  MessagesInv'
<1>0. PICK x \in Shims, n \in Nat : x = timers[k].shim /\ n = timers[k].n
  BY ShimTypes, MessageTypes
<1>1. PICK tail : Fired(k, tail)
  BY FireMoves
<1>2. PICK from \in [DOMAIN timers' -> DOMAIN timers] :
        /\ \A i, j \in DOMAIN timers' : i < j /\ from[j] # k => from[i] < from[j]
        /\ \A m \in DOMAIN timers : m # k => \E i \in DOMAIN timers' : from[i] = m
        /\ \A j \in DOMAIN timers' : timers'[j] = timers[from[j]] /\ from[j] # k
  BY <1>1 DEF Fired, CameFrom
<1>3. /\ Shims' = Shims /\ x \in Shims
      /\ \A s \in Shims : s # x => shims'[s].got = shims[s].got
      /\ shims'[x].got = Append(shims[x].got, n)
  BY <1>0, FireChanges
<1>4. UNCHANGED <<messages, displaced>>
  BY DEF EventTimer
<1>5. /\ Len(shims[x].got) \in Nat /\ DOMAIN shims[x].got = 1..Len(shims[x].got)
      /\ shims[x].got \in Seq(Nat) /\ n \in Nat /\ DOMAIN timers \subseteq Nat
  BY <1>0, MessageTypes, ShimTypes
<1>6. \A j \in DOMAIN timers : timers[j].type = "message" => j >= k
  <2> SUFFICES ASSUME NEW j \in DOMAIN timers, timers[j].type = "message", ~(j >= k) PROVE FALSE
    OBVIOUS
  <2>1. j \in 1..(k - 1) /\ timers[j] \in TimerRecord(Len(shims))
    BY ShimTypes
  <2>2. timers[j].delay = 1
    BY <2>1 DEF TimerRecord
  <2> QED BY <2>1, <2>2 DEF EventTimer, Due
<1>7. /\ \A s : \A j \in Coming(s)' : from[j] \in Coming(s) /\ timers'[j] = timers[from[j]] /\ from[j] # k
      /\ \A s : \A m \in Coming(s) : m # k => \E j \in Coming(s)' : timers'[j] = timers[m]
      /\ \A s : \A i, j \in Coming(s)' : i < j => from[i] < from[j]
  <2>1. \A s : \A j \in Coming(s)' : from[j] \in Coming(s) /\ timers'[j] = timers[from[j]] /\ from[j] # k
    BY <1>2 DEF Coming
  <2>2. ASSUME NEW s, NEW m \in Coming(s), m # k PROVE \E j \in Coming(s)' : timers'[j] = timers[m]
    <3>1. PICK j \in DOMAIN timers' : from[j] = m
      BY <1>2, <2>2 DEF Coming
    <3>2. timers'[j] = timers[m] /\ j \in Coming(s)'
      BY <1>2, <2>2, <3>1 DEF Coming
    <3> QED BY <3>2
  <2>3. \A s : \A i, j \in Coming(s)' : i < j => from[i] < from[j]
    BY <1>2 DEF Coming
  <2> QED BY <2>1, <2>2, <2>3
<1>8. k \in Coming(x) /\ timers[k].n = n /\ \A s : k \in Coming(s) => s = x
  BY <1>0 DEF Coming
<1>9. HeldShims'
  BY <1>3, <1>4 DEF MessagesInv, HeldShims
<1> DEFINE g == shims[x].got
           r == shims'[x].got
           l == Len(g) + 1
<1>10. /\ DOMAIN g = 1..Len(g) /\ DOMAIN r = 1..l /\ r[l] = n /\ Len(g) \in Nat
       /\ \A j \in DOMAIN g : j \in DOMAIN r /\ r[j] = g[j]
       /\ \A j \in DOMAIN r : j \in DOMAIN g \/ j = l
  <2>1. r = Append(g, n) /\ g \in Seq(Nat) /\ n \in Nat /\ Len(g) \in Nat /\ DOMAIN g = 1..Len(g)
    BY <1>3, <1>5
  <2> HIDE DEF r, g
  <2>2. DOMAIN r = 1..l /\ r[l] = n /\ \A j \in DOMAIN g : r[j] = g[j]
    BY <2>1, AppendProperties
  <2> QED BY <2>1, <2>2
<1> HIDE DEF l
<1>11. Numbers'
  <2>1. n <= Len(messages) /\ \A j \in DOMAIN g : g[j] <= Len(messages)
    BY <1>3, <1>8 DEF MessagesInv, Numbers, Coming
  <2>2. \A s \in Shims' : \A j \in DOMAIN shims'[s].got : shims'[s].got[j] <= Len(messages')
    <3> SUFFICES ASSUME NEW s \in Shims, NEW j \in DOMAIN shims'[s].got PROVE shims'[s].got[j] <= Len(messages)
      BY <1>3, <1>4
    <3>1. CASE s = x
      BY <1>10, <2>1, <3>1
    <3>2. CASE s # x
      BY <1>3, <3>2 DEF MessagesInv, Numbers
    <3> QED BY <3>1, <3>2
  <2>3. \A j \in DOMAIN timers' : timers'[j].type = "message" => timers'[j].n <= Len(messages')
    BY <1>2, <1>4 DEF MessagesInv, Numbers
  <2> QED BY <2>2, <2>3 DEF Numbers
<1>12. ASSUME NEW s \in Shims, s # x PROVE InOrder(s)'
  <2>1. shims'[s].got = shims[s].got /\ InOrder(s) /\ k \notin Coming(s)
    BY <1>3, <1>8, <1>12 DEF MessagesInv
  <2>2. GotInOrder(s)' /\ GotFirst(s)'
    BY <1>7, <2>1 DEF InOrder, GotInOrder, GotFirst
  <2>3. ComeInOrder(s)'
    BY <1>7, <2>1 DEF InOrder, ComeInOrder
  <2>4. \A m : Reached(s, m) => Reached(s, m)'
    BY <1>7, <2>1 DEF Reached
  <2>5. NoneLost(s)'
    BY <1>4, <2>1, <2>4 DEF InOrder, NoneLost
  <2> QED BY <2>2, <2>3, <2>5 DEF InOrder
<1>13. InOrder(x)'
  <2>1. InOrder(x)
    BY <1>3 DEF MessagesInv
  <2>2. \A j \in Coming(x)' : n < timers'[j].n
    <3> SUFFICES ASSUME NEW j \in Coming(x)' PROVE n < timers'[j].n
      OBVIOUS
    <3>1. from[j] \in Coming(x) /\ timers'[j] = timers[from[j]] /\ from[j] # k
      BY <1>7
    <3>2. k < from[j]
      BY <1>5, <1>6, <3>1 DEF Coming
    <3> QED BY <1>8, <2>1, <3>1, <3>2 DEF InOrder, ComeInOrder
  <2>3. \A j \in DOMAIN g : g[j] < n
    BY <1>8, <2>1 DEF InOrder, GotFirst
  <2>4. GotInOrder(x)'
    <3> SUFFICES ASSUME NEW i \in DOMAIN r, NEW j \in DOMAIN r, i < j PROVE r[i] < r[j]
      BY DEF GotInOrder
    <3>1. i \in DOMAIN g
      BY <1>10 DEF l
    <3>2. CASE j \in DOMAIN g
      BY <1>10, <2>1, <3>1, <3>2 DEF InOrder, GotInOrder
    <3>3. CASE j = l
      BY <1>10, <2>3, <3>1, <3>3
    <3> QED BY <1>10, <3>2, <3>3
  <2>5. GotFirst(x)'
    <3> SUFFICES ASSUME NEW i \in DOMAIN r, NEW j \in Coming(x)' PROVE r[i] < timers'[j].n
      BY DEF GotFirst
    <3>1. CASE i \in DOMAIN g
      BY <1>7, <1>10, <2>1, <3>1 DEF InOrder, GotFirst
    <3>2. CASE i = l
      BY <1>10, <2>2, <3>2
    <3> QED BY <1>10, <3>1, <3>2
  <2>6. ComeInOrder(x)'
    BY <1>7, <2>1 DEF InOrder, ComeInOrder
  <2>7. ASSUME NEW m, Reached(x, m) PROVE Reached(x, m)'
    <3>1. CASE m \in ToSet(g)
      BY <1>10, <3>1 DEF Reached, ToSet
    <3>2. ASSUME NEW j \in Coming(x), timers[j].n = m, j # k PROVE Reached(x, m)'
      BY <1>7, <3>2 DEF Reached
    <3>3. CASE n = m
      <4>1. l \in DOMAIN r /\ r[l] = m
        BY <1>10, <3>3 DEF l
      <4> QED BY <4>1 DEF Reached, ToSet
    <3> QED BY <1>8, <2>7, <3>1, <3>2, <3>3 DEF Reached
  <2>8. NoneLost(x)'
    BY <1>4, <2>1, <2>7 DEF InOrder, NoneLost
  <2> QED BY <2>4, <2>5, <2>6, <2>8 DEF InOrder
<1> QED BY <1>3, <1>9, <1>11, <1>12, <1>13 DEF MessagesInv

\* Another timer that fires leaves the messages in their order.
LEMMA FireOrdered ==
  ASSUME IInv, MessagesInv, NEW k \in DOMAIN timers, OpenTimer(k) \/ EventTimer(k)
  PROVE  MessagesInv'
<1>1. PICK tail : Fired(k, tail)
  BY FireMoves
<1>2. CASE timers[k].type = "message" /\ EventTimer(k)
  BY <1>2, EventOrdered
<1>3. CASE timers[k].type # "message"
  <2>1. PICK from \in [DOMAIN timers' -> DOMAIN timers] :
          /\ \A i, j \in DOMAIN timers' : i < j /\ from[j] # k => from[i] < from[j]
          /\ \A m \in DOMAIN timers : m # k => \E i \in DOMAIN timers' : from[i] = m
          /\ \A j \in DOMAIN timers' : \/ timers'[j] = timers[from[j]] /\ from[j] # k
                                       \/ timers'[j].type # "message" /\ from[j] = k
    BY <1>1 DEF Fired, CameFrom
  <2>2. /\ Shims' = Shims /\ \A s \in Shims : shims'[s].got = shims[s].got
    BY <1>3, FireChanges
  <2>3. UNCHANGED <<messages, displaced>>
    BY DEF OpenTimer, EventTimer
  <2>4. \A j \in DOMAIN timers' : timers'[j].type = "message" =>
          from[j] \in DOMAIN timers /\ timers'[j] = timers[from[j]] /\ from[j] # k
    BY <2>1
  <2>5. \A i, j \in DOMAIN timers' : timers'[i].type = "message" /\ timers'[j].type = "message" /\ i < j
          => from[i] < from[j]
    BY <2>1, <2>4
  <2>6. ASSUME NEW m \in DOMAIN timers, timers[m].type = "message"
        PROVE  \E j \in DOMAIN timers' : timers'[j] = timers[m]
    <3>1. PICK j \in DOMAIN timers' : from[j] = m
      BY <1>3, <2>1, <2>6
    <3> QED BY <1>3, <2>1, <2>6, <3>1
  <2> QED BY <2>2, <2>3, <2>4, <2>5, <2>6, NoMessage
<1>4. timers[k].type = "message" => ~OpenTimer(k)
  <2>1. timers[k] \in TimerRecord(Len(shims))
    BY ShimTypes
  <2> QED BY <2>1 DEF TimerRecord, OpenTimer
<1> QED BY <1>2, <1>3, <1>4

\* Every step keeps the messages in order.
LEMMA StepKeepsMessages == ASSUME IInv, PeersInv, MessagesInv, [Next]_vars PROVE MessagesInv'
<1>1. ASSUME NEW i \in Ids, ReceiveConnect(i) PROVE MessagesInv'
  <2>1. /\ Shims' = Shims \cup {Len(shims) + 1}
        /\ \A s \in Shims : shims'[s] = shims[s]
        /\ shims'[Len(shims) + 1].got = <<>>
    BY <1>1, ConnectAdds
  <2>2. /\ messages' = messages /\ displaced \subseteq displaced'
        /\ timers' = timers \/ \E t : timers' = Append(timers, t) /\ t.type # "message"
    <3>1. Timer(200, Len(shims) + 1, "open", 0, "none").type # "message"
      BY DEF Timer
    <3> QED BY <1>1, <3>1 DEF ReceiveConnect
  <2> QED BY <2>1, <2>2, OtherTimer
<1>2. ASSUME NEW i \in Ids, ReceiveDisconnect(i) PROVE MessagesInv'
  <2>1. /\ UNCHANGED <<shims, messages, displaced>>
        /\ timers' = Append(timers, Timer(1, p2p[i], "closing", 0, "root"))
    BY <1>2 DEF ReceiveDisconnect, DoClose, HandleEvent
  <2>2. Timer(1, p2p[i], "closing", 0, "root").type # "message"
    BY DEF Timer
  <2> QED BY <2>1, <2>2, OtherTimer DEF Shims
<1>3. ASSUME NEW i \in Ids, ReceiveMessage(i) PROVE MessagesInv'
  BY <1>3, MessageOrdered
<1>4. ASSUME NEW s \in Shims, Close(s) PROVE MessagesInv'
  <2>1. /\ UNCHANGED <<shims, messages, displaced>>
        /\ timers' = Append(timers, Timer(1, s, "closing", 0, "control"))
    BY <1>4 DEF Close, DoClose, HandleEvent
  <2>2. Timer(1, s, "closing", 0, "control").type # "message"
    BY DEF Timer
  <2> QED BY <2>1, <2>2, OtherTimer DEF Shims
<1>5. ASSUME NEW k \in DOMAIN timers, OpenTimer(k) \/ EventTimer(k) PROVE MessagesInv'
  BY <1>5, FireOrdered
<1>6. CASE UNCHANGED vars
  <2>1. UNCHANGED <<shims, messages, displaced, timers>>
    BY <1>6 DEF vars
  <2> QED BY <2>1, OtherTimer DEF Shims
<1> QED BY <1>1, <1>2, <1>3, <1>4, <1>5, <1>6 DEF Next, Fire

\* A message received for a peer in the application's list is dispatched at the shim held there,
\* or will be, in the order of reception; lost are only those for a shim that was displaced
\* (namedwebsockets.js, line 116: the timers are first in first out).
THEOREM MessagesKeepOrder == Spec => []MessagesInOrder
<1>1. Init => IInv /\ PeersInv /\ MessagesInv
  <2>1. Init => MessagesInv
    <3> SUFFICES ASSUME Init PROVE MessagesInv
      OBVIOUS
    <3>1. DOMAIN messages = {} /\ DOMAIN timers = {} /\ Shims = {}
      BY DEF Init, Shims
    <3> QED BY <3>1 DEF MessagesInv, HeldShims, Numbers
  <2> QED BY <2>1, InitIInv, InitPeers
<1>2. IInv /\ PeersInv /\ MessagesInv /\ [Next]_vars => (IInv /\ PeersInv /\ MessagesInv)'
  BY StepKeepsIInv, StepKeepsPeers, StepKeepsMessages
<1>3. MessagesInv => MessagesInOrder
  BY DEF MessagesInv, InOrder, GotInOrder, GotFirst, ComeInOrder, NoneLost, Reached, MessagesInOrder
<1> QED BY <1>1, <1>2, <1>3, PTL DEF Spec

-----------------------------------------------------------------------------
(* The root's events, counted.                                             *)

ToldOf(i) == {s \in Shims : shims[s].id = i /\ shims[s].told = 1}
InMap(i) == IF p2p[i] # 0 THEN 1 ELSE 0
Balanced(i) == Told(i) = gone[i] + Cardinality(Ending(i)) + InMap(i)
EventsInv == gone \in [Ids -> Nat] /\ \A i \in Ids : Balanced(i)

\* The application has a shim of an id when the map has.
LEMMA ExistIsInMap ==
  ASSUME IInv, PeersInv, NEW i \in Ids
  PROVE  Exist(i) <=> p2p[i] # 0
<1>1. Exist(i) <=> \E s \in ToSet(peers) : shims[s].id = i
  BY DEF Exist, ToSet
<1> QED BY <1>1 DEF PeersInv, SameIds

\* There are finitely many shims and timers.
LEMMA CountsFinite ==
  ASSUME IInv, NEW i
  PROVE  /\ IsFiniteSet(ToldOf(i)) /\ Told(i) = Cardinality(ToldOf(i)) /\ Told(i) \in Nat
         /\ IsFiniteSet(Ending(i)) /\ Cardinality(Ending(i)) \in Nat
<1>1. Shims = 1..Len(shims) /\ Len(shims) \in Nat /\ DOMAIN timers = 1..Len(timers) /\ Len(timers) \in Nat
  BY ShimTypes
<1>2. IsFiniteSet(Shims) /\ IsFiniteSet(DOMAIN timers)
  BY <1>1, FS_Interval
<1>3. ToldOf(i) \in SUBSET Shims /\ Ending(i) \in SUBSET DOMAIN timers
  BY DEF ToldOf, Ending
<1>4. IsFiniteSet(ToldOf(i)) /\ IsFiniteSet(Ending(i))
  BY <1>2, <1>3, FS_Subset
<1>5. Told(i) = Cardinality(ToldOf(i))
  BY DEF Told, ToldOf
<1> QED BY <1>4, <1>5, FS_CardinalityType

\* The same shims, told the same.
LEMMA ToldStays ==
  ASSUME Shims' = Shims, \A s \in Shims : shims'[s].id = shims[s].id /\ shims'[s].told = shims[s].told,
         NEW i
  PROVE  Told(i)' = Told(i)
<1>1. ToldOf(i)' = ToldOf(i)
  BY DEF ToldOf
<1> QED BY <1>1 DEF Told, ToldOf

\* One timer more, or none.
LEMMA EndingGrows ==
  ASSUME IInv, \A s \in Shims : shims'[s].id = shims[s].id, NEW i, NEW t,
         timers' = Append(timers, t)
  PROVE  Cardinality(Ending(i)') = Cardinality(Ending(i))
                                   + (IF t.at = "root" /\ shims'[t.shim].id = i THEN 1 ELSE 0)
<1> DEFINE n == Len(timers) + 1
<1>1. /\ timers \in Seq(TimerRecord(Len(shims))) /\ Len(timers) \in Nat /\ DOMAIN timers = 1..Len(timers)
      /\ \A k \in DOMAIN timers : timers[k].shim \in Shims
  BY ShimTypes
<1>2. /\ n \notin DOMAIN timers /\ n \in DOMAIN timers' /\ timers'[n] = t
      /\ \A k \in DOMAIN timers' : k \in DOMAIN timers \/ k = n
      /\ \A k \in DOMAIN timers : k \in DOMAIN timers' /\ timers'[k] = timers[k]
  <2>1. \A k \in DOMAIN timers : k \in DOMAIN timers' /\ timers'[k] = timers[k]
    BY <1>1, AppendKeeps
  <2> QED BY <1>1, <2>1
<1> HIDE DEF n
<1>3. \A k : k \in Ending(i)' <=> \/ k \in Ending(i)
                                  \/ k = n /\ t.at = "root" /\ shims'[t.shim].id = i
  BY <1>1, <1>2 DEF Ending
<1>4. n \notin Ending(i)
  BY <1>2 DEF Ending
<1>5. CASE t.at = "root" /\ shims'[t.shim].id = i
  <2>1. Ending(i)' = Ending(i) \cup {n}
    BY <1>3, <1>5
  <2> QED BY <1>4, <1>5, <2>1, CountsFinite, FS_AddElement
<1>6. CASE ~(t.at = "root" /\ shims'[t.shim].id = i)
  <2>1. Ending(i)' = Ending(i)
    BY <1>3, <1>6
  <2> QED BY <1>6, <2>1, CountsFinite
<1> QED BY <1>5, <1>6

\* A timer that fires is followed by another for the same shim, or it was the last of its kind.
LEMMA EndingFires ==
  ASSUME IInv, \A s \in Shims : shims'[s].id = shims[s].id, NEW i,
         NEW k \in DOMAIN timers, NEW tail, Fired(k, tail)
  PROVE  Cardinality(Ending(i)') = Cardinality(Ending(i))
                                   - (IF Len(tail) = 0 /\ k \in Ending(i) THEN 1 ELSE 0)
<1> DEFINE R == Ending(i)'
           T == IF Len(tail) = 0 THEN Ending(i) \ {k} ELSE Ending(i)
<1>1. PICK from \in [DOMAIN timers' -> DOMAIN timers] :
        /\ \A a, b \in DOMAIN timers' : from[a] = from[b] => a = b
        /\ \A m \in DOMAIN timers : m # k \/ Len(tail) = 1 => \E a \in DOMAIN timers' : from[a] = m
        /\ \A a \in DOMAIN timers' : \/ timers'[a] = timers[from[a]] /\ from[a] # k
                                     \/ Len(tail) = 1 /\ timers'[a] = tail[1] /\ from[a] = k
  BY DEF Fired, CameFrom
<1>2. /\ Len(tail) \in {0, 1}
      /\ Len(tail) = 1 => tail[1].shim = timers[k].shim /\ (tail[1].at = "root" <=> timers[k].at = "root")
  BY DEF Fired
<1>3. \A m \in DOMAIN timers : timers[m].shim \in Shims
  BY ShimTypes
<1>4. \A a \in DOMAIN timers' : /\ timers'[a].shim = timers[from[a]].shim
                                /\ timers'[a].at = "root" <=> timers[from[a]].at = "root"
  BY <1>1, <1>2
<1>5. \A a \in DOMAIN timers' : a \in R <=> from[a] \in Ending(i)
  BY <1>1, <1>3, <1>4 DEF Ending
<1>6. R \subseteq DOMAIN timers' /\ Ending(i) \subseteq DOMAIN timers
  BY DEF Ending
<1> HIDE DEF R
<1> DEFINE f == [a \in R |-> from[a]]
<1>7. f \in Injection(R, T) /\ f \in Surjection(R, T)
  <2>1. \A a \in R : f[a] \in T
    BY <1>1, <1>2, <1>5, <1>6
  <2>2. \A a, b \in R : f[a] = f[b] => a = b
    BY <1>1, <1>6
  <2>3. ASSUME NEW m \in T PROVE \E a \in R : f[a] = m
    <3>1. m \in Ending(i) /\ (m # k \/ Len(tail) = 1)
      BY <1>2
    <3>2. PICK a \in DOMAIN timers' : from[a] = m
      BY <1>1, <1>6, <3>1
    <3> QED BY <1>5, <3>1, <3>2
  <2>4. f \in [R -> T]
    BY <2>1
  <2> QED BY <2>2, <2>3, <2>4 DEF Injection, Surjection, IsInjective
<1> HIDE DEF f
<1>8. IsFiniteSet(Ending(i)) /\ Cardinality(Ending(i)) \in Nat
  BY CountsFinite
<1>9. IsFiniteSet(T) /\ Cardinality(T) = Cardinality(Ending(i)) - (IF Len(tail) = 0 /\ k \in Ending(i) THEN 1 ELSE 0)
  <2>1. CASE Len(tail) = 0
    BY <1>8, <2>1, FS_RemoveElement
  <2>2. CASE Len(tail) # 0
    BY <1>8, <2>2
  <2> QED BY <2>1, <2>2
<1> HIDE DEF T
<1>10. Cardinality(R) = Cardinality(T)
  BY <1>7, <1>9, FS_Injection
<1> QED BY <1>9, <1>10 DEF R

\* case "connect": the first of an id is told, a second is not.
LEMMA ConnectBalanced ==
  ASSUME IInv, PeersInv, EventsInv, NEW i \in Ids, ReceiveConnect(i)
  PROVE  EventsInv'
<1> DEFINE n == Len(shims) + 1
           t == Timer(200, n, "open", 0, "none")
<1>1. /\ Shims' = Shims \cup {n} /\ n \notin Shims
      /\ \A s \in Shims : shims'[s] = shims[s]
      /\ shims'[n].id = i /\ shims'[n].told = IF Exist(i) THEN 0 ELSE 1
  BY ConnectAdds
<1>2. /\ p2p' = [p2p EXCEPT ![i] = n] /\ gone' = gone
      /\ (timers' = timers \/ timers' = Append(timers, t))
  BY DEF ReceiveConnect
<1>3. n # 0 /\ p2p \in [Ids -> 0..Len(shims)] /\ \A k \in DOMAIN timers : timers[k].shim \in Shims
  BY ShimTypes
<1>4. t.at = "none"
  BY DEF Timer
<1> HIDE DEF n, t
<1>5. ASSUME NEW j \in Ids PROVE Balanced(j)'
  <2>1. Cardinality(Ending(j)') = Cardinality(Ending(j))
    <3>1. CASE timers' = timers
      <4>1. Ending(j)' = Ending(j)
        BY <1>1, <1>3, <3>1 DEF Ending
      <4> QED BY <4>1
    <3>2. CASE timers' = Append(timers, t)
      BY <1>1, <1>4, <3>2, EndingGrows, CountsFinite
    <3> QED BY <1>2, <3>1, <3>2
  <2>2. /\ IsFiniteSet(ToldOf(j)) /\ Told(j) = Cardinality(ToldOf(j)) /\ Told(j) \in Nat
        /\ Cardinality(Ending(j)) \in Nat
    BY CountsFinite
  <2>3. Balanced(j) /\ gone[j] \in Nat
    BY DEF EventsInv
  <2>4. n \notin ToldOf(j)
    BY <1>1 DEF ToldOf
  <2>5. CASE j = i /\ ~Exist(i)
    <3>1. ToldOf(j)' = ToldOf(j) \cup {n}
      BY <1>1, <2>5 DEF ToldOf
    <3>2. Told(j)' = Told(j) + 1
      BY <2>2, <2>4, <3>1, FS_AddElement DEF Told, ToldOf
    <3>3. InMap(j) = 0 /\ InMap(j)' = 1
      BY <1>2, <1>3, <2>5, ExistIsInMap DEF InMap
    <3> QED BY <1>2, <2>1, <2>2, <2>3, <3>2, <3>3 DEF Balanced
  <2>6. CASE ~(j = i /\ ~Exist(i))
    <3>1. ToldOf(j)' = ToldOf(j)
      BY <1>1, <2>6 DEF ToldOf
    <3>2. Told(j)' = Told(j)
      BY <3>1 DEF Told, ToldOf
    <3>3. InMap(j)' = InMap(j)
      BY <1>2, <1>3, <2>6, ExistIsInMap DEF InMap
    <3> QED BY <1>2, <2>1, <2>2, <2>3, <3>2, <3>3 DEF Balanced
  <2> QED BY <2>5, <2>6
<1> QED BY <1>2, <1>5 DEF EventsInv

\* case "disconnect": what was in the map is on its way to the root.
LEMMA DisconnectBalanced ==
  ASSUME IInv, PeersInv, EventsInv, NEW i \in Ids, ReceiveDisconnect(i)
  PROVE  EventsInv'
<1> DEFINE t == Timer(1, p2p[i], "closing", 0, "root")
<1>1. /\ p2p[i] # 0 /\ p2p' = [p2p EXCEPT ![i] = 0] /\ UNCHANGED <<shims, gone>> /\ Shims' = Shims
      /\ timers' = Append(timers, t)
  BY DEF ReceiveDisconnect, DoClose, HandleEvent, Shims
<1>2. t.at = "root" /\ t.shim = p2p[i] /\ shims[p2p[i]].id = i /\ p2p \in [Ids -> 0..Len(shims)]
  BY <1>1, ShimTypes DEF Timer, PeersInv, Entries
<1> HIDE DEF t
<1>3. ASSUME NEW j \in Ids PROVE Balanced(j)'
  <2>1. Cardinality(Ending(j)') = Cardinality(Ending(j)) + (IF j = i THEN 1 ELSE 0)
    BY <1>1, <1>2, EndingGrows
  <2>2. Told(j)' = Told(j)
    BY <1>1, ToldStays
  <2>3. InMap(j)' = InMap(j) - (IF j = i THEN 1 ELSE 0) /\ InMap(j) \in Nat
    BY <1>1, <1>2 DEF InMap
  <2>4. Balanced(j) /\ gone[j] \in Nat /\ Cardinality(Ending(j)) \in Nat
    BY CountsFinite DEF EventsInv
  <2> QED BY <1>1, <2>1, <2>2, <2>3, <2>4 DEF Balanced
<1> QED BY <1>1, <1>3 DEF EventsInv

\* A timer more, whose end the root does not hear.
LEMMA QuietBalanced ==
  ASSUME IInv, EventsInv, UNCHANGED <<shims, p2p, gone>>,
         timers' = timers \/ \E t : timers' = Append(timers, t) /\ t.at # "root"
  PROVE  EventsInv'
<1>1. Shims' = Shims
  BY DEF Shims
<1>2. ASSUME NEW j \in Ids PROVE Balanced(j)'
  <2>1. Told(j)' = Told(j)
    BY <1>1, ToldStays
  <2>2. Cardinality(Ending(j)') = Cardinality(Ending(j))
    <3>1. CASE timers' = timers
      <4>1. Ending(j)' = Ending(j)
        BY <3>1 DEF Ending
      <4> QED BY <4>1
    <3>2. ASSUME NEW t, timers' = Append(timers, t), t.at # "root"
          PROVE  Cardinality(Ending(j)') = Cardinality(Ending(j))
      BY <3>2, EndingGrows, CountsFinite
    <3> QED BY <3>1, <3>2
  <2> QED BY <2>1, <2>2 DEF EventsInv, Balanced, InMap
<1> QED BY <1>2 DEF EventsInv

\* A timer that fires: the root hears of the end of a close, and of no other.
LEMMA FireBalanced ==
  ASSUME IInv, EventsInv, NEW k \in DOMAIN timers, OpenTimer(k) \/ EventTimer(k)
  PROVE  EventsInv'
<1> DEFINE t == timers[k]
           x == shims[t.shim].id
           heard == t.type = "close" /\ t.at = "root"
<1>1. PICK tail : Fired(k, tail)
  BY FireMoves
<1>2. /\ Shims' = Shims
      /\ \A s \in Shims : shims'[s].id = shims[s].id /\ shims'[s].told = shims[s].told
  BY FireChanges
<1>3. /\ t \in TimerRecord(Len(shims)) /\ t.shim \in Shims /\ x \in Ids
  BY ShimTypes
<1>4. /\ t.delay = 200 => t.type = "open"
      /\ t.at = "root" => t.type \in {"closing", "close"}
  BY <1>3 DEF TimerRecord
<1>5. p2p' = p2p /\ gone' = IF heard THEN [gone EXCEPT ![x] = @ + 1] ELSE gone
  BY <1>4 DEF OpenTimer, EventTimer
<1>6. heard <=> Len(tail) = 0 /\ t.at = "root"
  BY <1>1, <1>4 DEF Fired
<1>7. gone \in [Ids -> Nat]
  BY DEF EventsInv
<1>8. ASSUME NEW j \in Ids PROVE Balanced(j)'
  <2>1. Told(j)' = Told(j)
    BY <1>2, ToldStays
  <2>2. Cardinality(Ending(j)') = Cardinality(Ending(j)) - (IF Len(tail) = 0 /\ k \in Ending(j) THEN 1 ELSE 0)
    BY <1>1, <1>2, EndingFires
  <2>3. k \in Ending(j) <=> t.at = "root" /\ x = j
    BY DEF Ending
  <2>4. gone'[j] = gone[j] + (IF Len(tail) = 0 /\ k \in Ending(j) THEN 1 ELSE 0) /\ gone[j] \in Nat
    BY <1>3, <1>5, <1>6, <1>7, <2>3
  <2>5. Balanced(j) /\ Cardinality(Ending(j)) \in Nat /\ InMap(j)' = InMap(j) /\ InMap(j) \in Nat
    BY <1>5, CountsFinite DEF EventsInv, InMap
  <2> HIDE DEF x, heard
  <2> QED BY <2>1, <2>2, <2>4, <2>5 DEF Balanced
<1>9. gone' \in [Ids -> Nat]
  BY <1>3, <1>5, <1>7
<1> QED BY <1>8, <1>9 DEF EventsInv

\* Every step keeps the balance.
LEMMA StepKeepsEvents == ASSUME IInv, PeersInv, EventsInv, [Next]_vars PROVE EventsInv'
<1>1. ASSUME NEW i \in Ids, ReceiveConnect(i) \/ ReceiveDisconnect(i) PROVE EventsInv'
  BY <1>1, ConnectBalanced, DisconnectBalanced
<1>2. ASSUME NEW i \in Ids, ReceiveMessage(i) PROVE EventsInv'
  <2>1. Timer(1, p2p[i], "message", Len(messages) + 1, "none").at # "root"
    BY DEF Timer
  <2>2. /\ UNCHANGED <<shims, p2p, gone>>
        /\ timers' = timers \/ timers' = Append(timers, Timer(1, p2p[i], "message", Len(messages) + 1, "none"))
    BY <1>2 DEF ReceiveMessage, HandleEvent
  <2> QED BY <2>1, <2>2, QuietBalanced
<1>3. ASSUME NEW s \in Shims, Close(s) PROVE EventsInv'
  <2>1. Timer(1, s, "closing", 0, "control").at # "root"
    BY DEF Timer
  <2>2. UNCHANGED <<shims, p2p, gone>> /\ timers' = Append(timers, Timer(1, s, "closing", 0, "control"))
    BY <1>3 DEF Close, DoClose, HandleEvent
  <2> QED BY <2>1, <2>2, QuietBalanced
<1>4. ASSUME NEW k \in DOMAIN timers, OpenTimer(k) \/ EventTimer(k) PROVE EventsInv'
  BY <1>4, FireBalanced
<1>5. CASE UNCHANGED vars
  <2>1. UNCHANGED <<shims, p2p, gone, timers>>
    BY <1>5 DEF vars
  <2> QED BY <2>1, QuietBalanced
<1> QED BY <1>1, <1>2, <1>3, <1>4, <1>5 DEF Next, Fire

\* The root has dispatched one "connect" more for a listed peer than it has dispatched, or is about
\* to dispatch, "disconnect", and as many for another, also when frames are doubled or the peer
\* comes back while its old shim still closes (namedwebsockets.js, lines 242 and 176-196).
THEOREM EventsAreBalanced == Spec => []EventsBalance
<1>1. Init => IInv /\ PeersInv /\ EventsInv
  <2>1. Init => EventsInv
    <3> SUFFICES ASSUME Init PROVE EventsInv
      OBVIOUS
    <3>1. gone = [i \in Ids |-> 0] /\ p2p = [i \in Ids |-> 0] /\ Shims = {} /\ DOMAIN timers = {}
      BY DEF Init, Shims
    <3>2. ASSUME NEW i \in Ids PROVE Balanced(i)
      <4>1. {s \in Shims : shims[s].id = i /\ shims[s].told = 1} = {} /\ Ending(i) = {}
        BY <3>1 DEF Ending
      <4>2. Told(i) = 0 /\ Cardinality(Ending(i)) = 0
        BY <4>1, FS_EmptySet DEF Told
      <4> QED BY <3>1, <4>2 DEF Balanced, InMap
    <3> QED BY <3>1, <3>2 DEF EventsInv
  <2> QED BY <2>1, InitIInv, InitPeers
<1>2. IInv /\ PeersInv /\ EventsInv /\ [Next]_vars => (IInv /\ PeersInv /\ EventsInv)'
  BY StepKeepsIInv, StepKeepsPeers, StepKeepsEvents
<1>3. IInv /\ PeersInv /\ EventsInv => EventsBalance
  BY ExistIsInMap DEF EventsInv, Balanced, InMap, EventsBalance
<1> QED BY <1>1, <1>2, <1>3, PTL DEF Spec
=============================================================================
