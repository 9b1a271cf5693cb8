------------------------ MODULE AgentBluetoothProofs ------------------------
(***************************************************************************)
(* The Bluetooth part of the Android agent, for any number of devices,     *)
(* clients, switches and scans: a device stands in the vector once, scans  *)
(* do not multiply, and places and failures of requests are explained.     *)
(* Whatever will lead to a scan is passed on from broadcast to timer to    *)
(* scan, so counting broadcasts in the mail is what the first part needs.  *)
(***************************************************************************)
EXTENDS AgentBluetooth, SequenceFacts

-----------------------------------------------------------------------------
\* Counting broadcasts.

Places(q, what) == { k \in DOMAIN q : q[k] = what }
Count(q, what) == Cardinality(Places(q, what))
One(b) == IF b THEN 1 ELSE 0

\* There are finitely many.
LEMMA PlacesFinite ==
  ASSUME NEW S, NEW q \in Seq(S), NEW what
  PROVE  IsFiniteSet(Places(q, what)) /\ Count(q, what) \in Nat
<1>1. Len(q) \in Nat /\ DOMAIN q = 1..Len(q)
  BY LenProperties
<1>2. IsFiniteSet(1..Len(q))
  BY <1>1, FS_Interval
<1>3. Places(q, what) \subseteq 1..Len(q)
  BY <1>1 DEF Places
<1>4. IsFiniteSet(Places(q, what))
  BY <1>2, <1>3, FS_Subset
<1> QED BY <1>4, FS_CardinalityType DEF Count

\* None in an empty mail.
LEMMA CountEmpty ==
  ASSUME NEW what
  PROVE  Count(<<>>, what) = 0
<1>1. Places(<<>>, what) = {}
  BY DEF Places
<1> QED BY <1>1, FS_EmptySet DEF Count

\* A broadcast that is sent.
LEMMA CountAppend ==
  ASSUME NEW S, NEW q \in Seq(S), NEW e \in S, NEW what
  PROVE  Count(Append(q, e), what) = Count(q, what) + One(e = what)
<1> DEFINE r == Append(q, e)
           n == Len(q) + 1
<1>1. Len(q) \in Nat /\ DOMAIN q = 1..Len(q) /\ n \notin DOMAIN q
  BY LenProperties
<1>2. r \in Seq(S) /\ Len(r) = n /\ r[n] = e /\ \A j \in 1..Len(q) : r[j] = q[j]
  BY AppendProperties
<1>3. DOMAIN r = 1..n
  BY <1>2, LenProperties
<1>4. DOMAIN r = DOMAIN q \cup {n}
  BY <1>1, <1>3
<1>5. IsFiniteSet(Places(q, what)) /\ Count(q, what) \in Nat
  BY PlacesFinite
<1>6. CASE e = what
  <2>1. Places(r, what) = Places(q, what) \cup {n}
    BY <1>1, <1>2, <1>4, <1>6 DEF Places
  <2>2. n \notin Places(q, what)
    BY <1>1 DEF Places
  <2> QED BY <1>5, <1>6, <2>1, <2>2, FS_AddElement DEF Count, One
<1>7. CASE e # what
  <2>1. Places(r, what) = Places(q, what)
    BY <1>1, <1>2, <1>4, <1>7 DEF Places
  <2> QED BY <1>5, <1>7, <2>1 DEF Count, One
<1> QED BY <1>6, <1>7

\* A broadcast that is received.
LEMMA CountTail ==
  ASSUME NEW S, NEW q \in Seq(S), q # <<>>, NEW what
  PROVE  /\ Tail(q) \in Seq(S)
         /\ Count(Tail(q), what) = Count(q, what) - One(Head(q) = what)
<1> DEFINE r == Tail(q)
           R == Places(r, what)
           T == Places(q, what) \ {1}
           f == [k \in R |-> k + 1]
<1>1. Len(q) \in Nat /\ DOMAIN q = 1..Len(q) /\ Len(q) >= 1
  BY LenProperties, EmptySeq
<1>2. r \in Seq(S) /\ Len(r) = Len(q) - 1 /\ \A j \in 1..Len(r) : r[j] = q[j + 1]
  BY <1>1, HeadTailProperties
<1>3. DOMAIN r = 1..Len(r) /\ Len(r) \in Nat
  BY <1>2, LenProperties
<1>4. R \subseteq 1..Len(r) /\ T \subseteq 2..Len(q)
  BY <1>1, <1>3 DEF Places
<1>5. f \in Bijection(R, T)
  <2>1. \A k \in R : f[k] \in T
    BY <1>1, <1>2, <1>3, <1>4 DEF Places
  <2>2. \A j, k \in R : f[j] = f[k] => j = k
    BY <1>4
  <2>3. \A j \in T : \E k \in R : f[k] = j
    <3> SUFFICES ASSUME NEW j \in T PROVE j - 1 \in R /\ f[j - 1] = j
      OBVIOUS
    <3>1. j \in 2..Len(q) /\ q[j] = what
      BY <1>4 DEF Places
    <3>2. j - 1 \in 1..Len(r) /\ r[j - 1] = what
      BY <1>1, <1>2, <3>1
    <3>3. j - 1 \in R
      BY <1>3, <3>2 DEF Places
    <3> QED BY <3>1, <3>3
  <2>4. f \in [R -> T]
    BY <2>1
  <2> QED BY <2>1, <2>2, <2>3, <2>4 DEF Bijection, Injection, Surjection, IsInjective
<1>6. IsFiniteSet(R) /\ Count(r, what) \in Nat /\ IsFiniteSet(Places(q, what)) /\ Count(q, what) \in Nat
  BY <1>2, PlacesFinite
<1>7. Cardinality(T) = Count(r, what)
  BY <1>5, <1>6, FS_Bijection DEF ExistsBijection, Count
<1>8. Head(q) = q[1] /\ (1 \in Places(q, what) <=> Head(q) = what)
  BY <1>1, HeadTailProperties DEF Places
<1>9. CASE Head(q) = what
  <2>1. Cardinality(T) = Count(q, what) - 1
    BY <1>6, <1>8, <1>9, FS_RemoveElement DEF Count
  <2> QED BY <1>2, <1>7, <1>9, <2>1 DEF One
<1>10. CASE Head(q) # what
  <2>1. T = Places(q, what)
    BY <1>8, <1>10
  <2>2. Count(r, what) = Count(q, what)
    BY <1>7, <2>1 DEF Count
  <2>3. One(Head(q) = what) = 0
    BY <1>10 DEF One
  <2> QED BY <1>2, <1>6, <2>2, <2>3
<1> QED BY <1>9, <1>10

-----------------------------------------------------------------------------
\* The chains of scans.

\* What is on its way to a scan, or to a timer.
Waiting(q) == Count(q, Finished) + Count(q, On)

\* They are counted.
LEMMA WaitingTypes ==
  ASSUME NEW q \in Seq(Mail)
  PROVE  Waiting(q) \in Nat
BY PlacesFinite DEF Waiting

\* Nothing is on its way.
LEMMA WaitingEmpty == Waiting(<<>>) = 0
BY CountEmpty DEF Waiting

\* A broadcast that is sent.
LEMMA WaitingAppend ==
  ASSUME NEW q \in Seq(Mail), NEW e \in Mail
  PROVE  /\ Append(q, e) \in Seq(Mail)
         /\ Waiting(Append(q, e)) = Waiting(q) + One(e \in {Finished, On})
<1>1. Append(q, e) \in Seq(Mail)
  BY AppendProperties
<1>2. Count(Append(q, e), Finished) = Count(q, Finished) + One(e = Finished)
  BY CountAppend
<1>3. Count(Append(q, e), On) = Count(q, On) + One(e = On)
  BY CountAppend
<1>4. Count(q, Finished) \in Nat /\ Count(q, On) \in Nat
  BY PlacesFinite
<1>5. One(e = Finished) + One(e = On) = One(e \in {Finished, On})
  BY DEF One, Finished, On
<1>6. One(e = Finished) \in Nat /\ One(e = On) \in Nat
  BY DEF One
<1> QED BY <1>1, <1>2, <1>3, <1>4, <1>5, <1>6 DEF Waiting

\* A broadcast that is received.
LEMMA WaitingTail ==
  ASSUME NEW q \in Seq(Mail), q # <<>>
  PROVE  /\ Tail(q) \in Seq(Mail) /\ Head(q) \in Mail
         /\ Waiting(Tail(q)) = Waiting(q) - One(Head(q) \in {Finished, On})
<1>1. Tail(q) \in Seq(Mail) /\ Head(q) \in Mail
  BY HeadTailProperties
<1>2. Count(Tail(q), Finished) = Count(q, Finished) - One(Head(q) = Finished)
  BY CountTail
<1>3. Count(Tail(q), On) = Count(q, On) - One(Head(q) = On)
  BY CountTail
<1>4. Count(q, Finished) \in Nat /\ Count(q, On) \in Nat
  BY PlacesFinite
<1>5. One(Head(q) = Finished) + One(Head(q) = On) = One(Head(q) \in {Finished, On})
  BY DEF One, Finished, On
<1>6. One(Head(q) = Finished) \in Nat /\ One(Head(q) = On) \in Nat
  BY DEF One
<1> QED BY <1>1, <1>2, <1>3, <1>4, <1>5, <1>6 DEF Waiting

\* What the receiver finds at the head of its mail.
LEMMA Received ==
  ASSUME mail \in Seq(Mail), mail # <<>>
  PROVE  /\ Receives("finished") => Head(mail) = Finished
         /\ Receives("on") => Head(mail) = On
         /\ Receives("found") => Head(mail)[2] \in Devices
         /\ ~Receives("finished") /\ ~Receives("on") => Head(mail) \notin {Finished, On}
<1>1. Head(mail) \in Mail
  BY HeadTailProperties
<1> QED BY <1>1 DEF Receives, Mail, Started, Finished, On, Off, Found

\* A start makes of nothing at most one scan.
LEMMA StartMakesOne ==
  ASSUME NEW q \in Seq(Mail), NEW s \in BOOLEAN, s => adapter = "on", refused \in BOOLEAN,
         Start(q, s)
  PROVE  /\ mail' \in Seq(Mail) /\ scanning' \in BOOLEAN /\ (scanning' => adapter = "on")
         /\ refused' \in BOOLEAN
         /\ Waiting(mail') + One(scanning') <= Waiting(q) + One(s) + 1
<1>1. Started \in Mail /\ Started \notin {Finished, On}
  BY DEF Mail, Started, Finished, On
<1>2. Append(q, Started) \in Seq(Mail) /\ Waiting(Append(q, Started)) = Waiting(q)
  <2>1. One(Started \in {Finished, On}) = 0
    BY <1>1 DEF One
  <2> QED BY <1>1, <2>1, WaitingAppend, WaitingTypes
<1>3. Waiting(q) \in Nat
  BY WaitingTypes
<1>4. CASE scanning' = TRUE /\ mail' = Append(q, Started) /\ adapter = "on" /\ ~s
            /\ UNCHANGED refused
  BY <1>2, <1>3, <1>4 DEF One
<1>5. CASE scanning' = s /\ mail' = q /\ refused' \in BOOLEAN
  BY <1>3, <1>5 DEF One
<1>6. \/ scanning' = TRUE /\ mail' = Append(q, Started) /\ adapter = "on" /\ ~s
         /\ UNCHANGED refused
      \/ scanning' = s /\ mail' = q /\ refused' \in BOOLEAN
  BY DEF Start
<1> QED BY <1>4, <1>5, <1>6

\* The bound, in terms of the mail.
LEMMA ChainsAre ==
  ASSUME timers \in Nat, mail \in Seq(Mail)
  PROVE  Chains = timers + Waiting(mail) + One(scanning)
<1>1. Pending(Finished) = Count(mail, Finished) /\ Pending(On) = Count(mail, On)
  BY DEF Pending, Count, Places
<1>2. (IF scanning THEN 1 ELSE 0) = One(scanning)
  BY DEF One
<1>3. Count(mail, Finished) \in Nat /\ Count(mail, On) \in Nat /\ One(scanning) \in Nat
  BY PlacesFinite DEF One
<1> QED BY <1>1, <1>2, <1>3 DEF Chains, Waiting

Budget == One(created) + switches + others
ChainInv == TypeOK /\ timers + Waiting(mail) + One(scanning) <= Budget

\* Nothing has happened.
LEMMA InitChainInv == Init => ChainInv
<1> SUFFICES ASSUME Init PROVE ChainInv
  OBVIOUS
<1>1. TypeOK
  <2>1. <<>> \in Seq(Mail) /\ <<>> \in Seq(Devices) /\ DOMAIN <<>> = {}
    OBVIOUS
  <2> QED BY <2>1 DEF Init, TypeOK
<1>2. timers + Waiting(mail) + One(scanning) <= Budget
  BY WaitingEmpty DEF Init, Budget, One
<1> QED BY <1>1, <1>2 DEF ChainInv

\* The vector with another device, or none.
LEMMA ListAdds ==
  ASSUME TypeOK, NEW d \in Devices, d \notin ToSet(list)
  PROVE  /\ Append(list, d) \in Seq(Devices)
         /\ \A j, k \in DOMAIN Append(list, d) : Append(list, d)[j] = Append(list, d)[k] => j = k
<1> DEFINE r == Append(list, d)
<1>1. list \in Seq(Devices) /\ \A j, k \in DOMAIN list : list[j] = list[k] => j = k
  BY DEF TypeOK
<1>2. Len(list) \in Nat /\ DOMAIN list = 1..Len(list)
  BY <1>1, LenProperties
<1>3. r \in Seq(Devices) /\ Len(r) = Len(list) + 1 /\ r[Len(list) + 1] = d
      /\ \A j \in 1..Len(list) : r[j] = list[j]
  BY <1>1, AppendProperties
<1>4. DOMAIN r = 1..(Len(list) + 1)
  BY <1>3, LenProperties
<1>5. \A j \in 1..Len(list) : list[j] # d
  BY <1>2 DEF ToSet
<1> QED BY <1>1, <1>2, <1>3, <1>4, <1>5

\* onCreate.
LEMMA CreateChains == ASSUME ChainInv, Create PROVE ChainInv'
<1> DEFINE q == IF scanning THEN <<Finished>> ELSE <<>>
<1>1. TypeOK /\ ~created /\ mail = <<>> /\ timers = 0 /\ list = <<>> /\ scanning \in BOOLEAN
      /\ switches \in Nat /\ others \in Nat
  BY DEF ChainInv, TypeOK, Create
<1>2. /\ created' = TRUE /\ UNCHANGED <<adapter, timers, list, switches, others>>
  BY DEF Create
<1>3. One(scanning) <= switches + others
  BY <1>1, WaitingEmpty DEF ChainInv, Budget, One
<1>4. q \in Seq(Mail) /\ Waiting(q) = One(scanning)
  <2>1. Finished \in Mail /\ <<>> \in Seq(Mail) /\ <<Finished>> = Append(<<>>, Finished)
    BY DEF Mail
  <2>2. <<Finished>> \in Seq(Mail) /\ Waiting(<<Finished>>) = 1
    <3>1. Append(<<>>, Finished) \in Seq(Mail)
          /\ Waiting(Append(<<>>, Finished)) = 0 + One(Finished \in {Finished, On})
      BY <2>1, WaitingAppend, WaitingEmpty
    <3>2. One(Finished \in {Finished, On}) = 1
      BY DEF One
    <3> QED BY <2>1, <3>1, <3>2
  <2> QED BY <2>1, <2>2, <1>1, WaitingEmpty DEF One
<1>5. (adapter = "on" /\ Start(q, FALSE)) \/ UNCHANGED <<scanning, mail, refused>>
  BY DEF Create
<1> HIDE DEF q
<1>6. /\ mail' \in Seq(Mail) /\ scanning' \in BOOLEAN /\ (scanning' => adapter = "on")
      /\ refused' \in BOOLEAN
      /\ Waiting(mail') + One(scanning') <= One(scanning) + 1
  <2>1. One(FALSE) = 0 /\ One(scanning) \in Nat /\ refused \in BOOLEAN
    BY <1>1 DEF One, TypeOK
  <2>2. CASE adapter = "on" /\ Start(q, FALSE)
    <3>1. /\ mail' \in Seq(Mail) /\ scanning' \in BOOLEAN /\ (scanning' => adapter = "on")
          /\ refused' \in BOOLEAN
          /\ Waiting(mail') + One(scanning') <= Waiting(q) + One(FALSE) + 1
      BY <1>4, <2>1, <2>2, StartMakesOne
    <3>2. Waiting(mail') + One(scanning') <= Waiting(q) + 1
      BY <1>4, <2>1, <3>1 DEF One
    <3> QED BY <1>4, <3>1, <3>2
  <2>3. CASE UNCHANGED <<scanning, mail, refused>>
    BY <1>1, <2>1, <2>3, WaitingEmpty DEF TypeOK
  <2> QED BY <1>5, <2>2, <2>3
<1>7. TypeOK'
  BY <1>1, <1>2, <1>6 DEF TypeOK
<1>8. Waiting(mail') \in Nat /\ One(scanning') \in Nat /\ One(scanning) \in Nat /\ Budget' = 1 + switches + others
  BY <1>2, <1>6, WaitingTypes DEF One, Budget
<1> QED BY <1>1, <1>2, <1>3, <1>6, <1>7, <1>8 DEF ChainInv

\* What a broadcast does to the mail, unless nobody receives it.
LEMMA TellOne ==
  ASSUME TypeOK, NEW e \in Mail, Tell(<<e>>)
  PROVE  /\ mail' \in Seq(Mail) /\ (~created => mail' = mail)
         /\ Waiting(mail') <= Waiting(mail) + One(e \in {Finished, On})
<1>1. mail \in Seq(Mail) /\ Waiting(mail) \in Nat
  BY WaitingTypes DEF TypeOK
<1>2. CASE created
  <2>1. mail' = Append(mail, e)
    BY <1>1, <1>2 DEF Tell
  <2>2. Waiting(mail') = Waiting(mail) + One(e \in {Finished, On}) /\ mail' \in Seq(Mail)
    BY <1>1, <2>1, WaitingAppend
  <2>3. One(e \in {Finished, On}) \in Nat
    BY DEF One
  <2> QED BY <1>1, <1>2, <2>2, <2>3
<1>3. CASE ~created
  <2>1. mail' = mail
    BY <1>3 DEF Tell
  <2>2. One(e \in {Finished, On}) \in Nat
    BY DEF One
  <2> QED BY <1>1, <2>1, <2>2
<1> QED BY <1>2, <1>3

\* Android's side: a scan comes with somebody else's, and ends once.
LEMMA AndroidChains == ASSUME ChainInv, Android PROVE ChainInv'
<1>1. TypeOK /\ mail \in Seq(Mail) /\ Waiting(mail) \in Nat /\ timers \in Nat
      /\ scanning \in BOOLEAN /\ (scanning => adapter = "on") /\ switches \in Nat /\ others \in Nat
      /\ timers + Waiting(mail) + One(scanning) <= Budget
  BY WaitingTypes DEF ChainInv, TypeOK
<1>2. Started \in Mail /\ Finished \in Mail /\ On \in Mail /\ Off \in Mail
      /\ Started \notin {Finished, On} /\ Off \notin {Finished, On}
      /\ \A d \in Devices : Found(d) \in Mail /\ Found(d) \notin {Finished, On}
  BY DEF Mail, Started, Finished, On, Off, Found
<1>3. One(TRUE) = 1 /\ One(FALSE) = 0 /\ One(scanning) \in {0, 1} /\ One(created) \in Nat
      /\ Budget \in Nat
  BY <1>1 DEF One, Budget
<1>4. CASE SwitchOn
  <2>1. Waiting(mail') <= Waiting(mail) + 1 /\ mail' \in Seq(Mail) /\ (~created => mail' = mail)
    BY <1>1, <1>2, <1>4, TellOne DEF SwitchOn, One
  <2>2. TypeOK'
    <3>1. /\ adapter' = "on" /\ switches' \in Nat /\ refused' = FALSE
          /\ UNCHANGED <<created, scanning, timers, list, others>>
      BY <1>1, <1>4 DEF SwitchOn
    <3> QED BY <1>1, <2>1, <3>1 DEF TypeOK
  <2>3. Budget' = Budget + 1 /\ UNCHANGED timers /\ One(scanning') = One(scanning)
        /\ Waiting(mail') \in Nat
    <3>1. switches' = switches + 1 /\ UNCHANGED <<created, others, timers, scanning>>
      BY <1>4 DEF SwitchOn
    <3>2. Budget' = Budget + 1
      BY <1>1, <1>3, <3>1 DEF Budget
    <3>3. Waiting(mail') \in Nat
      BY <2>1, WaitingTypes
    <3> QED BY <3>1, <3>2, <3>3
  <2>4. timers' + Waiting(mail') + One(scanning') <= Budget'
    BY <1>1, <1>3, <2>1, <2>3
  <2> QED BY <2>2, <2>4 DEF ChainInv
<1>5. CASE SwitchOff
  <2>1. /\ mail' \in Seq(Mail) /\ (~created => mail' = mail)
        /\ Waiting(mail') <= Waiting(mail) + One(scanning)
    <3>1. CASE created /\ scanning
      <4>1. mail' = Append(Append(mail, Finished), Off)
        BY <1>1, <1>2, <1>5, <3>1 DEF SwitchOff, Tell
      <4>2. Append(mail, Finished) \in Seq(Mail)
            /\ Waiting(Append(mail, Finished)) = Waiting(mail) + 1
        BY <1>1, <1>2, WaitingAppend DEF One
      <4> DEFINE q == Append(mail, Finished)
      <4>3. q \in Seq(Mail) /\ Waiting(q) = Waiting(mail) + 1 /\ mail' = Append(q, Off)
        BY <4>1, <4>2
      <4> HIDE DEF q
      <4>4. mail' \in Seq(Mail) /\ Waiting(mail') = Waiting(q) + One(Off \in {Finished, On})
        BY <1>2, <4>3, WaitingAppend
      <4>5. One(Off \in {Finished, On}) = 0
        BY <1>2 DEF One
      <4>6. Waiting(mail') = Waiting(mail) + 1
        BY <1>1, <4>3, <4>4, <4>5
      <4> QED BY <1>1, <3>1, <4>4, <4>6 DEF One
    <3>2. CASE created /\ ~scanning
      <4>1. Tell(<<Off>>)
        BY <1>5, <3>2 DEF SwitchOff
      <4> QED BY <1>1, <1>2, <3>2, <4>1, TellOne DEF One
    <3>3. CASE ~created
      BY <1>1, <1>3, <1>5, <3>3 DEF SwitchOff, Tell
    <3> QED BY <3>1, <3>2, <3>3
  <2>2. TypeOK'
    BY <1>1, <1>5, <2>1 DEF SwitchOff, TypeOK
  <2>3. Budget' = Budget /\ UNCHANGED timers /\ One(scanning') = 0 /\ Waiting(mail') \in Nat
    BY <1>5, <2>1, WaitingTypes DEF SwitchOff, Budget, One
  <2>4. timers' + Waiting(mail') + One(scanning') <= Budget'
    BY <1>1, <1>3, <2>1, <2>3
  <2> QED BY <2>2, <2>4 DEF ChainInv
<1>6. CASE OtherScan
  <2>1. Waiting(mail') <= Waiting(mail) /\ mail' \in Seq(Mail) /\ (~created => mail' = mail)
    BY <1>1, <1>2, <1>6, TellOne DEF OtherScan, One
  <2>2. TypeOK'
    BY <1>1, <1>6, <2>1 DEF OtherScan, TypeOK
  <2>3. Budget' = Budget + 1 /\ UNCHANGED timers /\ One(scanning') = One(scanning) + 1
        /\ Waiting(mail') \in Nat
    BY <1>1, <1>3, <1>6, <2>1, WaitingTypes DEF OtherScan, Budget, One
  <2>4. timers' + Waiting(mail') + One(scanning') <= Budget'
    BY <1>1, <1>3, <2>1, <2>3
  <2> QED BY <2>2, <2>4 DEF ChainInv
<1>7. CASE ScanEnds
  <2>1. Waiting(mail') <= Waiting(mail) + 1 /\ mail' \in Seq(Mail) /\ (~created => mail' = mail)
    BY <1>1, <1>2, <1>7, TellOne DEF ScanEnds, One
  <2>2. TypeOK'
    BY <1>1, <1>7, <2>1 DEF ScanEnds, TypeOK, radio
  <2>3. Budget' = Budget /\ UNCHANGED timers /\ One(scanning') = 0 /\ One(scanning) = 1
        /\ Waiting(mail') \in Nat
    BY <1>7, <2>1, WaitingTypes DEF ScanEnds, Budget, One, radio
  <2>4. timers' + Waiting(mail') + One(scanning') <= Budget'
    BY <1>1, <1>3, <2>1, <2>3
  <2> QED BY <2>2, <2>4 DEF ChainInv
<1>8. ASSUME NEW d \in Devices, Finds(d) PROVE ChainInv'
  <2>1. Waiting(mail') <= Waiting(mail) /\ mail' \in Seq(Mail) /\ (~created => mail' = mail)
    BY <1>1, <1>2, <1>8, TellOne DEF Finds, One
  <2>2. TypeOK'
    BY <1>1, <1>8, <2>1 DEF Finds, TypeOK
  <2>3. Budget' = Budget /\ UNCHANGED timers /\ One(scanning') = One(scanning)
        /\ Waiting(mail') \in Nat
    BY <1>8, <2>1, WaitingTypes DEF Finds, Budget
  <2>4. timers' + Waiting(mail') + One(scanning') <= Budget'
    BY <1>1, <1>3, <2>1, <2>3
  <2> QED BY <2>2, <2>4 DEF ChainInv
<1>9. ASSUME NEW d \in Devices, FetchEnds(d) PROVE ChainInv'
  BY <1>1, <1>9 DEF FetchEnds, ChainInv, TypeOK, Budget
<1> QED BY <1>4, <1>5, <1>6, <1>7, <1>8, <1>9 DEF Android

\* The receiver passes an end on to one timer and starts a scan for a switch.
LEMMA ReceiveChains == ASSUME ChainInv, Receive PROVE ChainInv'
<1>1. TypeOK /\ mail \in Seq(Mail) /\ Waiting(mail) \in Nat /\ timers \in Nat
      /\ scanning \in BOOLEAN /\ (scanning => adapter = "on") /\ refused \in BOOLEAN
      /\ switches \in Nat /\ others \in Nat /\ created \in BOOLEAN
      /\ timers + Waiting(mail) + One(scanning) <= Budget
  BY WaitingTypes DEF ChainInv, TypeOK
<1> DEFINE q == Tail(mail)
<1>2. mail # <<>>
  BY DEF Receive, ReceiveFound, ReceiveStarted, ReceiveFinished, ReceiveOff, ReceiveOn, Receives
<1>3. created
  BY <1>1, <1>2 DEF TypeOK
<1>4. q \in Seq(Mail) /\ Waiting(q) \in Nat
      /\ Waiting(q) = Waiting(mail) - One(Head(mail) \in {Finished, On})
  BY <1>1, <1>2, WaitingTail, WaitingTypes
<1>5. Waiting(q) <= Waiting(mail)
  BY <1>1, <1>4 DEF One
<1>6. Receives("finished") \/ Receives("on") => Waiting(q) = Waiting(mail) - 1
  <2>1. Receives("finished") \/ Receives("on") => Head(mail) \in {Finished, On}
    BY <1>1, <1>2, Received
  <2> QED BY <1>1, <1>4, <2>1 DEF One
<1> HIDE DEF q
<1>7. One(created) = 1 /\ Budget = 1 + switches + others
  BY <1>3 DEF One, Budget
<1>8. CASE ReceiveFound
  <2>1. Head(mail)[2] \in Devices
    BY <1>1, <1>2, <1>8, Received DEF ReceiveFound
  <2>2. mail' = q /\ UNCHANGED <<created, adapter, scanning, timers, switches, others, refused>>
    BY <1>8 DEF ReceiveFound, radio, q
  <2>3. list' = list \/ (Head(mail)[2] \notin ToSet(list) /\ list' = Append(list, Head(mail)[2]))
    BY <1>8 DEF ReceiveFound
  <2>4. list' \in Seq(Devices) /\ \A j, k \in DOMAIN list' : list'[j] = list'[k] => j = k
    BY <1>1, <2>1, <2>3, ListAdds DEF TypeOK
  <2>5. TypeOK'
    BY <1>1, <1>3, <1>4, <2>2, <2>4 DEF TypeOK
  <2>6. Budget' = Budget
    BY <2>2 DEF Budget
  <2> QED BY <1>1, <1>4, <1>5, <1>7, <2>2, <2>5, <2>6 DEF ChainInv, One
<1>9. CASE ReceiveStarted
  <2>1. mail' = q /\ list' = <<>>
        /\ UNCHANGED <<created, adapter, scanning, timers, switches, others, refused>>
    BY <1>9 DEF ReceiveStarted, Clear, radio, q
  <2>2. TypeOK'
    BY <1>1, <1>3, <1>4, <2>1 DEF TypeOK
  <2>3. Budget' = Budget
    BY <2>1 DEF Budget
  <2> QED BY <1>1, <1>4, <1>5, <1>7, <2>1, <2>2, <2>3 DEF ChainInv, One
<1>10. CASE ReceiveFinished
  <2>1. mail' = q /\ timers' \in {timers, timers + 1}
        /\ UNCHANGED <<created, adapter, scanning, list, switches, others, refused>>
    BY <1>10 DEF ReceiveFinished, radio, q
  <2>2. TypeOK'
    BY <1>1, <1>3, <1>4, <2>1 DEF TypeOK
  <2>3. Budget' = Budget
    BY <2>1 DEF Budget
  <2>4. Waiting(q) = Waiting(mail) - 1
    BY <1>6, <1>10 DEF ReceiveFinished
  <2> QED BY <1>1, <1>4, <1>7, <2>1, <2>2, <2>3, <2>4 DEF ChainInv, One
<1>11. CASE ReceiveOff
  <2>1. scanning' = FALSE /\ mail' = (IF scanning THEN Append(q, Finished) ELSE q) /\ list' = <<>>
        /\ UNCHANGED <<created, adapter, timers, switches, others, refused>>
    BY <1>11 DEF ReceiveOff, Clear, radio, q
  <2>2. Append(q, Finished) \in Seq(Mail) /\ Waiting(Append(q, Finished)) = Waiting(q) + 1
    <3>1. Finished \in Mail
      BY DEF Mail
    <3> QED BY <1>4, <3>1, WaitingAppend DEF One
  <2>3. TypeOK'
    <3>1. mail' \in Seq(Mail)
      BY <1>4, <2>1, <2>2
    <3>2. scanning' = FALSE /\ list' = <<>>
          /\ UNCHANGED <<created, adapter, timers, switches, others, refused>>
      BY <2>1
    <3>3. scanning' \in BOOLEAN /\ (scanning' => adapter' = "on")
      BY <3>2
    <3>4. list' \in Seq(Devices) /\ \A j, k \in DOMAIN list' : list'[j] = list'[k] => j = k
      BY <3>2
    <3> QED BY <1>1, <1>3, <3>1, <3>2, <3>3, <3>4 DEF TypeOK
  <2>4. Budget' = Budget
    BY <2>1 DEF Budget
  <2>5. CASE scanning
    BY <1>1, <1>4, <1>5, <1>7, <2>1, <2>2, <2>3, <2>4, <2>5 DEF ChainInv, One
  <2>6. CASE ~scanning
    BY <1>1, <1>4, <1>5, <1>7, <2>1, <2>3, <2>4, <2>6 DEF ChainInv, One
  <2> QED BY <2>5, <2>6
<1>12. CASE ReceiveOn
  <2>1. Start(q, scanning) /\ list' = <<>>
        /\ UNCHANGED <<created, adapter, timers, switches, others>>
    BY <1>12 DEF ReceiveOn, Clear, q
  <2>2. /\ mail' \in Seq(Mail) /\ scanning' \in BOOLEAN /\ (scanning' => adapter = "on")
        /\ refused' \in BOOLEAN
        /\ Waiting(mail') + One(scanning') <= Waiting(q) + One(scanning) + 1
    BY <1>1, <1>4, <2>1, StartMakesOne
  <2>3. TypeOK'
    BY <1>1, <1>3, <2>1, <2>2 DEF TypeOK
  <2>4. Budget' = Budget
    BY <2>1 DEF Budget
  <2>5. Waiting(q) = Waiting(mail) - 1 /\ Waiting(mail') \in Nat
    BY <1>6, <1>12, <2>2, WaitingTypes DEF ReceiveOn
  <2>6. One(scanning) \in Nat /\ One(scanning') \in Nat /\ timers' = timers
    BY <2>1 DEF One
  <2>7. timers' + Waiting(mail') + One(scanning') <= timers + Waiting(mail) + One(scanning)
    BY <1>1, <2>2, <2>5, <2>6
  <2>8. timers' + Waiting(mail') + One(scanning') <= Budget'
    BY <1>1, <1>7, <2>4, <2>5, <2>6, <2>7
  <2> QED BY <2>3, <2>8 DEF ChainInv
<1> QED BY <1>8, <1>9, <1>10, <1>11, <1>12 DEF Receive

\* A timer starts one scan.
LEMMA TimerChains == ASSUME ChainInv, TimerFires PROVE ChainInv'
<1>1. TypeOK /\ mail \in Seq(Mail) /\ Waiting(mail) \in Nat /\ timers \in Nat
      /\ scanning \in BOOLEAN /\ (scanning => adapter = "on") /\ refused \in BOOLEAN
      /\ switches \in Nat /\ others \in Nat /\ created \in BOOLEAN
      /\ timers + Waiting(mail) + One(scanning) <= Budget
  BY WaitingTypes DEF ChainInv, TypeOK
<1>2. timers > 0 /\ timers' = timers - 1 /\ Start(mail, scanning)
      /\ UNCHANGED <<created, adapter, list, switches, others>>
  BY DEF TimerFires
<1>3. created
  BY <1>1, <1>2 DEF TypeOK
<1>4. /\ mail' \in Seq(Mail) /\ scanning' \in BOOLEAN /\ (scanning' => adapter = "on")
      /\ refused' \in BOOLEAN
      /\ Waiting(mail') + One(scanning') <= Waiting(mail) + One(scanning) + 1
  BY <1>1, <1>2, StartMakesOne
<1>5. TypeOK'
  BY <1>1, <1>2, <1>3, <1>4 DEF TypeOK
<1>6. Budget' = Budget /\ Budget = 1 + switches + others /\ Waiting(mail') \in Nat
  BY <1>2, <1>3, <1>4, WaitingTypes DEF Budget, One
<1> QED BY <1>1, <1>2, <1>4, <1>5, <1>6 DEF ChainInv, One

\* Requests change nothing of scans.
LEMMA RequestUnmoved == ASSUME NEW c \in Clients, Request(c) PROVE Unmoved
BY DEF Request, GetPresence, PostPresence, GetDevices, GetExtra, PostExtra, AskList, ReadSize,
       ReadGet, ReadUuids, GetServices, PostServices, TakeServices

\* Nor does what leaves the radio, the mail and the timers alone.
LEMMA UnmovedChains ==
  ASSUME ChainInv, UNCHANGED <<created, radio, scanning, mail, timers, list, refused>>
  PROVE  ChainInv'
BY DEF ChainInv, TypeOK, Budget, radio

\* Every step keeps the invariant.
LEMMA NextChains == ASSUME ChainInv, [Next]_vars PROVE ChainInv'
<1>1. CASE Create
  BY <1>1, CreateChains
<1>2. CASE Receive
  BY <1>2, ReceiveChains
<1>3. CASE TimerFires
  BY <1>3, TimerChains
<1>4. CASE Android
  BY <1>4, AndroidChains
<1>5. ASSUME NEW c \in Clients, Request(c) PROVE ChainInv'
  <2>1. Unmoved
    BY <1>5, RequestUnmoved
  <2> QED BY <2>1, UnmovedChains DEF Unmoved
<1>6. CASE UNCHANGED vars
  BY <1>6, UnmovedChains DEF vars, radio
<1> QED BY <1>1, <1>2, <1>3, <1>4, <1>5, <1>6 DEF Next

\* The receiver and the timers of BluetoothService.java pass each start of a scan on at most once.
THEOREM ChainInvAlways == Spec => []ChainInv
<1>1. Init => ChainInv
  BY InitChainInv
<1>2. ChainInv /\ [Next]_vars => ChainInv'
  BY NextChains
<1> QED BY <1>1, <1>2, PTL DEF Spec

\* For any number of devices and reports, the vector holds a device once.
THEOREM VectorWithoutRepeats == Spec => []TypeOK
<1>1. ChainInv => TypeOK
  BY DEF ChainInv
<1> QED BY <1>1, ChainInvAlways, PTL

\* However often Bluetooth is switched and others scan, the rounds of scans do not multiply.
THEOREM OneChainEach == Spec => []ChainsBounded
<1>1. ChainInv => ChainsBounded
  <2>1. ASSUME ChainInv PROVE ChainsBounded
    <3>1. Chains = timers + Waiting(mail) + One(scanning)
      BY <2>1, ChainsAre DEF ChainInv, TypeOK
    <3> QED BY <2>1, <3>1 DEF ChainInv, ChainsBounded, Budget, One
  <2> QED BY <2>1
<1> QED BY <1>1, ChainInvAlways, PTL

-----------------------------------------------------------------------------
\* The requests.

\* A device is neither of the two words that stand in an answer's place.
Sensible == MaxRequests \in Nat /\ Devices \cap {"none", "error"} = {}

Answers == {"none", "error", "empty", "present", "disabled", "refused", "noservices", "devices"}
Lists  == {"size", "get", "uuids"}
Placed == {"test", "length", "take"}
ClientRecord == [pc : {"idle"} \cup Lists \cup Placed, kind : {"none", "devices", "extra", "postExtra"},
                 seen : Seq(Devices), n : Nat, answer : Devices \cup Answers,
                 moved : BOOLEAN, left : Int]

\* A request in progress against the vector.  A listing, while it is made and afterwards, is a
\* beginning of the vector, until that is cleared.
InPlace(r) ==
  /\ r \in ClientRecord
  /\ r.pc \in Lists /\ r.moved = FALSE => Begins(r.seen, list)
  /\ r.pc \notin Lists => Begins(r.seen, list)
  /\ r.pc \in Lists /\ r.moved = FALSE => adapter = "on"
  /\ r.pc = "get" /\ r.moved = FALSE => Len(r.seen) + 1 <= Len(list)
  /\ r.pc = "uuids" => r.seen # <<>>
  /\ r.pc = "uuids" /\ r.moved = FALSE => Uuids(r.seen[Len(r.seen)])
  /\ r.pc = "test" /\ r.moved = FALSE => r.n <= Len(list) + 1
  /\ r.pc \in {"length", "take"} => r.n >= 1
  /\ r.pc \in Placed => r.answer = "none"
  /\ r.pc = "take" /\ r.moved = FALSE => r.n <= Len(list) /\ Uuids(list[r.n])
ClientsInPlace == client \in [Clients -> ClientRecord] /\ \A c \in Clients : InPlace(client[c])
AllExplained == \A c \in Clients : Explained(client[c], client'[c].answer)

\* What the requests need of the vector and leave alone.
Vector == list \in Seq(Devices) /\ Len(list) \in Nat
Still == UNCHANGED <<list, adapter, known>>

\* A client whose answer does not change needs no explanation.
LEMMA Quiet ==
  ASSUME Sensible, NEW r, InPlace(r)
  PROVE  Explained(r, r.answer)
BY DEF Explained, InPlace, Sensible, Placed

\* One client goes on, as a request that is in its place.
LEMMA ClientActs ==
  ASSUME Sensible, ClientsInPlace, Still, NEW c \in Clients, NEW q,
         client' = [client EXCEPT ![c] = q], InPlace(q), Explained(client[c], q.answer)
  PROVE  ClientsInPlace' /\ AllExplained
<1>1. client \in [Clients -> ClientRecord] /\ q \in ClientRecord
  BY DEF ClientsInPlace, InPlace
<1>2. client' \in [Clients -> ClientRecord] /\ client'[c] = q
      /\ \A b \in Clients \ {c} : client'[b] = client[b]
  BY <1>1
<1>3. ASSUME NEW b \in Clients PROVE InPlace(client[b])'
  <2>1. PICK r : r = client'[b]
    OBVIOUS
  <2>2. InPlace(r)
    BY <1>2, <2>1 DEF ClientsInPlace
  <2>3. InPlace(r)'
    BY <2>2 DEF InPlace, Still, Uuids
  <2> QED BY <2>1, <2>3
<1>4. ASSUME NEW b \in Clients PROVE Explained(client[b], client'[b].answer)
  <2>1. CASE b = c
    BY <1>2, <2>1
  <2>2. CASE b # c
    <3>1. client'[b] = client[b] /\ InPlace(client[b])
      BY <1>2, <2>2 DEF ClientsInPlace
    <3> QED BY <3>1, Quiet
  <2> QED BY <2>1, <2>2
<1> QED BY <1>2, <1>3, <1>4 DEF ClientsInPlace, AllExplained

\* A request ends.  Its listing stays, if it is complete and the vector was not cleared.
LEMMA AnswerActs ==
  ASSUME Sensible, ClientsInPlace, Vector, Still, NEW c \in Clients,
         NEW a \in Devices \cup Answers, Answer(c, a), Explained(client[c], a)
  PROVE  ClientsInPlace' /\ AllExplained
<1>1. PICK r : r = client[c]
  OBVIOUS
<1>2. PICK l : l = r.left - 1
  OBVIOUS
<1>3. PICK p : p = IF r.pc \in Lists /\ (r.moved \/ a # "devices") THEN <<>> ELSE r.seen
  OBVIOUS
<1>4. PICK q : q = [r EXCEPT !.pc = "idle", !.kind = "none", !.n = 0, !.answer = a,
                             !.moved = FALSE, !.left = l, !.seen = p]
  OBVIOUS
<1>5. r \in ClientRecord /\ InPlace(r) /\ client \in [Clients -> ClientRecord]
  BY <1>1 DEF ClientsInPlace
<1>6. client' = [client EXCEPT ![c] = q]
  BY <1>1, <1>2, <1>3, <1>4, <1>5 DEF Answer, Listing, Lists, ClientRecord
<1>7. p \in Seq(Devices) /\ l \in Int
  BY <1>2, <1>3, <1>5 DEF ClientRecord
<1>8. q \in ClientRecord /\ q.pc = "idle" /\ q.seen = p /\ q.answer = a
  BY <1>4, <1>5, <1>7 DEF ClientRecord
<1>9. Begins(p, list)
  <2>1. CASE p = <<>>
    BY <2>1 DEF Begins, Vector
  <2>2. CASE p = r.seen /\ ~(r.pc \in Lists /\ (r.moved \/ a # "devices"))
    BY <1>5, <2>2 DEF InPlace, ClientRecord
  <2> QED BY <1>3, <2>1, <2>2
<1>10. InPlace(q)
  BY <1>8, <1>9 DEF InPlace, Lists, Placed
<1> QED BY <1>1, <1>6, <1>8, <1>10, ClientActs

\* An answer that is neither a device nor an error.
LEMMA Plain ==
  ASSUME NEW r, r.pc # "take", NEW a, a # "error"
  PROVE  Explained(r, a)
BY DEF Explained

\* A request ends with such an answer.
LEMMA PlainActs ==
  ASSUME Sensible, ClientsInPlace, Vector, Still, NEW c \in Clients, client[c].pc # "take",
         NEW a \in Answers, a # "error", Answer(c, a)
  PROVE  ClientsInPlace' /\ AllExplained
<1>1. Explained(client[c], a)
  BY Plain
<1> QED BY <1>1, AnswerActs

\* Without an adapter, or before onCreate.
LEMMA NoSensorActs ==
  ASSUME Sensible, ClientsInPlace, Vector, Still, NEW c \in Clients, client[c].pc = "idle",
         NoSensor, Answer(c, "error")
  PROVE  ClientsInPlace' /\ AllExplained
<1>1. Explained(client[c], "error")
  BY DEF Explained
<1> QED BY <1>1, AnswerActs DEF Answers

\* presence is answered at once.
LEMMA PresenceActs ==
  ASSUME Sensible, ClientsInPlace, Vector, Still, NEW c \in Clients,
         GetPresence(c) \/ PostPresence(c)
  PROVE  ClientsInPlace' /\ AllExplained
<1>1. client[c].pc = "idle" /\ \E a \in {"empty", "present", "disabled"} : Answer(c, a)
  BY DEF GetPresence, PostPresence, May
<1>2. PICK a \in {"empty", "present", "disabled"} : Answer(c, a)
  BY <1>1
<1> QED BY <1>1, <1>2, PlainActs DEF Answers

\* devices and extra: a new listing begins, with nothing seen.
LEMMA AskListActs ==
  ASSUME Sensible, ClientsInPlace, Vector, Still, NEW c \in Clients,
         NEW kind \in {"devices", "extra", "postExtra"}, AskList(c, kind)
  PROVE  ClientsInPlace' /\ AllExplained
<1>1. client[c].pc = "idle"
  BY DEF AskList, May
<1>2. CASE NoSensor /\ Answer(c, "error")
  BY <1>1, <1>2, NoSensorActs
<1>3. CASE \E a \in {"disabled", "empty"} : Answer(c, a)
  BY <1>1, <1>3, PlainActs DEF Answers
<1>4. CASE /\ adapter = "on"
           /\ client' = [client EXCEPT ![c].pc = "size", ![c].kind = kind, ![c].seen = <<>>,
                                       ![c].answer = "none"]
  <2>1. PICK r : r = client[c]
    OBVIOUS
  <2>2. PICK q : q = [r EXCEPT !.pc = "size", !.kind = kind, !.seen = <<>>, !.answer = "none"]
    OBVIOUS
  <2>3. r \in ClientRecord /\ r.pc = "idle" /\ client' = [client EXCEPT ![c] = q]
    BY <1>1, <1>4, <2>1, <2>2 DEF ClientsInPlace, ClientRecord
  <2>4. q \in ClientRecord /\ q.pc = "size" /\ q.seen = <<>> /\ q.answer = "none"
    <3>1. <<>> \in Seq(Devices) /\ "none" \in Devices \cup Answers /\ "size" \in Lists
      BY DEF Answers, Lists
    <3> QED BY <2>2, <2>3, <3>1 DEF ClientRecord
  <2>5. InPlace(q)
    <3>1. Begins(<<>>, list)
      BY DEF Begins, Vector
    <3> QED BY <1>4, <2>4, <3>1 DEF InPlace, Lists, Placed
  <2>6. Explained(r, "none")
    BY <2>3, Plain
  <2> QED BY <2>1, <2>3, <2>4, <2>5, <2>6, ClientActs
<1> QED BY <1>2, <1>3, <1>4 DEF AskList

\* The size lets the next get pass.
LEMMA ReadSizeActs ==
  ASSUME Sensible, ClientsInPlace, Vector, Still, NEW c \in Clients, ReadSize(c)
  PROVE  ClientsInPlace' /\ AllExplained
<1>1. client[c].pc = "size"
  BY DEF ReadSize
<1>2. CASE Answer(c, "devices")
  BY <1>1, <1>2, PlainActs DEF Answers
<1>3. CASE Len(client[c].seen) < Size /\ client' = [client EXCEPT ![c].pc = "get"]
  <2>1. PICK r : r = client[c]
    OBVIOUS
  <2>2. PICK q : q = [r EXCEPT !.pc = "get"]
    OBVIOUS
  <2>3. r \in ClientRecord /\ InPlace(r) /\ r.pc = "size" /\ client' = [client EXCEPT ![c] = q]
    BY <1>1, <1>3, <2>1, <2>2 DEF ClientsInPlace, ClientRecord
  <2>4. q \in ClientRecord /\ q.pc = "get" /\ q.seen = r.seen /\ q.moved = r.moved
        /\ q.answer = r.answer /\ r.seen \in Seq(Devices)
    BY <2>2, <2>3 DEF ClientRecord, Lists
  <2>5. Len(q.seen) + 1 <= Len(list)
    BY <1>3, <2>1, <2>4, LenProperties DEF Size, Vector
  <2>6. InPlace(q)
    BY <2>3, <2>4, <2>5 DEF InPlace, Lists, Placed
  <2>7. Explained(r, q.answer)
    BY <2>3, <2>4, Quiet
  <2> QED BY <2>1, <2>3, <2>6, <2>7, ClientActs
<1> QED BY <1>2, <1>3 DEF ReadSize, Goto

\* One more element of the vector is seen, or its absence, or what it lacks, ends the request.
LEMMA ReadGetActs ==
  ASSUME Sensible, ClientsInPlace, Vector, Still, NEW c \in Clients, ReadGet(c)
  PROVE  ClientsInPlace' /\ AllExplained
<1>1. PICK r : r = client[c]
  OBVIOUS
<1>2. r \in ClientRecord /\ InPlace(r) /\ r.pc = "get" /\ client \in [Clients -> ClientRecord]
  BY <1>1 DEF ClientsInPlace, ReadGet
<1>3. r.seen \in Seq(Devices) /\ Len(r.seen) \in Nat /\ r.moved \in BOOLEAN
  BY <1>2, LenProperties DEF ClientRecord
<1>4. PICK k : k = Len(r.seen) + 1
  OBVIOUS
<1>5. CASE k > Size /\ Answer(c, "error")
  <2>1. r.moved = TRUE
    BY <1>2, <1>3, <1>4, <1>5 DEF InPlace, Size, Vector
  <2>2. Explained(r, "error")
    BY <1>2, <2>1 DEF Explained
  <2> QED BY <1>1, <1>5, <2>2, AnswerActs DEF Answers
<1>6. CASE k <= Size /\ Fails(r.kind, list[k]) /\ Answer(c, "error")
  <2>1. Explained(r, "error")
    BY <1>2, <1>4, <1>6 DEF Explained
  <2> QED BY <1>1, <1>6, <2>1, AnswerActs DEF Answers
<1>7. CASE k <= Size /\ adapter # "on" /\ Answer(c, "error")
  <2>1. r.moved = TRUE
    BY <1>2, <1>3, <1>7 DEF InPlace, Lists
  <2>2. Explained(r, "error")
    BY <1>2, <2>1 DEF Explained
  <2> QED BY <1>1, <1>7, <2>2, AnswerActs DEF Answers
<1>8. CASE /\ k <= Size
           /\ client' = [client EXCEPT ![c].seen = Append(@, list[k]),
                ![c].pc = IF r.kind # "devices" /\ Uuids(list[k]) THEN "uuids" ELSE "size"]
  <2>1. PICK e : e = list[k]
    OBVIOUS
  <2>2. PICK p : p = Append(r.seen, e)
    OBVIOUS
  <2>3. PICK to : to = IF r.kind # "devices" /\ Uuids(list[k]) THEN "uuids" ELSE "size"
    OBVIOUS
  <2>4. PICK q : q = [r EXCEPT !.seen = p, !.pc = to]
    OBVIOUS
  <2>5. client' = [client EXCEPT ![c] = q]
    BY <1>1, <1>2, <1>8, <2>1, <2>2, <2>3, <2>4 DEF ClientRecord
  <2>6. e \in Devices
    BY <1>3, <1>4, <1>8, <2>1 DEF Size, Vector
  <2>7. p \in Seq(Devices) /\ Len(p) = k /\ p[k] = e
    BY <1>3, <1>4, <2>2, <2>6, AppendProperties
  <2>8. q \in ClientRecord /\ q.pc = to /\ q.seen = p /\ q.moved = r.moved /\ q.answer = r.answer
    BY <1>2, <2>3, <2>4, <2>7 DEF ClientRecord, Lists
  <2>9. r.moved = FALSE => Begins(p, list)
    BY <1>2, <1>3, <1>4, <1>8, <2>1, <2>2, BeginsOneMore DEF InPlace, Vector, Size, Lists, Placed
  <2>10. to = "uuids" => p # <<>> /\ Uuids(p[Len(p)])
    BY <1>3, <1>4, <2>1, <2>3, <2>7
  <2>11. r.moved = FALSE => adapter = "on"
    BY <1>2 DEF InPlace, Lists
  <2>12. InPlace(q)
    BY <2>3, <2>8, <2>9, <2>10, <2>11 DEF InPlace, Lists, Placed
  <2>13. Explained(r, q.answer)
    BY <1>2, <2>8, Quiet
  <2> QED BY <1>1, <2>5, <2>12, <2>13, ClientActs
<1> QED BY <1>1, <1>4, <1>5, <1>6, <1>7, <1>8 DEF ReadGet

\* The services of a listed device are read once more.
LEMMA ReadUuidsActs ==
  ASSUME Sensible, ClientsInPlace, Vector, Still, NEW c \in Clients, ReadUuids(c)
  PROVE  ClientsInPlace' /\ AllExplained
<1>1. PICK r : r = client[c]
  OBVIOUS
<1>2. r \in ClientRecord /\ InPlace(r) /\ r.pc = "uuids" /\ client \in [Clients -> ClientRecord]
  BY <1>1 DEF ClientsInPlace, ReadUuids
<1>3. r.seen \in Seq(Devices) /\ r.moved \in BOOLEAN
  BY <1>2 DEF ClientRecord
<1>4. PICK d : d = Last(r.seen)
  OBVIOUS
<1>5. d = r.seen[Len(r.seen)]
  BY <1>4 DEF Last
<1>6. CASE Uuids(d) /\ client' = [client EXCEPT ![c].pc = "size"]
  <2>1. PICK q : q = [r EXCEPT !.pc = "size"]
    OBVIOUS
  <2>2. client' = [client EXCEPT ![c] = q]
    BY <1>1, <1>2, <1>6, <2>1 DEF ClientRecord
  <2>3. q \in ClientRecord /\ q.pc = "size" /\ q.seen = r.seen /\ q.moved = r.moved
        /\ q.answer = r.answer
    BY <1>2, <2>1 DEF ClientRecord, Lists
  <2>4. InPlace(q)
    BY <1>2, <2>3 DEF InPlace, Lists, Placed
  <2>5. Explained(r, q.answer)
    BY <1>2, <2>3, Quiet
  <2> QED BY <1>1, <2>2, <2>4, <2>5, ClientActs
<1>7. CASE ~Uuids(d) /\ Answer(c, "error")
  <2>1. r.moved = TRUE
    BY <1>2, <1>3, <1>5, <1>7 DEF InPlace
  <2>2. Explained(r, "error")
    BY <1>2, <2>1 DEF Explained
  <2> QED BY <1>1, <1>7, <2>2, AnswerActs DEF Answers
<1> QED BY <1>1, <1>4, <1>6, <1>7 DEF ReadUuids, Goto

\* A place is asked for: what the handler knows of it.
LEMMA AskPlaceActs ==
  ASSUME Sensible, ClientsInPlace, Vector, Still, NEW c \in Clients, client[c].pc = "idle",
         NEW n \in Nat, NEW to \in {"test", "length"}, AskPlace(c, n, to),
         to = "test" => n - 1 <= Size, to = "length" => n > 0
  PROVE  ClientsInPlace' /\ AllExplained
<1>1. PICK r : r = client[c]
  OBVIOUS
<1>2. r \in ClientRecord /\ InPlace(r) /\ r.pc = "idle" /\ client \in [Clients -> ClientRecord]
  BY <1>1 DEF ClientsInPlace
<1>3. PICK q : q = [r EXCEPT !.pc = to, !.n = n, !.answer = "none"]
  OBVIOUS
<1>4. client' = [client EXCEPT ![c] = q]
  BY <1>1, <1>2, <1>3 DEF AskPlace, ClientRecord
<1>5. q \in ClientRecord /\ q.pc = to /\ q.n = n /\ q.seen = r.seen /\ q.answer = "none"
  BY <1>2, <1>3 DEF ClientRecord, Placed, Answers
<1>6. to = "test" => n <= Len(list) + 1
  BY DEF Size, Vector
<1>7. InPlace(q)
  BY <1>2, <1>5, <1>6 DEF InPlace, Lists, Placed
<1>8. Explained(r, "none")
  BY <1>2, Plain
<1> QED BY <1>1, <1>4, <1>5, <1>7, <1>8, ClientActs

\* GET of services lets a place behind the end pass.
LEMMA GetServicesActs ==
  ASSUME Sensible, ClientsInPlace, Vector, Still, NEW c \in Clients, GetServices(c)
  PROVE  ClientsInPlace' /\ AllExplained
<1>1. client[c].pc = "idle"
  BY DEF GetServices, May
<1>2. PICK n \in 0..MaxPlace :
         \/ ~created /\ Answer(c, "error")
         \/ created /\ n - 1 > Size /\ Answer(c, "empty")
         \/ created /\ n - 1 <= Size /\ AskPlace(c, n, "test")
  BY DEF GetServices
<1>3. CASE ~created /\ Answer(c, "error")
  BY <1>1, <1>3, NoSensorActs DEF NoSensor
<1>4. CASE Answer(c, "empty")
  BY <1>1, <1>4, PlainActs DEF Answers
<1>5. CASE n - 1 <= Size /\ AskPlace(c, n, "test")
  <2>1. n \in Nat
    OBVIOUS
  <2> QED BY <1>1, <1>5, <2>1, AskPlaceActs
<1> QED BY <1>2, <1>3, <1>4, <1>5

\* POST of services compares the place with 0 only.
LEMMA PostServicesActs ==
  ASSUME Sensible, ClientsInPlace, Vector, Still, NEW c \in Clients, PostServices(c)
  PROVE  ClientsInPlace' /\ AllExplained
<1>1. client[c].pc = "idle"
  BY DEF PostServices, May
<1>2. PICK n \in 0..MaxPlace :
         \/ NoSensor /\ Answer(c, "error")
         \/ Answer(c, "disabled")
         \/ Answer(c, "refused")
         \/ Answer(c, "empty")
         \/ n > 0 /\ AskPlace(c, n, "length")
  BY DEF PostServices
<1>3. CASE NoSensor /\ Answer(c, "error")
  BY <1>1, <1>3, NoSensorActs
<1>4. CASE \E a \in {"disabled", "refused", "empty"} : Answer(c, a)
  BY <1>1, <1>4, PlainActs DEF Answers
<1>5. CASE n > 0 /\ AskPlace(c, n, "length")
  <2>1. n \in Nat
    OBVIOUS
  <2> QED BY <1>1, <1>5, <2>1, AskPlaceActs
<1> QED BY <1>2, <1>3, <1>4, <1>5

\* The device at the place, once more for each thing asked of it.
LEMMA TakeServicesActs ==
  ASSUME Sensible, ClientsInPlace, Vector, Still, NEW c \in Clients, TakeServices(c)
  PROVE  ClientsInPlace' /\ AllExplained
<1>1. PICK r : r = client[c]
  OBVIOUS
<1>2. r \in ClientRecord /\ InPlace(r) /\ r.pc \in Placed /\ client \in [Clients -> ClientRecord]
  BY <1>1 DEF ClientsInPlace, TakeServices, Placed
<1>3. r.n \in Nat /\ r.moved \in BOOLEAN /\ Size = Len(list) /\ Size \in Nat /\ r.seen \in Seq(Devices)
  BY <1>2 DEF ClientRecord, Size, Vector
<1>4. CASE (r.n \notin 1..Size \/ ~Uuids(list[r.n])) /\ Answer(c, "error")
           /\ (r.pc = "test" => r.n \notin 1..Size)
  <2>1. CASE r.pc = "test"
    <3>1. r.moved = FALSE => r.n \in {0, Size + 1}
      BY <1>2, <1>3, <1>4, <2>1 DEF InPlace
    <3>2. Explained(r, "error")
      BY <1>3, <2>1, <3>1 DEF Explained
    <3> QED BY <1>1, <1>4, <3>2, AnswerActs DEF Answers
  <2>2. CASE r.pc = "length"
    <3>1. r.n > Size \/ ~Uuids(list[r.n])
      BY <1>2, <1>3, <1>4, <2>2 DEF InPlace
    <3>2. Explained(r, "error")
      BY <2>2, <3>1 DEF Explained
    <3> QED BY <1>1, <1>4, <3>2, AnswerActs DEF Answers
  <2>3. CASE r.pc = "take"
    <3>1. r.moved = TRUE
      BY <1>2, <1>3, <1>4, <2>3 DEF InPlace
    <3>2. Explained(r, "error")
      BY <2>3, <3>1 DEF Explained, Sensible
    <3> QED BY <1>1, <1>4, <3>2, AnswerActs DEF Answers
  <2> QED BY <1>2, <2>1, <2>2, <2>3 DEF Placed
<1>5. CASE r.pc = "test" /\ Answer(c, "noservices")
  BY <1>1, <1>5, PlainActs DEF Answers
<1>6. CASE \E to \in {"length", "take"} :
              r.n \in 1..Size /\ Uuids(list[r.n]) /\ Goto(c, to)
              /\ r.pc = (IF to = "take" THEN "length" ELSE "test")
  <2>1. PICK to \in {"length", "take"} :
           r.n \in 1..Size /\ Uuids(list[r.n]) /\ Goto(c, to)
           /\ r.pc = (IF to = "take" THEN "length" ELSE "test")
    BY <1>6
  <2>2. PICK q : q = [r EXCEPT !.pc = to]
    OBVIOUS
  <2>3. client' = [client EXCEPT ![c] = q]
    BY <1>1, <1>2, <2>1, <2>2 DEF Goto, ClientRecord
  <2>4. q \in ClientRecord /\ q.pc = to /\ q.n = r.n /\ q.seen = r.seen /\ q.moved = r.moved
        /\ q.answer = r.answer
    BY <1>2, <2>1, <2>2 DEF ClientRecord, Placed
  <2>5. InPlace(q)
    BY <1>2, <1>3, <2>1, <2>4 DEF InPlace, Lists, Placed
  <2>6. Explained(r, q.answer)
    BY <1>2, <2>4, Quiet
  <2> QED BY <1>1, <2>3, <2>5, <2>6, ClientActs
<1>7. CASE r.pc = "take" /\ r.n \in 1..Size /\ Answer(c, list[r.n])
  <2>1. list[r.n] \in Devices
    BY <1>3, <1>7 DEF Vector
  <2>2. Begins(r.seen, list)
    BY <1>2, <1>7 DEF InPlace, Lists, Placed
  <2>3. Explained(r, list[r.n])
    BY <1>7, <2>1, <2>2 DEF Explained, Begins, Sensible
  <2> QED BY <1>1, <1>7, <2>1, <2>3, AnswerActs
<1> QED BY <1>1, <1>4, <1>5, <1>6, <1>7 DEF TakeServices

\* Every request is in its place, and explained.
LEMMA RequestActs ==
  ASSUME Sensible, ClientsInPlace, Vector, NEW c \in Clients, Request(c)
  PROVE  ClientsInPlace' /\ AllExplained
<1>1. Still
  BY RequestUnmoved DEF Unmoved, Still, radio
<1>2. CASE GetPresence(c) \/ PostPresence(c)
  BY <1>1, <1>2, PresenceActs
<1>3. CASE GetDevices(c) \/ GetExtra(c) \/ PostExtra(c)
  BY <1>1, <1>3, AskListActs DEF GetDevices, GetExtra, PostExtra
<1>4. CASE ReadSize(c)
  BY <1>1, <1>4, ReadSizeActs
<1>5. CASE ReadGet(c)
  BY <1>1, <1>5, ReadGetActs
<1>6. CASE ReadUuids(c)
  BY <1>1, <1>6, ReadUuidsActs
<1>7. CASE GetServices(c)
  BY <1>1, <1>7, GetServicesActs
<1>8. CASE PostServices(c)
  BY <1>1, <1>8, PostServicesActs
<1>9. CASE TakeServices(c)
  BY <1>1, <1>9, TakeServicesActs
<1> QED BY <1>2, <1>3, <1>4, <1>5, <1>6, <1>7, <1>8, <1>9 DEF Request

-----------------------------------------------------------------------------
\* What happens under the requests.

\* The vector grows at its end and more services become known, if anything.
LEMMA GrowsActs ==
  ASSUME Sensible, ClientsInPlace, Vector, UNCHANGED client,
         list' = list \/ \E d \in Devices : list' = Append(list, d),
         adapter = "on" => adapter' = "on", \A d : Uuids(d) => Uuids(d)'
  PROVE  ClientsInPlace' /\ AllExplained
<1>1. /\ Len(list') \in Nat /\ Len(list') >= Len(list)
      /\ \A k \in 1..Len(list) : list'[k] = list[k]
      /\ \A p \in Seq(Devices) : Begins(p, list) => Begins(p, list')
  <2>1. CASE list' = list
    BY <2>1 DEF Vector
  <2>2. ASSUME NEW d \in Devices, list' = Append(list, d)
        PROVE  /\ Len(list') \in Nat /\ Len(list') >= Len(list)
               /\ \A k \in 1..Len(list) : list'[k] = list[k]
               /\ \A p \in Seq(Devices) : Begins(p, list) => Begins(p, list')
    <3>1. Len(list') = Len(list) + 1 /\ \A k \in 1..Len(list) : list'[k] = list[k]
      BY <2>2, AppendProperties DEF Vector
    <3>2. \A p \in Seq(Devices) : Begins(p, list) => Begins(p, list')
      BY <2>2, BeginsGrown DEF Vector
    <3> QED BY <3>1, <3>2 DEF Vector
  <2> QED BY <2>1, <2>2
<1>2. ASSUME NEW c \in Clients PROVE InPlace(client[c])'
  <2>1. PICK r : r = client[c]
    OBVIOUS
  <2>2. InPlace(r) /\ r \in ClientRecord /\ r = client'[c]
    BY <2>1 DEF ClientsInPlace
  <2>3. r.seen \in Seq(Devices) /\ r.n \in Nat
    BY <2>2 DEF ClientRecord
  <2>4. Begins(r.seen, list) => Begins(r.seen, list')
    BY <1>1, <2>3
  <2>5. Len(r.seen) \in Nat /\ Len(list) \in Nat
    BY <2>3, LenProperties DEF Vector
  <2>6. r.pc = "take" /\ r.moved = FALSE => r.n <= Len(list') /\ Uuids(list[r.n])'
    <3>1. r.pc = "take" /\ r.moved = FALSE => r.n \in 1..Len(list) /\ Uuids(list[r.n])
      BY <2>2, <2>3, <2>5 DEF InPlace
    <3>2. r.n \in 1..Len(list) /\ Uuids(list[r.n]) => r.n <= Len(list') /\ Uuids(list[r.n])'
      <4>1. r.n \in 1..Len(list) => list'[r.n] = list[r.n] /\ r.n <= Len(list')
        BY <1>1, <2>3, <2>5
      <4>2. PICK e : e = list[r.n]
        OBVIOUS
      <4>3. adapter = "on" /\ e \in known => adapter' = "on" /\ e \in known'
        BY DEF Uuids
      <4> QED BY <4>1, <4>2, <4>3 DEF Uuids
    <3> QED BY <3>1, <3>2
  <2>7. r.pc = "uuids" /\ r.moved = FALSE => Uuids(r.seen[Len(r.seen)])'
    <3>1. PICK e : e = r.seen[Len(r.seen)]
      OBVIOUS
    <3>2. adapter = "on" /\ e \in known => adapter' = "on" /\ e \in known'
      BY DEF Uuids
    <3> QED BY <2>2, <3>1, <3>2 DEF InPlace, Uuids
  <2>8. r.pc = "get" /\ r.moved = FALSE => Len(r.seen) + 1 <= Len(list')
    BY <1>1, <2>2, <2>5 DEF InPlace
  <2>9. r.pc = "test" /\ r.moved = FALSE => r.n <= Len(list') + 1
    BY <1>1, <2>2, <2>3, <2>5 DEF InPlace
  <2>10. InPlace(r)'
    BY <2>2, <2>4, <2>6, <2>7, <2>8, <2>9 DEF InPlace
  <2> QED BY <2>2, <2>10
<1>3. ASSUME NEW c \in Clients PROVE Explained(client[c], client'[c].answer)
  BY Quiet DEF ClientsInPlace
<1> QED BY <1>2, <1>3 DEF ClientsInPlace, AllExplained

\* The vector is cleared, of which every request takes notice and every listing dies.
LEMMA ClearActs ==
  ASSUME Sensible, ClientsInPlace, Clear
  PROVE  ClientsInPlace' /\ AllExplained
<1>1. list' = <<>> /\ Begins(<<>>, <<>>)
  <2>1. list' = <<>>
    BY DEF Clear
  <2>2. Begins(<<>>, <<>>)
    BY DEF Begins
  <2> QED BY <2>1, <2>2
<1>2. ASSUME NEW c \in Clients
      PROVE  client'[c] \in ClientRecord /\ InPlace(client[c])' /\ client'[c].answer = client[c].answer
  <2>1. PICK r : r = client[c]
    OBVIOUS
  <2>2. PICK m : m = (r.moved \/ Asking(c))
    OBVIOUS
  <2>3. PICK p : p = IF Listing(c) THEN r.seen ELSE <<>>
    OBVIOUS
  <2>4. PICK q : q = [r EXCEPT !.moved = m, !.seen = p]
    OBVIOUS
  <2>5. r \in ClientRecord /\ InPlace(r)
    BY <2>1 DEF ClientsInPlace
  <2>6. client'[c] = q
    BY <2>1, <2>2, <2>3, <2>4, <2>5 DEF Clear, ClientRecord
  <2>7. m \in BOOLEAN /\ p \in Seq(Devices)
    BY <2>2, <2>3, <2>5 DEF ClientRecord, Asking
  <2>8. q \in ClientRecord /\ q.pc = r.pc /\ q.seen = p /\ q.moved = m /\ q.answer = r.answer /\ q.n = r.n
    BY <2>4, <2>5, <2>7 DEF ClientRecord
  <2>9. r.pc # "idle" => m = TRUE
    BY <2>1, <2>2, <2>5 DEF Asking, ClientRecord
  <2>10. r.pc \in Lists => p = r.seen
    BY <2>1, <2>3 DEF Listing, Lists
  <2>11. r.pc \notin Lists => p = <<>>
    BY <2>1, <2>3 DEF Listing, Lists
  <2>12. InPlace(q)'
    BY <1>1, <2>5, <2>8, <2>9, <2>10, <2>11 DEF InPlace, Lists, Placed
  <2> QED BY <2>1, <2>6, <2>8, <2>12
<1>3. client' \in [Clients -> ClientRecord]
  BY <1>2 DEF Clear
<1>4. ASSUME NEW c \in Clients PROVE Explained(client[c], client'[c].answer)
  BY <1>2, Quiet DEF ClientsInPlace
<1> QED BY <1>2, <1>3, <1>4 DEF ClientsInPlace, AllExplained

\* Bluetooth is switched off: every request takes notice, the vector stays.
LEMMA SwitchOffActs ==
  ASSUME Sensible, ClientsInPlace, SwitchOff
  PROVE  ClientsInPlace' /\ AllExplained
<1>1. list' = list
  BY DEF SwitchOff
<1>2. ASSUME NEW c \in Clients
      PROVE  client'[c] \in ClientRecord /\ InPlace(client[c])' /\ client'[c].answer = client[c].answer
  <2>1. PICK r : r = client[c]
    OBVIOUS
  <2>2. PICK m : m = (r.moved \/ Asking(c))
    OBVIOUS
  <2>3. PICK q : q = [r EXCEPT !.moved = m]
    OBVIOUS
  <2>4. r \in ClientRecord /\ InPlace(r)
    BY <2>1 DEF ClientsInPlace
  <2>5. client'[c] = q
    BY <2>1, <2>2, <2>3, <2>4 DEF SwitchOff, ClientRecord
  <2>6. m \in BOOLEAN
    BY <2>2, <2>4 DEF ClientRecord, Asking
  <2>7. q \in ClientRecord /\ q.pc = r.pc /\ q.seen = r.seen /\ q.moved = m /\ q.answer = r.answer /\ q.n = r.n
    BY <2>3, <2>4, <2>6 DEF ClientRecord
  <2>8. r.pc # "idle" => m = TRUE
    BY <2>1, <2>2, <2>4 DEF Asking, ClientRecord
  <2>9. InPlace(q)'
    BY <1>1, <2>4, <2>7, <2>8 DEF InPlace, Lists, Placed
  <2> QED BY <2>1, <2>5, <2>7, <2>9
<1>3. client' \in [Clients -> ClientRecord]
  BY <1>2 DEF SwitchOff
<1>4. ASSUME NEW c \in Clients PROVE Explained(client[c], client'[c].answer)
  BY <1>2, Quiet DEF ClientsInPlace
<1> QED BY <1>2, <1>3, <1>4 DEF ClientsInPlace, AllExplained

IInv == ChainInv /\ ClientsInPlace

\* The vector is one.
LEMMA VectorThere == ASSUME ChainInv PROVE Vector
BY LenProperties DEF ChainInv, TypeOK, Vector

\* At first nobody asks.
LEMMA InitIInv == ASSUME Sensible, Init PROVE IInv
<1>1. Idle \in ClientRecord /\ Idle.seen = <<>> /\ Idle.pc = "idle"
  <2>1. <<>> \in Seq(Devices)
    OBVIOUS
  <2> QED BY <2>1 DEF Idle, ClientRecord, Sensible, Answers
<1>2. Begins(<<>>, list)
  BY DEF Init, Begins
<1>3. InPlace(Idle)
  BY <1>1, <1>2 DEF InPlace, Lists, Placed
<1> QED BY <1>1, <1>3, InitChainInv DEF IInv, ClientsInPlace, Init

\* Every step keeps the requests in place and explains its answers.
LEMMA NextActs == ASSUME Sensible, IInv, [Next]_vars PROVE ClientsInPlace' /\ AllExplained
<1>1. ClientsInPlace /\ Vector /\ TypeOK
  BY VectorThere DEF IInv, ChainInv
<1>2. CASE UNCHANGED <<client, list, adapter, known>>
  <2>1. \A d : Uuids(d) => Uuids(d)'
    BY <1>2 DEF Uuids
  <2> QED BY <1>1, <1>2, <2>1, GrowsActs
<1>3. CASE Create \/ TimerFires \/ UNCHANGED vars
  <2>1. UNCHANGED <<client, list, adapter, known>>
    BY <1>3 DEF Create, TimerFires, vars
  <2> QED BY <1>2, <2>1
<1>4. CASE OtherScan \/ ScanEnds \/ (\E d \in Devices : Finds(d)) \/ ReceiveFinished
  <2>1. UNCHANGED <<client, list, adapter, known>>
    BY <1>4 DEF OtherScan, ScanEnds, Finds, ReceiveFinished, radio
  <2> QED BY <1>2, <2>1
<1>5. CASE SwitchOn \/ \E d \in Devices : FetchEnds(d)
  <2>1. /\ UNCHANGED <<client, list>> /\ (adapter = "on" => adapter' = "on")
        /\ \A d : Uuids(d) => Uuids(d)'
    BY <1>5 DEF SwitchOn, FetchEnds, Uuids
  <2> QED BY <1>1, <2>1, GrowsActs
<1>6. CASE SwitchOff
  BY <1>1, <1>6, SwitchOffActs
<1>7. CASE ReceiveFound
  <2>1. mail # <<>> /\ Head(mail)[2] \in Devices
    BY <1>1, <1>7, Received DEF ReceiveFound, Receives, TypeOK
  <2>2. list' = list \/ \E d \in Devices : list' = Append(list, d)
    BY <1>7, <2>1 DEF ReceiveFound
  <2>3. UNCHANGED <<client, adapter>> /\ \A d : Uuids(d) => Uuids(d)'
    BY <1>7 DEF ReceiveFound, radio, Uuids
  <2> QED BY <1>1, <2>2, <2>3, GrowsActs
<1>8. CASE ReceiveStarted \/ ReceiveOff \/ ReceiveOn
  <2>1. Clear
    BY <1>8 DEF ReceiveStarted, ReceiveOff, ReceiveOn
  <2> QED BY <1>1, <2>1, ClearActs
<1>9. ASSUME NEW c \in Clients, Request(c) PROVE ClientsInPlace' /\ AllExplained
  BY <1>1, <1>9, RequestActs
<1> QED BY <1>3, <1>4, <1>5, <1>6, <1>7, <1>8, <1>9 DEF Next, Receive, Android

\* A place of a listing is answered with the device seen there, and a request fails only for the
\* causes listed, for any number of clients and devices (BluetoothServicesResource.java 80-84
\* and the loops of the other resources, against the clears of BluetoothService.java 114 and 132).
THEOREM AnswersAreExplained ==
  ASSUME Sensible
  PROVE  Spec => AnswersExplained
<1>1. Init => IInv
  BY InitIInv
<1>2. IInv /\ [Next]_vars => IInv'
  BY NextActs, NextChains DEF IInv
<1>3. IInv /\ [Next]_vars => [\A c \in Clients : Explained(client[c], client'[c].answer)]_vars
  BY NextActs DEF AllExplained
<1> QED BY <1>1, <1>2, <1>3, PTL DEF Spec, AnswersExplained
=============================================================================
