----------------------------- MODULE MdnsProofs ------------------------------
(***************************************************************************)
(* The query of the mDNS library, for every set of services, hosts and     *)
(* sockets: what it offers are the services that answered, as they are,    *)
(* and its questions set off no more answers than there are servers'       *)
(* sockets.  A server has one answer, of three or four records, which the  *)
(* query takes one after the other into one entry.                         *)
(***************************************************************************)
EXTENDS Mdns, SequenceFacts

-----------------------------------------------------------------------------
(* The one answer of a server.                                             *)

AnswerOf(s, a) ==
  IF a = Null
  THEN <<Record("PTR", Type, s), Record("SRV", s, HostOf[s]), Record("TXT", s, s)>>
  ELSE <<Record("PTR", Type, s), Record("SRV", s, HostOf[s]), Record("A", HostOf[s], a), Record("TXT", s, s)>>

\* Two sequences put together.
LEMMA Together ==
  ASSUME NEW S, NEW p \in Seq(S), NEW q \in Seq(S), NEW r \in Seq(S), Len(r) = Len(p) + Len(q),
         \A j \in 1..Len(p) : r[j] = p[j], \A j \in 1..Len(q) : r[Len(p) + j] = q[j]
  PROVE  p \o q = r
<1>1. Len(p) \in Nat /\ Len(q) \in Nat
  BY LenProperties
<1>2. /\ p \o q \in Seq(S) /\ Len(p \o q) = Len(p) + Len(q)
      /\ \A j \in 1..(Len(p) + Len(q)) : (p \o q)[j] = IF j <= Len(p) THEN p[j] ELSE q[j - Len(p)]
  BY ConcatProperties
<1>3. ASSUME NEW j \in 1..(Len(p) + Len(q)) PROVE (p \o q)[j] = r[j]
  <2>1. CASE j <= Len(p)
    BY <1>1, <1>2, <2>1
  <2>2. CASE ~(j <= Len(p))
    <3>1. j - Len(p) \in 1..Len(q) /\ Len(p) + (j - Len(p)) = j
      BY <1>1, <2>2
    <3>2. r[j] = q[j - Len(p)]
      BY <3>1
    <3> QED BY <1>2, <2>2, <3>2
  <2> QED BY <2>1, <2>2
<1> QED BY <1>2, <1>3, SeqEqual

\* The sequences in question, written out.
LEMMA InARow ==
  ASSUME NEW p, NEW v, NEW a, NEW x
  PROVE  /\ <<p>> \o (<<v>> \o <<>> \o <<x>>) = <<p, v, x>>
         /\ <<p>> \o (<<v>> \o <<a>> \o <<x>>) = <<p, v, a, x>>
<1> DEFINE S == {p, v, a, x}
<1>1. <<v>> \o <<>> = <<v>>
  BY ConcatEmptySeq, <<v>> \in Seq(S)
<1>2. <<v>> \o <<x>> = <<v, x>>
  <2> DEFINE l == <<v>>
             r == <<x>>
             z == <<v, x>>
  <2>1. /\ l \in Seq(S) /\ Len(l) = 1 /\ l[1] = v
        /\ r \in Seq(S) /\ Len(r) = 1 /\ r[1] = x
        /\ z \in Seq(S) /\ Len(z) = 2 /\ z[1] = v /\ z[2] = x
    OBVIOUS
  <2> HIDE DEF l, r, z, S
  <2>2. /\ Len(z) = Len(l) + Len(r)
        /\ \A j \in 1..Len(l) : z[j] = l[j]
        /\ \A j \in 1..Len(r) : z[Len(l) + j] = r[j]
    BY <2>1
  <2>3. l \o r = z
    BY <2>1, <2>2, Together
  <2> QED BY <2>3 DEF l, r, z
<1>3. <<p>> \o <<v, x>> = <<p, v, x>>
  <2> DEFINE l == <<p>>
             r == <<v, x>>
             z == <<p, v, x>>
  <2>1. /\ l \in Seq(S) /\ Len(l) = 1 /\ l[1] = p
        /\ r \in Seq(S) /\ Len(r) = 2 /\ r[1] = v /\ r[2] = x
        /\ z \in Seq(S) /\ Len(z) = 3 /\ z[1] = p /\ z[2] = v /\ z[3] = x
    OBVIOUS
  <2> HIDE DEF l, r, z, S
  <2>2. /\ Len(z) = Len(l) + Len(r)
        /\ \A j \in 1..Len(l) : z[j] = l[j]
        /\ \A j \in 1..Len(r) : z[Len(l) + j] = r[j]
    BY <2>1
  <2>3. l \o r = z
    BY <2>1, <2>2, Together
  <2> QED BY <2>3 DEF l, r, z
<1>4. <<v>> \o <<a>> = <<v, a>>
  <2> DEFINE l == <<v>>
             r == <<a>>
             z == <<v, a>>
  <2>1. /\ l \in Seq(S) /\ Len(l) = 1 /\ l[1] = v
        /\ r \in Seq(S) /\ Len(r) = 1 /\ r[1] = a
        /\ z \in Seq(S) /\ Len(z) = 2 /\ z[1] = v /\ z[2] = a
    OBVIOUS
  <2> HIDE DEF l, r, z, S
  <2>2. /\ Len(z) = Len(l) + Len(r)
        /\ \A j \in 1..Len(l) : z[j] = l[j]
        /\ \A j \in 1..Len(r) : z[Len(l) + j] = r[j]
    BY <2>1
  <2>3. l \o r = z
    BY <2>1, <2>2, Together
  <2> QED BY <2>3 DEF l, r, z
<1>5. <<v, a>> \o <<x>> = <<v, a, x>>
  <2> DEFINE l == <<v, a>>
             r == <<x>>
             z == <<v, a, x>>
  <2>1. /\ l \in Seq(S) /\ Len(l) = 2 /\ l[1] = v /\ l[2] = a
        /\ r \in Seq(S) /\ Len(r) = 1 /\ r[1] = x
        /\ z \in Seq(S) /\ Len(z) = 3 /\ z[1] = v /\ z[2] = a /\ z[3] = x
    OBVIOUS
  <2> HIDE DEF l, r, z, S
  <2>2. /\ Len(z) = Len(l) + Len(r)
        /\ \A j \in 1..Len(l) : z[j] = l[j]
        /\ \A j \in 1..Len(r) : z[Len(l) + j] = r[j]
    BY <2>1
  <2>3. l \o r = z
    BY <2>1, <2>2, Together
  <2> QED BY <2>3 DEF l, r, z
<1>6. <<p>> \o <<v, a, x>> = <<p, v, a, x>>
  <2> DEFINE l == <<p>>
             r == <<v, a, x>>
             z == <<p, v, a, x>>
  <2>1. /\ l \in Seq(S) /\ Len(l) = 1 /\ l[1] = p
        /\ r \in Seq(S) /\ Len(r) = 3 /\ r[1] = v /\ r[2] = a /\ r[3] = x
        /\ z \in Seq(S) /\ Len(z) = 4 /\ z[1] = p /\ z[2] = v /\ z[3] = a /\ z[4] = x
    OBVIOUS
  <2> HIDE DEF l, r, z, S
  <2>2. /\ Len(z) = Len(l) + Len(r)
        /\ \A j \in 1..Len(l) : z[j] = l[j]
        /\ \A j \in 1..Len(r) : z[Len(l) + j] = r[j]
    BY <2>1
  <2>3. l \o r = z
    BY <2>1, <2>2, Together
  <2> QED BY <2>3 DEF l, r, z
<1> QED BY <1>1, <1>2, <1>3, <1>4, <1>5, <1>6

\* A question for PTR records of the type is answered with all the zone has, one of a name not.
LEMMA OneAnswer ==
  ASSUME NEW s \in Services, NEW name \in Services \cup {Type}
  PROVE  Records(s, name, "PTR") = IF name = Type THEN AnswerOf(s, server[s].addr) ELSE <<>>
<1>1. s # Type
  BY NamesAssumption
<1>2. name \notin {Type, s} => Records(s, name, "PTR") = <<>>
  BY DEF Records
<1>3. name = s => Records(s, name, "PTR") = <<>>
  BY <1>1 DEF Records, InstanceRecords
<1>4. Records(s, Type, "PTR") = <<Record("PTR", Type, s)>> \o InstanceRecords(s, "ANY")
  <2>1. ServiceRecords(s, "PTR") = <<Record("PTR", Type, s)>> \o InstanceRecords(s, "ANY")
    BY DEF ServiceRecords
  <2> QED BY <1>1, <2>1 DEF Records
<1>5. InstanceRecords(s, "ANY") = <<Record("SRV", s, HostOf[s])>> \o ARecords(s) \o <<Record("TXT", s, s)>>
  BY DEF InstanceRecords
<1>6. <<Record("PTR", Type, s)>> \o (<<Record("SRV", s, HostOf[s])>> \o ARecords(s) \o <<Record("TXT", s, s)>>)
        = AnswerOf(s, server[s].addr)
  <2>1. PICK p, v, x, a : /\ p = Record("PTR", Type, s) /\ v = Record("SRV", s, HostOf[s])
                          /\ x = Record("TXT", s, s) /\ a = Record("A", HostOf[s], server[s].addr)
    OBVIOUS
  <2> QED BY <2>1, InARow DEF ARecords, AnswerOf
<1> QED BY <1>1, <1>2, <1>3, <1>4, <1>5, <1>6

-----------------------------------------------------------------------------
(* The records of a message, one after the other.                          *)

\* f is what After computes on the way to record n.
Partly(t, m, f, n) == f = [k \in 0..n |-> IF k = 0 THEN t ELSE Handled(f[k - 1], m[k])]

\* The recursion has a solution: a least length without one there is not.
LEMMA PartlyExists ==
  ASSUME NEW t, NEW m, NEW N \in Nat
  PROVE  \E f : Partly(t, m, f, N)
<1> DEFINE Bad == {n \in Nat : ~ \E f : Partly(t, m, f, n)}
<1>1. SUFFICES ASSUME Bad # {} PROVE FALSE
  OBVIOUS
<1>2. PICK n \in Bad : \A i \in Bad : n <= i
  BY <1>1, LeastNatural
<1>3. n # 0
  <2> DEFINE g == [k \in 0..0 |-> t]
  <2>1. Partly(t, m, g, 0)
    BY DEF Partly
  <2> QED BY <2>1
<1>4. n \in Nat /\ n - 1 \in Nat /\ n - 1 \notin Bad
  BY <1>2, <1>3
<1>5. PICK f : Partly(t, m, f, n - 1)
  BY <1>4
<1> DEFINE next == Handled(f[n - 1], m[n])
           g == [k \in 0..n |-> IF k = n THEN next ELSE f[k]]
           h == [k \in 0..n |-> IF k = 0 THEN t ELSE Handled(g[k - 1], m[k])]
<1>6. \A k \in 0..(n - 1) : f[k] = IF k = 0 THEN t ELSE Handled(f[k - 1], m[k])
  BY <1>5 DEF Partly
<1>7. ASSUME NEW k \in 0..n PROVE g[k] = h[k]
  <2>1. CASE k = 0
    <3>1. 0 \in 0..(n - 1) /\ k # n
      BY <1>3, <1>4, <2>1
    <3> QED BY <1>6, <2>1, <3>1
  <2>2. CASE k # 0 /\ k # n
    <3>1. k - 1 \in 0..n /\ k - 1 # n /\ k \in 0..(n - 1)
      BY <1>4, <2>2
    <3>2. g[k - 1] = f[k - 1] /\ g[k] = f[k]
      BY <3>1, <2>2
    <3> HIDE DEF g
    <3> QED BY <1>6, <2>2, <3>1, <3>2
  <2>3. CASE k = n
    <3>1. n - 1 \in 0..n /\ n - 1 # n
      BY <1>4
    <3>2. g[n - 1] = f[n - 1] /\ g[n] = next
      BY <3>1, <1>4
    <3> HIDE DEF g
    <3> QED BY <1>3, <2>3, <3>2
  <2> QED BY <2>1, <2>2, <2>3
<1>8. g = h
  BY <1>7, Zenon
<1>9. Partly(t, m, g, n)
  BY <1>8 DEF Partly
<1> QED BY <1>2, <1>9

\* What After is of three and of four records.
LEMMA AfterIs ==
  ASSUME NEW t, NEW m, Len(m) \in Nat
  PROVE  /\ Len(m) = 3 => After(t, m) = Handled(Handled(Handled(t, m[1]), m[2]), m[3])
         /\ Len(m) = 4 => After(t, m) = Handled(Handled(Handled(Handled(t, m[1]), m[2]), m[3]), m[4])
<1> DEFINE N == Len(m)
           F == CHOOSE f : f = [n \in 0..N |-> IF n = 0 THEN t ELSE Handled(f[n - 1], m[n])]
<1>1. \E f : Partly(t, m, f, N)
  BY PartlyExists
<1>2. Partly(t, m, F, N)
  BY <1>1, Zenon DEF Partly
<1>3. After(t, m) = F[N]
  BY Zenon DEF After
<1> HIDE DEF F
<1>4. \A n \in 0..N : F[n] = IF n = 0 THEN t ELSE Handled(F[n - 1], m[n])
  BY <1>2 DEF Partly
<1>5. F[0] = t
  BY <1>4
<1>6. ASSUME N = 3 PROVE F[N] = Handled(Handled(Handled(t, m[1]), m[2]), m[3])
  <2>1. F[1] = Handled(F[0], m[1]) /\ F[2] = Handled(F[1], m[2]) /\ F[3] = Handled(F[2], m[3])
    BY <1>4, <1>6
  <2> QED BY <1>5, <1>6, <2>1
<1>7. ASSUME N = 4 PROVE F[N] = Handled(Handled(Handled(Handled(t, m[1]), m[2]), m[3]), m[4])
  <2>1. /\ F[1] = Handled(F[0], m[1]) /\ F[2] = Handled(F[1], m[2]) /\ F[3] = Handled(F[2], m[3])
        /\ F[4] = Handled(F[3], m[4])
    BY <1>4, <1>7
  <2> QED BY <1>5, <1>7, <2>1
<1> QED BY <1>3, <1>6, <1>7

-----------------------------------------------------------------------------
(* What an answer makes of the query's table.                              *)

EntryRecord == [name : Services, host : Hosts \cup {Null}, port : Services \cup {Null},
                info : Services \cup {Null}, addr : Hosts \cup {Null}, sent : BOOLEAN]
Tab(T, E, k) == [table |-> T, entries |-> E, inp |-> k]
Filled(e, s, a) ==
  [e EXCEPT !.host = HostOf[s], !.port = s, !.info = s, !.addr = IF a = Null THEN e.addr ELSE a]

With(E, k, e) == [E EXCEPT ![k] = e]
Hosted(e, h, s) == [e EXCEPT !.host = h, !.port = s]
Told(e, x)      == [e EXCEPT !.info = x]
Placed(e, a)    == [e EXCEPT !.addr = a]

\* A name that stands for an entry, and one that does not yet.
LEMMA EnsuredOld ==
  ASSUME NEW T, NEW E, NEW i, NEW name \in DOMAIN T
  PROVE  EnsureName(Tab(T, E, i), name) = Tab(T, E, T[name])
BY DEF EnsureName, Tab

LEMMA EnsuredNew ==
  ASSUME NEW T, NEW E, NEW i, NEW name, name \notin DOMAIN T
  PROVE  EnsureName(Tab(T, E, i), name) = Tab(Bound(T, name, Len(E) + 1), Append(E, Blank(name)), Len(E) + 1)
BY DEF EnsureName, Tab

\* One name more.
LEMMA Named ==
  ASSUME NEW T, NEW name, NEW k
  PROVE  /\ DOMAIN Bound(T, name, k) = DOMAIN T \cup {name}
         /\ Bound(T, name, k)[name] = k
         /\ \A n \in DOMAIN T : n # name => Bound(T, name, k)[n] = T[n]
BY DEF Bound

\* The records, by their types.
LEMMA HandledPTR ==
  ASSUME NEW t, NEW rr, rr.type = "PTR"
  PROVE  Handled(t, rr) = EnsureName(t, rr.data)
BY DEF Handled

LEMMA HandledSRV ==
  ASSUME NEW t, NEW rr, rr.type = "SRV", NEW T, NEW E, NEW k, EnsureName(Alias(t, rr.name, rr.data), rr.name) = Tab(T, E, k)
  PROVE  Handled(t, rr) = Tab(T, With(E, k, Hosted(E[k], rr.data, rr.name)), k)
<1>1. PICK u : u = Tab(T, E, k)
  OBVIOUS
<1>2. Handled(t, rr) = Fill(u, Hosted(Found(u), rr.data, rr.name))
  BY <1>1 DEF Handled, Hosted
<1>3. Found(u) = E[k]
  BY <1>1 DEF Found, Tab
<1>4. PICK e : e = Hosted(E[k], rr.data, rr.name)
  OBVIOUS
<1>5. Fill(u, e) = Tab(T, With(E, k, e), k)
  BY <1>1 DEF Fill, Tab, With
<1> QED BY <1>2, <1>3, <1>4, <1>5

LEMMA HandledTXT ==
  ASSUME NEW t, NEW rr, rr.type = "TXT", NEW T, NEW E, NEW k, EnsureName(t, rr.name) = Tab(T, E, k)
  PROVE  Handled(t, rr) = Tab(T, With(E, k, Told(E[k], rr.data)), k)
<1>1. PICK u : u = Tab(T, E, k)
  OBVIOUS
<1>2. Handled(t, rr) = Fill(u, Told(Found(u), rr.data))
  BY <1>1 DEF Handled, Told
<1>3. Found(u) = E[k]
  BY <1>1 DEF Found, Tab
<1>4. PICK e : e = Told(E[k], rr.data)
  OBVIOUS
<1>5. Fill(u, e) = Tab(T, With(E, k, e), k)
  BY <1>1 DEF Fill, Tab, With
<1> QED BY <1>2, <1>3, <1>4, <1>5

LEMMA HandledA ==
  ASSUME NEW t, NEW rr, rr.type = "A", NEW T, NEW E, NEW k, EnsureName(t, rr.name) = Tab(T, E, k)
  PROVE  Handled(t, rr) = Tab(T, With(E, k, Placed(E[k], rr.data)), k)
<1>1. PICK u : u = Tab(T, E, k)
  OBVIOUS
<1>2. Handled(t, rr) = Fill(u, Placed(Found(u), rr.data))
  BY <1>1 DEF Handled, Placed
<1>3. Found(u) = E[k]
  BY <1>1 DEF Found, Tab
<1>4. PICK e : e = Placed(E[k], rr.data)
  OBVIOUS
<1>5. Fill(u, e) = Tab(T, With(E, k, e), k)
  BY <1>1 DEF Fill, Tab, With
<1> QED BY <1>2, <1>3, <1>4, <1>5

\* The records of a service's answer, when its name stands for entry k.  The host of a service
\* is no service.
LEMMA HandledName ==
  ASSUME NEW T, NEW E, NEW i, NEW s, s \in DOMAIN T
  PROVE  /\ Handled(Tab(T, E, i), Record("PTR", Type, s)) = Tab(T, E, T[s])
         /\ Handled(Tab(T, E, i), Record("TXT", s, s))
              = Tab(T, With(E, T[s], Told(E[T[s]], s)), T[s])
<1>1. PICK t, p, x, k : /\ t = Tab(T, E, i) /\ k = T[s]
                        /\ p = Record("PTR", Type, s) /\ x = Record("TXT", s, s)
  OBVIOUS
<1>2. p.type = "PTR" /\ p.data = s /\ x.type = "TXT" /\ x.name = s /\ x.data = s
  BY <1>1 DEF Record
<1>3. EnsureName(t, s) = Tab(T, E, k)
  BY <1>1, EnsuredOld
<1>4. Handled(t, p) = Tab(T, E, k)
  BY <1>2, <1>3, HandledPTR
<1>5. EnsureName(t, x.name) = Tab(T, E, k)
  BY <1>2, <1>3
<1>6. Handled(t, x) = Tab(T, With(E, k, Told(E[k], x.data)), k)
  BY <1>2, <1>5, HandledTXT
<1> QED BY <1>1, <1>2, <1>4, <1>6

LEMMA HandledTarget ==
  ASSUME NEW T, NEW E, NEW i, NEW s, NEW h, NEW k, s \in DOMAIN T, T[s] = k, h # s
  PROVE  Handled(Tab(T, E, i), Record("SRV", s, h))
           = Tab(Bound(T, h, k), With(E, k, Hosted(E[k], h, s)), k)
<1>1. PICK t, v, U, a : /\ t = Tab(T, E, i) /\ v = Record("SRV", s, h) /\ U = Bound(T, h, k)
                        /\ a = Alias(t, s, h)
  OBVIOUS
<1>2. v.type = "SRV" /\ v.name = s /\ v.data = h
  BY <1>1 DEF Record
<1>3. s \in DOMAIN U /\ U[s] = k
  BY <1>1 DEF Bound
<1>4. EnsureName(t, s) = Tab(T, E, k)
  BY <1>1, EnsuredOld
<1>5. a = Tab(U, E, k)
  BY <1>1, <1>4 DEF Alias, Tab
<1>6. EnsureName(a, s) = Tab(U, E, k)
  BY <1>3, <1>5, EnsuredOld
<1>7. EnsureName(Alias(t, v.name, v.data), v.name) = Tab(U, E, k)
  BY <1>1, <1>2, <1>6
<1>8. Handled(t, v) = Tab(U, With(E, k, Hosted(E[k], v.data, v.name)), k)
  BY <1>2, <1>7, HandledSRV
<1> QED BY <1>1, <1>2, <1>8

LEMMA HandledAddress ==
  ASSUME NEW T, NEW E, NEW i, NEW h, NEW a, h \in DOMAIN T
  PROVE  Handled(Tab(T, E, i), Record("A", h, a))
           = Tab(T, With(E, T[h], Placed(E[T[h]], a)), T[h])
<1>1. PICK t, b, k : t = Tab(T, E, i) /\ b = Record("A", h, a) /\ k = T[h]
  OBVIOUS
<1>2. b.type = "A" /\ b.name = h /\ b.data = a
  BY <1>1 DEF Record
<1>3. EnsureName(t, b.name) = Tab(T, E, k)
  BY <1>1, <1>2, EnsuredOld
<1>4. Handled(t, b) = Tab(T, With(E, k, Placed(E[k], b.data)), k)
  BY <1>2, <1>3, HandledA
<1> QED BY <1>1, <1>2, <1>4

\* The whole answer: it goes into one entry, which is the one its name stands for or a new one,
\* and the host's name stands for it from then on.
Answered(T, E, s, a, k, T1, E1) ==
  /\ s \in DOMAIN T => k = T[s] /\ T1 = T /\ E1 = E
  /\ s \notin DOMAIN T => k = Len(E) + 1 /\ T1 = Bound(T, s, k) /\ E1 = Append(E, Blank(s))
  /\ k \in DOMAIN E1 /\ E1 \in Seq(EntryRecord)
  /\ After(Tab(T, E, 0), AnswerOf(s, a)) = Tab(Bound(T1, HostOf[s], k), With(E1, k, Filled(E1[k], s, a)), k)

LEMMA AfterAnswer ==
  ASSUME NEW T, NEW E \in Seq(EntryRecord), NEW s \in Services, NEW a,
         s \in DOMAIN T => T[s] \in DOMAIN E
  PROVE  \E k, T1, E1 : Answered(T, E, s, a, k, T1, E1)
<1>1. \E k, T1, E1 :
        /\ s \in DOMAIN T => k = T[s] /\ T1 = T /\ E1 = E
        /\ s \notin DOMAIN T => k = Len(E) + 1 /\ T1 = Bound(T, s, k) /\ E1 = Append(E, Blank(s))
  BY Zenon
<1>2. PICK k, T1, E1 :
        /\ s \in DOMAIN T => k = T[s] /\ T1 = T /\ E1 = E
        /\ s \notin DOMAIN T => k = Len(E) + 1 /\ T1 = Bound(T, s, k) /\ E1 = Append(E, Blank(s))
  BY <1>1
<1>3. s \in DOMAIN T1 /\ T1[s] = k
  BY <1>2 DEF Bound
<1>4. k \in DOMAIN E1 /\ E1 \in Seq(EntryRecord)
  <2>1. Blank(s) \in EntryRecord
    BY DEF Blank, EntryRecord
  <2>2. Append(E, Blank(s)) \in Seq(EntryRecord) /\ Len(E) \in Nat /\ Len(Append(E, Blank(s))) = Len(E) + 1
    BY <2>1, AppendProperties, LenProperties
  <2>3. DOMAIN Append(E, Blank(s)) = 1..(Len(E) + 1)
    BY <2>2, LenProperties
  <2> QED BY <1>2, <2>2, <2>3
<1>5. PICK h : h = HostOf[s]
  OBVIOUS
<1>6. PICK U : U = Bound(T1, h, k)
  OBVIOUS
<1>7. PICK p, v, x, b, t0, t1 :
        /\ p = Record("PTR", Type, s) /\ v = Record("SRV", s, h) /\ x = Record("TXT", s, s)
        /\ b = Record("A", h, a) /\ t0 = Tab(T, E, 0) /\ t1 = Tab(T1, E1, k)
  OBVIOUS
<1>8. Handled(t0, p) = t1
  <2>1. p.type = "PTR" /\ p.data = s
    BY <1>7 DEF Record
  <2>2. Handled(t0, p) = EnsureName(t0, s)
    BY <2>1, HandledPTR
  <2>3. CASE s \in DOMAIN T
    <3>1. EnsureName(t0, s) = Tab(T, E, T[s])
      BY <1>7, <2>3, EnsuredOld
    <3> QED BY <1>2, <1>7, <2>2, <2>3, <3>1
  <2>4. CASE s \notin DOMAIN T
    <3>1. EnsureName(t0, s) = Tab(Bound(T, s, Len(E) + 1), Append(E, Blank(s)), Len(E) + 1)
      BY <1>7, <2>4, EnsuredNew
    <3> QED BY <1>2, <1>7, <2>2, <2>4, <3>1
  <2> QED BY <2>3, <2>4
<1> DEFINE E2 == With(E1, k, Hosted(E1[k], h, s))
           E3 == With(E2, k, Placed(E2[k], a))
<1>h. h # s
  BY <1>5, NamesAssumption
<1>u. s \in DOMAIN U /\ U[s] = k /\ h \in DOMAIN U /\ U[h] = k
  BY <1>3, <1>6 DEF Bound
<1>9. Handled(t1, v) = Tab(U, E2, k)
  BY <1>3, <1>6, <1>7, <1>h, HandledTarget
<1>10. Handled(Tab(U, E2, k), b) = Tab(U, E3, k)
  <2> HIDE DEF E2
  <2>1. Handled(Tab(U, E2, k), Record("A", h, a)) = Tab(U, With(E2, U[h], Placed(E2[U[h]], a)), U[h])
    BY <1>u, HandledAddress
  <2> QED BY <1>7, <1>u, <2>1
<1>11. ASSUME NEW F PROVE Handled(Tab(U, F, k), x) = Tab(U, With(F, k, Told(F[k], s)), k)
  <2>1. Handled(Tab(U, F, k), Record("TXT", s, s)) = Tab(U, With(F, U[s], Told(F[U[s]], s)), U[s])
    BY <1>u, HandledName
  <2> QED BY <1>7, <1>u, <2>1
<1> DEFINE m == AnswerOf(s, a)
<1>12. CASE a = Null
  <2>1. m = <<p, v, x>>
    BY <1>5, <1>7, <1>12 DEF AnswerOf
  <2>2. Len(m) = 3 /\ m[1] = p /\ m[2] = v /\ m[3] = x
    BY <2>1
  <2> HIDE DEF m, E2
  <2>3. After(t0, m) = Handled(Handled(Handled(t0, p), v), x)
    BY <2>2, AfterIs
  <2>4. After(t0, m) = Tab(U, With(E2, k, Told(E2[k], s)), k)
    BY <1>8, <1>9, <1>11, <2>3
  <2>5. With(E2, k, Told(E2[k], s)) = With(E1, k, Filled(E1[k], s, a))
    <3>1. E1[k] \in EntryRecord
      BY <1>4
    <3>2. E2[k] = [E1[k] EXCEPT !.host = h, !.port = s]
      BY <1>4 DEF E2, With, Hosted
    <3>3. Told(E2[k], s) = Filled(E1[k], s, a)
      BY <1>5, <1>12, <3>1, <3>2 DEF Filled, EntryRecord, Told
    <3> QED BY <1>4, <3>3 DEF E2, With
  <2>6. Answered(T, E, s, a, k, T1, E1)
    BY <1>2, <1>4, <1>5, <1>6, <1>7, <2>4, <2>5 DEF m, Answered
  <2> QED BY <2>6
<1>13. CASE a # Null
  <2>1. m = <<p, v, b, x>>
    BY <1>5, <1>7, <1>13 DEF AnswerOf
  <2>2. Len(m) = 4 /\ m[1] = p /\ m[2] = v /\ m[3] = b /\ m[4] = x
    BY <2>1
  <2> HIDE DEF m, E2, E3
  <2>3. After(t0, m) = Handled(Handled(Handled(Handled(t0, p), v), b), x)
    BY <2>2, AfterIs
  <2>4. After(t0, m) = Tab(U, With(E3, k, Told(E3[k], s)), k)
    BY <1>8, <1>9, <1>10, <1>11, <2>3
  <2>5. With(E3, k, Told(E3[k], s)) = With(E1, k, Filled(E1[k], s, a))
    <3>1. E1[k] \in EntryRecord
      BY <1>4
    <3>2. E2[k] = [E1[k] EXCEPT !.host = h, !.port = s]
      BY <1>4 DEF E2, With, Hosted
    <3>3. E3[k] = [E2[k] EXCEPT !.addr = a]
      BY <1>4 DEF E3, E2, With, Placed
    <3>4. Told(E3[k], s) = Filled(E1[k], s, a)
      BY <1>5, <1>13, <3>1, <3>2, <3>3 DEF Filled, EntryRecord, Told
    <3> QED BY <1>4, <3>4 DEF E2, E3, With
  <2>6. Answered(T, E, s, a, k, T1, E1)
    BY <1>2, <1>4, <1>5, <1>6, <1>7, <2>4, <2>5 DEF m, Answered
  <2> QED BY <2>6
<1> QED BY <1>12, <1>13


-----------------------------------------------------------------------------
(* The inductive invariant.  A server that was born keeps its address, so  *)
(* that all its answers are one; whatever is on its way to the query is    *)
(* such an answer; and the query has an entry for each service heard, with *)
(* what that answer says, under that service's name.                       *)

AllAnswers == { AnswerOf(s, a) : s \in Services, a \in Hosts \cup {Null} }
Parts(s, h, p, i, a, b) == [name |-> s, host |-> h, port |-> p, info |-> i, addr |-> a, sent |-> b]
Entry(s, a) == Parts(s, HostOf[s], s, s, a, a # Null)

Born(s)     == server[s] # Gone
IsAnswer(m) == \E s \in Services : Born(s) /\ m = AnswerOf(s, server[s].addr)

ServersOK ==
  /\ server \in [Services -> [loops : SUBSET Families, down : BOOLEAN, addr : Hosts \cup {Null}]]
  /\ \A s \in Services : server[s].addr \in {HostOf[s], Null}

MailOK ==
  /\ asked \subseteq [to : Services, family : Families, name : Services \cup {Type}]
  /\ \A q \in asked : Born(q.to)
  /\ \A r \in replies : IsAnswer(r.answer)

ReadersOK ==
  /\ recv \in [Families -> [pc : {"off", "read", "put", "ended"}, msg : AllAnswers \cup {<<>>}]]
  /\ \A f \in Families : IF recv[f].pc = "put" THEN IsAnswer(recv[f].msg) ELSE recv[f].msg = <<>>

ChannelOK ==
  /\ msgCh \in Seq(AllAnswers) /\ Len(msgCh) <= Capacity
  /\ \A i \in 1..Len(msgCh) : IsAnswer(msgCh[i])

EntriesOK ==
  /\ entries \in Seq(EntryRecord)
  /\ \A k \in 1..Len(entries) :
       LET s == entries[k].name IN s \in heard /\ table[s] = k /\ entries[k] = Entry(s, server[s].addr)

TableOK ==
  /\ heard \subseteq Services /\ \A s \in heard : Born(s)
  /\ \A n \in DOMAIN table : n \in heard \cup Hosts /\ table[n] \in 1..Len(entries)
  /\ \A s \in heard : s \in DOMAIN table /\ entries[table[s]].name = s

OffersOK ==
  /\ offered \in Seq(Nat) /\ Len(offered) <= Room
  /\ \A i \in 1..Len(offered) : offered[i] \in 1..Len(entries) /\ entries[offered[i]].sent

QueryInv ==
  /\ ServersOK /\ MailOK /\ ReadersOK /\ ChannelOK /\ EntriesOK /\ TableOK /\ OffersOK
  /\ phase \in {"idle", "open", "closed"}
  /\ phase = "idle" => \A f \in Families : recv[f].pc = "off"

\* What the count is of: questions asked and entries sent, and the answers on their way.
Firsts  == { q \in asked : q.name = Type }
Putting == { f \in Families : recv[f].pc = "put" }
Total(a, b, c, d, e, n) == a + b + c + d + e + n
Spent   == Total(queries, Cardinality(Sent), Cardinality(Firsts), Cardinality(replies),
                 Cardinality(Putting), Len(msgCh))
Limit   == 1 + Cardinality(Services) * Cardinality(Families)

CountInv ==
  /\ queries \in Nat /\ IsFiniteSet(Firsts) /\ IsFiniteSet(replies)
  /\ phase = "idle" => /\ queries = 0 /\ Sent = {} /\ asked = {} /\ replies = {}
                       /\ Putting = {} /\ msgCh = <<>>
  /\ Spent <= Limit

\* A server keeps its address for good.
LEMMA Steady ==
  ASSUME ServersOK, [Next]_vars
  PROVE  /\ ServersOK'
         /\ \A s \in Services : Born(s) => Born(s)' /\ server'[s].addr = server[s].addr
         /\ \A m : IsAnswer(m) => IsAnswer(m)'
<1>1. /\ ServersOK'
      /\ \A s \in Services : Born(s) => Born(s)' /\ server'[s].addr = server[s].addr
  <2>1. CASE UNCHANGED server
    BY <2>1 DEF ServersOK, Born
  <2>2. ASSUME NEW s \in Services, NewServer(s)
        PROVE  /\ ServersOK'
               /\ \A z \in Services : Born(z) => Born(z)' /\ server'[z].addr = server[z].addr
    <3>1. PICK fs \in SUBSET Families \ {{}}, addr \in Addresses(s) :
            server' = [server EXCEPT ![s] = [loops |-> fs, down |-> FALSE, addr |-> addr]]
      BY <2>2 DEF NewServer
    <3>2. addr \in Hosts \cup {Null} /\ addr \in {HostOf[s], Null} /\ ~Born(s)
      BY <2>2, <3>1, NamesAssumption DEF Addresses, NewServer, Born
    <3> QED BY <3>1, <3>2 DEF ServersOK, Born
  <2>3. ASSUME NEW s \in Services, Shutdown(s)
        PROVE  /\ ServersOK'
               /\ \A z \in Services : Born(z) => Born(z)' /\ server'[z].addr = server[z].addr
    BY <2>3 DEF Shutdown, ServersOK, Born, Gone
  <2>4. ASSUME NEW s \in Services, NEW f \in Families, RecvEnds(s, f)
        PROVE  /\ ServersOK'
               /\ \A z \in Services : Born(z) => Born(z)' /\ server'[z].addr = server[z].addr
    BY <2>4 DEF RecvEnds, ServersOK, Born, Gone
  <2>5. ASSUME NEW s \in Services, NEW f \in Families, HandleQuery(s, f) PROVE UNCHANGED server
    BY <2>5 DEF HandleQuery
  <2>6. ASSUME Query \/ HandleMessage \/ TakeEntry \/ Finish PROVE UNCHANGED server
    BY <2>6 DEF Query, HandleMessage, TakeEntry, Finish
  <2>7. ASSUME NEW f \in Families, Read(f) \/ Put(f) \/ Stop(f) PROVE UNCHANGED server
    BY <2>7 DEF Read, Put, Stop
  <2>8. CASE UNCHANGED vars
    BY <2>1, <2>8 DEF vars
  <2> QED BY <2>1, <2>2, <2>3, <2>4, <2>5, <2>6, <2>7, <2>8 DEF Next
<1>2. ASSUME NEW m, IsAnswer(m) PROVE IsAnswer(m)'
  <2>1. PICK s \in Services : Born(s) /\ m = AnswerOf(s, server[s].addr)
    BY <1>2 DEF IsAnswer
  <2>2. Born(s)' /\ m = AnswerOf(s, server'[s].addr)
    BY <1>1, <2>1
  <2> QED BY <2>2 DEF IsAnswer
<1> QED BY <1>1, <1>2

\* Whatever is an answer is one of AllAnswers and not empty; it names its service.
LEMMA AnswerIs ==
  ASSUME NEW s \in Services, NEW a \in Hosts \cup {Null}
  PROVE  /\ AnswerOf(s, a) \in AllAnswers /\ AnswerOf(s, a) # <<>>
         /\ { rr.data : rr \in {r \in ToSet(AnswerOf(s, a)) : r.type = "PTR"} } = {s}
<1>1. PICK p, v, x, b, h : /\ h = HostOf[s] /\ p = Record("PTR", Type, s) /\ v = Record("SRV", s, h)
                           /\ x = Record("TXT", s, s) /\ b = Record("A", h, a)
  OBVIOUS
<1>2. p.type = "PTR" /\ p.data = s /\ v.type = "SRV" /\ x.type = "TXT" /\ b.type = "A"
  BY <1>1 DEF Record
<1>3. PICK m : m = AnswerOf(s, a)
  OBVIOUS
<1>4. m = <<p, v, x>> \/ m = <<p, v, b, x>>
  BY <1>1, <1>3 DEF AnswerOf
<1>5. m # <<>> /\ p \in ToSet(m) /\ \A r \in ToSet(m) : r \in {p, v, x, b}
  <2>1. CASE m = <<p, v, x>>
    <3>1. DOMAIN m = 1..3 /\ m[1] = p /\ m[2] = v /\ m[3] = x
      BY <2>1
    <3> QED BY <3>1, 1 \in 1..3 DEF ToSet
  <2>2. CASE m = <<p, v, b, x>>
    <3>1. DOMAIN m = 1..4 /\ m[1] = p /\ m[2] = v /\ m[3] = b /\ m[4] = x
      BY <2>2
    <3> QED BY <3>1, 1 \in 1..4 DEF ToSet
  <2> QED BY <1>4, <2>1, <2>2
<1>6. {r \in ToSet(m) : r.type = "PTR"} = {p}
  BY <1>2, <1>5
<1>7. { rr.data : rr \in {r \in ToSet(m) : r.type = "PTR"} } = {s}
  BY <1>2, <1>6
<1> QED BY <1>3, <1>5, <1>7 DEF AllAnswers

\* What the answer writes into its service's entry, and into a blank one.
LEMMA PartsFilled ==
  ASSUME NEW s, NEW h, NEW p, NEW i, NEW o, NEW b, NEW a,
         NEW c, c = IF a = Null THEN o ELSE a
  PROVE  Filled(Parts(s, h, p, i, o, b), s, a) = Parts(s, HostOf[s], s, s, c, b)
<1>1. PICK e, g : e = Parts(s, h, p, i, o, b) /\ g = HostOf[s]
  OBVIOUS
<1>2. c = IF a = Null THEN e.addr ELSE a
  BY <1>1 DEF Parts
<1>3. Filled(e, s, a) = [[[[e EXCEPT !.host = g] EXCEPT !.port = s] EXCEPT !.info = s] EXCEPT !.addr = c]
  <2>1. Filled(e, s, a) = [e EXCEPT !.host = g, !.port = s, !.info = s, !.addr = c]
    BY <1>1, <1>2, Zenon DEF Filled
  <2> QED BY <2>1, Zenon
<1>4. PICK e1 : e1 = [e EXCEPT !.host = g]
  OBVIOUS
<1>5. e1 = Parts(s, g, p, i, o, b)
  <2>1. [Parts(s, h, p, i, o, b) EXCEPT !.host = g] = Parts(s, g, p, i, o, b)
    BY DEF Parts
  <2> QED BY <1>1, <1>4, <2>1
<1>6. PICK e2 : e2 = [e1 EXCEPT !.port = s]
  OBVIOUS
<1>7. e2 = Parts(s, g, s, i, o, b)
  <2>1. [Parts(s, g, p, i, o, b) EXCEPT !.port = s] = Parts(s, g, s, i, o, b)
    BY DEF Parts
  <2> QED BY <1>5, <1>6, <2>1
<1>8. PICK e3 : e3 = [e2 EXCEPT !.info = s]
  OBVIOUS
<1>9. e3 = Parts(s, g, s, s, o, b)
  <2>1. [Parts(s, g, s, i, o, b) EXCEPT !.info = s] = Parts(s, g, s, s, o, b)
    BY DEF Parts
  <2> QED BY <1>7, <1>8, <2>1
<1>10. [e3 EXCEPT !.addr = c] = Parts(s, g, s, s, c, b)
  <2>1. [Parts(s, g, s, s, o, b) EXCEPT !.addr = c] = Parts(s, g, s, s, c, b)
    BY DEF Parts
  <2> QED BY <1>9, <2>1
<1>11. Filled(e, s, a) = Parts(s, g, s, s, c, b)
  BY <1>3, <1>4, <1>6, <1>8, <1>10, Zenon
<1> QED BY <1>1, <1>11

Unsent(s, a) == Parts(s, HostOf[s], s, s, a, FALSE)

LEMMA FilledIs ==
  ASSUME NEW s \in Services, NEW a \in Hosts \cup {Null}
  PROVE  /\ Filled(Entry(s, a), s, a) = Entry(s, a)
         /\ Filled(Blank(s), s, a) = Unsent(s, a)
         /\ Entry(s, a) \in EntryRecord
         /\ Complete(Entry(s, a)) <=> a # Null
         /\ Complete(Unsent(s, a)) <=> a # Null
         /\ Entry(s, a).name = s /\ Unsent(s, a).name = s
         /\ Entry(s, a).sent <=> a # Null
         /\ ~Unsent(s, a).sent
         /\ a = Null => Unsent(s, a) = Entry(s, a)
         /\ a # Null => [Unsent(s, a) EXCEPT !.sent = TRUE] = Entry(s, a)
<1>1. PICK h, b : h = HostOf[s] /\ b = (a # Null)
  OBVIOUS
<1>2. h \in Hosts /\ b \in BOOLEAN /\ s # Null
  BY <1>1, NamesAssumption
<1>3. Entry(s, a) = Parts(s, h, s, s, a, b) /\ Unsent(s, a) = Parts(s, h, s, s, a, FALSE)
  BY <1>1, Zenon DEF Entry, Unsent
<1>4. Filled(Entry(s, a), s, a) = Entry(s, a)
  <2>1. Filled(Parts(s, h, s, s, a, b), s, a) = Parts(s, HostOf[s], s, s, a, b)
    <3>1. a = IF a = Null THEN a ELSE a
      OBVIOUS
    <3> QED BY <3>1, PartsFilled
  <2> QED BY <1>1, <1>2, <1>3, <2>1, Zenon
<1>5. Filled(Blank(s), s, a) = Unsent(s, a)
  <2>1. Blank(s) = Parts(s, Null, Null, Null, Null, FALSE)
    BY DEF Blank, Parts
  <2>2. Filled(Parts(s, Null, Null, Null, Null, FALSE), s, a) = Parts(s, HostOf[s], s, s, a, FALSE)
    <3>1. a = IF a = Null THEN Null ELSE a
      OBVIOUS
    <3>2. PICK n : n = FALSE
      OBVIOUS
    <3>3. Filled(Parts(s, Null, Null, Null, Null, n), s, a) = Parts(s, HostOf[s], s, s, a, n)
      BY <3>1, PartsFilled
    <3> QED BY <3>2, <3>3, Zenon
  <2> QED BY <1>1, <1>3, <2>1, <2>2, Zenon
<1>6. Parts(s, h, s, s, a, b) \in EntryRecord
  BY <1>2 DEF Parts, EntryRecord
<1>7. ASSUME NEW d \in BOOLEAN
      PROVE  LET e == Parts(s, h, s, s, a, d) IN /\ e.name = s /\ e.sent = d /\ (Complete(e) <=> a # Null)
  BY <1>2 DEF Parts, Complete
<1>8. a = Null => Unsent(s, a) = Entry(s, a)
  BY <1>1, <1>3
<1>9. a # Null => [Unsent(s, a) EXCEPT !.sent = TRUE] = Entry(s, a)
  <2>1. PICK t : t = TRUE
    OBVIOUS
  <2>2. [Parts(s, h, s, s, a, FALSE) EXCEPT !.sent = t] = Parts(s, h, s, s, a, t)
    BY DEF Parts
  <2>3. a # Null => b = t
    BY <1>1, <2>1
  <2> QED BY <1>3, <2>1, <2>2, <2>3
<1>10. /\ Complete(Entry(s, a)) <=> a # Null
       /\ Entry(s, a).name = s
       /\ Entry(s, a).sent <=> a # Null
  <2>1. /\ Parts(s, h, s, s, a, b).name = s
        /\ Parts(s, h, s, s, a, b).sent = b
        /\ Complete(Parts(s, h, s, s, a, b)) <=> a # Null
    BY <1>2, <1>7
  <2> QED BY <1>1, <1>3, <2>1, Zenon
<1>11. /\ Complete(Unsent(s, a)) <=> a # Null
       /\ Unsent(s, a).name = s
       /\ ~Unsent(s, a).sent
  <2>1. /\ Parts(s, h, s, s, a, FALSE).name = s
        /\ Parts(s, h, s, s, a, FALSE).sent = FALSE
        /\ Complete(Parts(s, h, s, s, a, FALSE)) <=> a # Null
    BY <1>7
  <2> QED BY <1>3, <2>1, Zenon
<1> QED BY <1>3, <1>4, <1>5, <1>6, <1>8, <1>9, <1>10, <1>11, Zenon

\* What a message does to the query: its service has an entry from then on, which says what the
\* answer says.  Either the entry is complete now, marked and offered, or its name is asked for.
Learnt(s, k) ==
  /\ Born(s) /\ Head(msgCh) = AnswerOf(s, server[s].addr)
  /\ heard' = heard \cup {s}
  /\ k \in 1..Len(entries') /\ entries' \in Seq(EntryRecord) /\ entries'[k] = Entry(s, server[s].addr)
  /\ \/ s \in heard /\ k = table[s] /\ entries' = entries /\ table' = Bound(table, HostOf[s], k)
     \/ /\ s \notin heard /\ k = Len(entries) + 1 /\ Len(entries') = Len(entries) + 1
        /\ \A j \in 1..Len(entries) : entries'[j] = entries[j]
        /\ table' = Bound(Bound(table, s, k), HostOf[s], k)
  /\ \/ /\ s \notin heard /\ server[s].addr # Null
        /\ offered' = IF Len(offered) < Room THEN Append(offered, k) ELSE offered
        /\ UNCHANGED <<asked, phase, queries>>
     \/ /\ s \in heard \/ server[s].addr = Null
        /\ SendQuery(s, Listening)
        /\ UNCHANGED <<phase, offered>>

LEMMA MessageLearnt ==
  ASSUME QueryInv, HandleMessage
  PROVE  \E s \in Services, k \in Nat : Learnt(s, k)
<1>1. PICK s \in Services : Born(s) /\ Head(msgCh) = AnswerOf(s, server[s].addr)
  <2>1. msgCh # <<>> /\ msgCh \in Seq(AllAnswers)
    BY DEF HandleMessage, QueryInv, ChannelOK
  <2>2. 1 \in 1..Len(msgCh) /\ Head(msgCh) = msgCh[1]
    BY <2>1
  <2> QED BY <2>2 DEF QueryInv, ChannelOK, IsAnswer
<1> DEFINE a == server[s].addr
<1>2. a \in Hosts \cup {Null}
  BY DEF QueryInv, ServersOK
<1>3. s \in DOMAIN table <=> s \in heard
  BY NamesAssumption DEF QueryInv, TableOK
<1>4. entries \in Seq(EntryRecord) /\ DOMAIN entries = 1..Len(entries) /\ Len(entries) \in Nat
  BY DEF QueryInv, EntriesOK
<1>5. s \in DOMAIN table => /\ table[s] \in DOMAIN entries
                            /\ entries[table[s]] = Entry(s, a)
  BY <1>3, <1>4 DEF QueryInv, TableOK, EntriesOK
<1>6. PICK k, T1, E1 :
        /\ s \in DOMAIN table => k = table[s] /\ T1 = table /\ E1 = entries
        /\ s \notin DOMAIN table => k = Len(entries) + 1 /\ T1 = Bound(table, s, k) /\ E1 = Append(entries, Blank(s))
        /\ k \in DOMAIN E1 /\ E1 \in Seq(EntryRecord)
        /\ After(Tab(table, entries, 0), AnswerOf(s, a))
             = Tab(Bound(T1, HostOf[s], k), With(E1, k, Filled(E1[k], s, a)), k)
  <2> HIDE DEF a
  <2>1. \E k, T1, E1 : Answered(table, entries, s, a, k, T1, E1)
    BY <1>4, <1>5, AfterAnswer
  <2>2. PICK k, T1, E1 : Answered(table, entries, s, a, k, T1, E1)
    BY <2>1
  <2> QED BY <2>2, Zenon DEF Answered
<1>7. PICK t, E2, e : /\ t = After([table |-> table, entries |-> entries, inp |-> 0], Head(msgCh))
                      /\ E2 = With(E1, k, Filled(E1[k], s, a)) /\ e = Filled(E1[k], s, a)
  OBVIOUS
<1>8. t.table = Bound(T1, HostOf[s], k) /\ t.entries = E2 /\ t.inp = k /\ E2[k] = e
  <2> HIDE DEF a
  <2>1. t = After(Tab(table, entries, 0), AnswerOf(s, a))
    BY <1>1, <1>7 DEF Tab, a
  <2>2. t = Tab(Bound(T1, HostOf[s], k), E2, k)
    BY <1>6, <1>7, <2>1
  <2>3. E2[k] = e
    BY <1>6, <1>7 DEF With
  <2> QED BY <2>2, <2>3 DEF Tab
<1>9. k \in Nat /\ k # 0
  BY <1>6
<1>10. /\ s \in heard => e = Entry(s, a)
       /\ s \notin heard => e = Unsent(s, a)
  <2>1. CASE s \in heard
    <3>1. E1[k] = Entry(s, a)
      BY <1>3, <1>5, <1>6, <2>1
    <3> HIDE DEF a
    <3> QED BY <1>2, <1>7, <2>1, <3>1, FilledIs
  <2>2. CASE s \notin heard
    <3>1. E1[k] = Blank(s)
      BY <1>3, <1>4, <1>6, <2>2
    <3> HIDE DEF a
    <3> QED BY <1>2, <1>7, <2>2, <3>1, FilledIs
  <2> QED BY <2>1, <2>2
<1>11. /\ e.name = s
       /\ Complete(e) <=> a # Null
       /\ e.sent <=> s \in heard /\ a # Null
       /\ ~Complete(e) \/ e.sent => e = Entry(s, a)
       /\ Complete(e) /\ ~e.sent => [e EXCEPT !.sent = TRUE] = Entry(s, a)
  <2> HIDE DEF a
  <2>1. CASE s \in heard
    <3>1. e = Entry(s, a)
      BY <1>10, <2>1
    <3>2. e.name = s /\ (Complete(e) <=> a # Null) /\ (e.sent <=> a # Null)
      BY <1>2, <3>1, FilledIs, Zenon
    <3> QED BY <2>1, <3>1, <3>2, Zenon
  <2>2. CASE s \notin heard
    <3>1. e = Unsent(s, a)
      BY <1>10, <2>2
    <3>2. e.name = s /\ (Complete(e) <=> a # Null) /\ ~e.sent
      BY <1>2, <3>1, FilledIs, Zenon
    <3>3. a = Null => e = Entry(s, a)
      BY <1>2, <3>1, FilledIs, Zenon
    <3>4. a # Null => [e EXCEPT !.sent = TRUE] = Entry(s, a)
      BY <1>2, <3>1, FilledIs
    <3> QED BY <2>2, <3>1, <3>2, <3>3, <3>4, Zenon
  <2> QED BY <2>1, <2>2
<1>12. /\ table' = t.table
       /\ heard' = heard \cup { rr.data : rr \in {r \in ToSet(Head(msgCh)) : r.type = "PTR"} }
       /\ \/ /\ Complete(e) /\ ~e.sent
             /\ entries' = Marked(t)
             /\ offered' = IF Len(offered) < Room THEN Append(offered, k) ELSE offered
             /\ UNCHANGED <<asked, phase, queries>>
          \/ /\ ~Complete(e) \/ e.sent
             /\ entries' = t.entries
             /\ SendQuery(e.name, Listening)
             /\ UNCHANGED <<phase, offered>>
  BY <1>7, <1>8, <1>9 DEF HandleMessage
<1>13. heard' = heard \cup {s}
  BY <1>1, <1>2, <1>12, AnswerIs
<1>14. entries' = With(E1, k, Entry(s, a))
  <2>1. CASE Complete(e) /\ ~e.sent
    <3>1. entries' = [E2 EXCEPT ![k].sent = TRUE]
      BY <1>8, <1>11, <1>12, <2>1 DEF Marked
    <3>2. [e EXCEPT !.sent = TRUE] = Entry(s, a)
      BY <1>11, <2>1
    <3> QED BY <1>6, <1>7, <1>8, <3>1, <3>2 DEF With
  <2>2. CASE ~Complete(e) \/ e.sent
    <3>1. e = Entry(s, a)
      BY <1>11, <2>2
    <3> QED BY <1>7, <1>8, <1>11, <1>12, <2>2, <3>1
  <2> QED BY <2>1, <2>2
<1>15. Entry(s, a) \in EntryRecord
  BY <1>2, FilledIs
<1>16. /\ entries' \in Seq(EntryRecord) /\ Len(entries') = Len(E1) /\ entries'[k] = Entry(s, a)
       /\ k \in 1..Len(entries')
       /\ \A j \in 1..Len(E1) : j # k => entries'[j] = E1[j]
  <2> HIDE DEF a
  <2> QED BY <1>6, <1>14, <1>15 DEF With
<1>17. \/ s \in heard /\ k = table[s] /\ entries' = entries /\ table' = Bound(table, HostOf[s], k)
       \/ /\ s \notin heard /\ k = Len(entries) + 1 /\ Len(entries') = Len(entries) + 1
          /\ \A j \in 1..Len(entries) : entries'[j] = entries[j]
          /\ table' = Bound(Bound(table, s, k), HostOf[s], k)
  <2>1. CASE s \in heard
    <3>1. E1 = entries /\ k = table[s] /\ E1[k] = Entry(s, a)
      BY <1>3, <1>5, <1>6, <2>1
    <3>2. entries' = entries
      BY <1>4, <1>14, <3>1 DEF With
    <3> QED BY <1>3, <1>6, <1>8, <1>12, <2>1, <3>1, <3>2
  <2>2. CASE s \notin heard
    <3>1. k = Len(entries) + 1 /\ E1 = Append(entries, Blank(s)) /\ T1 = Bound(table, s, k)
      BY <1>3, <1>6, <2>2
    <3>2. Len(E1) = Len(entries) + 1 /\ \A j \in 1..Len(entries) : E1[j] = entries[j]
      BY <1>4, <3>1
    <3>3. \A j \in 1..Len(entries) : entries'[j] = entries[j]
      BY <1>4, <1>16, <3>1, <3>2
    <3> QED BY <1>8, <1>12, <1>16, <2>2, <3>1, <3>2, <3>3
  <2> QED BY <2>1, <2>2
<1>18. \/ /\ s \notin heard /\ a # Null
          /\ offered' = IF Len(offered) < Room THEN Append(offered, k) ELSE offered
          /\ UNCHANGED <<asked, phase, queries>>
       \/ /\ s \in heard \/ a = Null
          /\ SendQuery(s, Listening)
          /\ UNCHANGED <<phase, offered>>
  BY <1>11, <1>12
<1>19. Learnt(s, k)
  BY <1>1, <1>13, <1>16, <1>17, <1>18 DEF Learnt
<1> QED BY <1>9, <1>19

-----------------------------------------------------------------------------
(* The invariant is kept.                                                  *)

LEMMA InitQuery == Init => QueryInv
<1> SUFFICES ASSUME Init PROVE QueryInv
  OBVIOUS
<1>1. ServersOK
  BY DEF Init, ServersOK, Gone
<1>2. MailOK /\ TableOK
  BY DEF Init, MailOK, TableOK
<1>3. ReadersOK
  BY DEF Init, ReadersOK
<1>4. ChannelOK /\ OffersOK
  BY BoundsAssumption DEF Init, ChannelOK, OffersOK
<1>5. EntriesOK
  BY DEF Init, EntriesOK
<1> QED BY <1>1, <1>2, <1>3, <1>4, <1>5 DEF Init, QueryInv

\* What a step leaves alone stays right, as the servers' addresses do.
LEMMA KeptParts ==
  ASSUME QueryInv, [Next]_vars
  PROVE  /\ UNCHANGED <<asked, replies>> => MailOK'
         /\ UNCHANGED recv => ReadersOK'
         /\ UNCHANGED msgCh => ChannelOK'
         /\ UNCHANGED <<table, entries, heard>> => EntriesOK' /\ TableOK'
         /\ UNCHANGED <<entries, offered>> => OffersOK'
<1>1. /\ \A s \in Services : Born(s) => Born(s)' /\ server'[s].addr = server[s].addr
      /\ \A m : IsAnswer(m) => IsAnswer(m)'
  BY Steady DEF QueryInv
<1>2. ASSUME UNCHANGED <<asked, replies>> PROVE MailOK'
  <2>1. MailOK
    BY DEF QueryInv
  <2>2. \A q \in asked' : q \in asked /\ Born(q.to)'
    BY <1>1, <1>2, <2>1 DEF MailOK
  <2>3. \A r \in replies' : IsAnswer(r.answer)'
    BY <1>1, <1>2, <2>1 DEF MailOK
  <2> QED BY <1>2, <2>1, <2>2, <2>3 DEF MailOK
<1>3. ASSUME UNCHANGED recv PROVE ReadersOK'
  BY <1>1, <1>3 DEF QueryInv, ReadersOK
<1>4. ASSUME UNCHANGED msgCh PROVE ChannelOK'
  BY <1>1, <1>4 DEF QueryInv, ChannelOK
<1>5. ASSUME UNCHANGED <<table, entries, heard>> PROVE EntriesOK' /\ TableOK'
  <2>1. \A s \in heard : s \in Services /\ Born(s)' /\ server'[s].addr = server[s].addr
    BY <1>1 DEF QueryInv, TableOK
  <2>2. \A k \in 1..Len(entries) :
          LET s == entries[k].name IN s \in heard /\ table[s] = k /\ entries[k] = Entry(s, server'[s].addr)
    BY <2>1 DEF QueryInv, EntriesOK
  <2>3. EntriesOK'
    BY <1>5, <2>2 DEF QueryInv, EntriesOK
  <2>4. TableOK'
    BY <1>5, <2>1 DEF QueryInv, TableOK
  <2> QED BY <2>3, <2>4
<1>6. ASSUME UNCHANGED <<entries, offered>> PROVE OffersOK'
  BY <1>6 DEF QueryInv, OffersOK
<1> QED BY <1>2, <1>3, <1>4, <1>5, <1>6

\* A question goes to servers that were born, for the type or for a service.
LEMMA QuestionsOK ==
  ASSUME QueryInv, [Next]_vars, NEW name \in Services \cup {Type}, NEW fs \in SUBSET Families,
         SendQuery(name, fs), UNCHANGED replies
  PROVE  MailOK'
<1>1. /\ \A s \in Services : Born(s) => Born(s)'
      /\ \A m : IsAnswer(m) => IsAnswer(m)'
  BY Steady DEF QueryInv
<1>2. ASSUME NEW q \in asked'
      PROVE  q \in [to : Services, family : Families, name : Services \cup {Type}] /\ Born(q.to)'
  <2>1. CASE q \in asked
    BY <1>1, <2>1 DEF QueryInv, MailOK
  <2>2. CASE q \notin asked
    <3>1. /\ q \in [to : Services, family : fs, name : {name}]
          /\ q.family \in server[q.to].loops
      BY <2>2 DEF SendQuery
    <3>2. Born(q.to)
      BY <3>1 DEF Born, Gone
    <3> QED BY <1>1, <3>1, <3>2
  <2> QED BY <2>1, <2>2
<1>3. \A r \in replies' : IsAnswer(r.answer)'
  BY <1>1 DEF QueryInv, MailOK
<1> QED BY <1>2, <1>3 DEF MailOK

LEMMA MessageKeeps ==
  ASSUME QueryInv, HandleMessage
  PROVE  QueryInv'
<1>n. [Next]_vars
  BY DEF Next
<1>0. /\ ServersOK'
      /\ \A s \in Services : Born(s) => Born(s)' /\ server'[s].addr = server[s].addr
      /\ \A m : IsAnswer(m) => IsAnswer(m)'
  BY <1>n, Steady DEF QueryInv
<1>1. PICK s \in Services, k \in Nat : Learnt(s, k)
  BY MessageLearnt
<1>2. /\ msgCh # <<>> /\ msgCh' = Tail(msgCh) /\ UNCHANGED <<server, replies, recv>>
      /\ phase = "open"
  BY DEF HandleMessage
<1>3. PICK N, a, h : N \in Nat /\ N = Len(entries) /\ a = server[s].addr /\ h = HostOf[s]
  BY LenProperties DEF QueryInv, EntriesOK
<1>4. s \notin Hosts /\ h \in Hosts /\ h # s
  BY <1>3, NamesAssumption
<1>5. ReadersOK'
  BY <1>n, <1>2, KeptParts
<1>6. ChannelOK'
  <2>1. /\ msgCh \in Seq(AllAnswers) /\ msgCh # <<>> /\ Len(msgCh) <= Capacity
        /\ \A i \in 1..Len(msgCh) : IsAnswer(msgCh[i])
    BY <1>2 DEF QueryInv, ChannelOK
  <2>2. /\ Tail(msgCh) \in Seq(AllAnswers) /\ Len(Tail(msgCh)) = Len(msgCh) - 1 /\ Len(msgCh) \in Nat
        /\ \A i \in 1..Len(Tail(msgCh)) : Tail(msgCh)[i] = msgCh[i + 1]
    BY <2>1, HeadTailProperties, LenProperties
  <2>3. ASSUME NEW i \in 1..Len(msgCh') PROVE \E m : m = msgCh'[i] /\ IsAnswer(m)'
    <3>1. PICK m : m = msgCh'[i]
      OBVIOUS
    <3>2. i + 1 \in 1..Len(msgCh) /\ m = msgCh[i + 1]
      BY <1>2, <2>2, <3>1
    <3>3. IsAnswer(m)
      BY <2>1, <3>2
    <3> QED BY <1>0, <3>1, <3>3
  <2>4. (\A i \in 1..Len(msgCh) : IsAnswer(msgCh[i]))'
    BY <2>3 DEF IsAnswer
  <2> QED BY <1>2, <2>1, <2>2, <2>4, BoundsAssumption DEF ChannelOK
<1>7. MailOK' /\ phase' = "open"
  <2>1. CASE UNCHANGED <<asked, phase, queries>>
    BY <1>n, <1>2, <2>1, KeptParts
  <2>2. CASE SendQuery(s, Listening) /\ UNCHANGED phase
    <3>1. Listening \in SUBSET Families
      BY DEF Listening
    <3> QED BY <1>n, <1>2, <2>2, <3>1, QuestionsOK
  <2> QED BY <1>1, <2>1, <2>2 DEF Learnt
<1>8. /\ N <= Len(entries') /\ Len(entries') \in Nat /\ k \in 1..Len(entries')
      /\ \A j \in 1..N : entries'[j] = entries[j]
      /\ \A j \in 1..Len(entries') : j \in 1..N \/ j = k
      /\ entries'[k] = Entry(s, a) /\ Entry(s, a).name = s
  <2>1. a \in Hosts \cup {Null}
    BY <1>3 DEF QueryInv, ServersOK
  <2>2. Entry(s, a).name = s
    BY <2>1, FilledIs
  <2> QED BY <1>1, <1>3, <2>2 DEF Learnt
<1>9. /\ heard' = heard \cup {s} /\ s \in DOMAIN table' /\ table'[s] = k
      /\ \A n \in DOMAIN table' : n \in DOMAIN table \cup {s, h} /\ (n \in {s, h} => table'[n] = k)
      /\ \A n \in DOMAIN table : n \notin {s, h} => n \in DOMAIN table' /\ table'[n] = table[n]
  <2>1. CASE s \in heard /\ k = table[s] /\ entries' = entries /\ table' = Bound(table, HostOf[s], k)
    <3>1. s \in DOMAIN table
      BY <2>1 DEF QueryInv, TableOK
    <3> QED BY <1>1, <1>3, <1>4, <2>1, <3>1 DEF Bound, Learnt
  <2>2. CASE table' = Bound(Bound(table, s, k), HostOf[s], k)
    BY <1>1, <1>3, <1>4, <2>2 DEF Bound, Learnt
  <2> QED BY <1>1, <2>1, <2>2 DEF Learnt
<1>10. EntriesOK'
  <2>1. ASSUME NEW j \in 1..Len(entries')
        PROVE  /\ entries'[j].name \in heard' /\ table'[entries'[j].name] = j
               /\ entries'[j] = Entry(entries'[j].name, server'[entries'[j].name].addr)
    <3>1. CASE j = k
      BY <1>2, <1>3, <1>8, <1>9, <3>1
    <3>2. CASE j # k
      <4>1. PICK z : z = entries[j].name
        OBVIOUS
      <4>2. /\ j \in 1..N /\ entries'[j] = entries[j] /\ z \in heard /\ table[z] = j
            /\ entries[j] = Entry(z, server[z].addr)
        BY <1>3, <1>8, <3>2, <4>1 DEF QueryInv, EntriesOK
      <4>3. z \in DOMAIN table /\ z \in Services
        BY <4>2 DEF QueryInv, TableOK
      <4>4. z # s
        <5>1. s \in heard => k = table[s]
          BY <1>1 DEF Learnt, QueryInv, TableOK
        <5> QED BY <3>2, <4>2, <5>1
      <4>5. table'[z] = table[z]
        BY <1>4, <1>9, <4>3, <4>4, NamesAssumption
      <4> QED BY <1>2, <1>9, <4>1, <4>2, <4>5
    <3> QED BY <3>1, <3>2
  <2>2. entries' \in Seq(EntryRecord)
    BY <1>1 DEF Learnt
  <2> QED BY <2>1, <2>2 DEF EntriesOK
<1>11. TableOK'
  <2>1. heard' \subseteq Services /\ \A z \in heard' : Born(z)'
    BY <1>0, <1>1, <1>9 DEF QueryInv, TableOK, Learnt
  <2>2. ASSUME NEW n \in DOMAIN table' PROVE n \in heard' \cup Hosts /\ table'[n] \in 1..Len(entries')
    <3>1. CASE n \in {s, h}
      BY <1>4, <1>8, <1>9, <3>1
    <3>2. CASE n \notin {s, h}
      <4>1. n \in DOMAIN table /\ table'[n] = table[n]
        BY <1>9, <3>2
      <4>2. n \in heard \cup Hosts /\ table[n] \in 1..N
        BY <1>3, <4>1 DEF QueryInv, TableOK
      <4>3. table[n] \in 1..Len(entries')
        BY <1>3, <1>8, <4>2
      <4> QED BY <1>9, <4>1, <4>2, <4>3
    <3> QED BY <3>1, <3>2
  <2>3. ASSUME NEW z \in heard' PROVE z \in DOMAIN table' /\ entries'[table'[z]].name = z
    <3>1. CASE z = s
      BY <1>8, <1>9, <3>1
    <3>2. CASE z # s
      <4>1. z \in heard /\ z \in DOMAIN table /\ entries[table[z]].name = z /\ table[z] \in 1..N /\ z \in Services
        BY <1>3, <1>9, <3>2 DEF QueryInv, TableOK
      <4>2. z \in DOMAIN table' /\ table'[z] = table[z]
        BY <1>4, <1>9, <3>2, <4>1, NamesAssumption
      <4> QED BY <1>8, <4>1, <4>2
    <3> QED BY <3>1, <3>2
  <2> QED BY <2>1, <2>2, <2>3 DEF TableOK
<1>12. OffersOK'
  <2>1. /\ offered \in Seq(Nat) /\ Len(offered) <= Room /\ Len(offered) \in Nat
        /\ \A i \in 1..Len(offered) : offered[i] \in 1..N /\ entries[offered[i]].sent
    BY <1>3, LenProperties DEF QueryInv, OffersOK
  <2>2. \A i \in 1..Len(offered) : offered[i] \in 1..Len(entries') /\ entries'[offered[i]].sent
    BY <1>3, <1>8, <2>1
  <2>3. CASE offered' = offered
    BY <2>1, <2>2, <2>3 DEF OffersOK
  <2>4. CASE offered' = Append(offered, k) /\ Len(offered) < Room /\ server[s].addr # Null
    <3>1. entries'[k].sent
      <4>1. a \in Hosts \cup {Null}
        BY <1>3 DEF QueryInv, ServersOK
      <4>2. Entry(s, a).sent
        BY <1>3, <2>4, <4>1, FilledIs
      <4> QED BY <1>8, <4>2
    <3>2. k \in Nat
      BY <1>8
    <3>3. /\ offered' \in Seq(Nat) /\ Len(offered') = Len(offered) + 1 /\ offered'[Len(offered) + 1] = k
          /\ \A i \in 1..Len(offered) : offered'[i] = offered[i]
      BY <2>1, <2>4, <3>2, AppendProperties
    <3>4. ASSUME NEW i \in 1..Len(offered') PROVE offered'[i] \in 1..Len(entries') /\ entries'[offered'[i]].sent
      <4>1. CASE i = Len(offered) + 1
        BY <1>8, <3>1, <3>3, <4>1
      <4>2. CASE i # Len(offered) + 1
        <5>1. i \in 1..Len(offered)
          BY <2>1, <3>3, <4>2
        <5>2. offered'[i] = offered[i]
          BY <3>3, <5>1
        <5> QED BY <2>2, <5>1, <5>2
      <4> QED BY <4>1, <4>2
    <3> QED BY <2>1, <2>4, <3>3, <3>4, BoundsAssumption DEF OffersOK
  <2> QED BY <1>1, <2>3, <2>4 DEF Learnt
<1> QED BY <1>0, <1>5, <1>6, <1>7, <1>10, <1>11, <1>12 DEF QueryInv

LEMMA StepQuery == QueryInv /\ [Next]_vars => QueryInv'
<1> SUFFICES ASSUME QueryInv, [Next]_vars PROVE QueryInv'
  OBVIOUS
<1>0. /\ ServersOK'
      /\ \A m : IsAnswer(m) => IsAnswer(m)'
  BY Steady DEF QueryInv
<1>k. /\ UNCHANGED <<asked, replies>> => MailOK'
      /\ UNCHANGED recv => ReadersOK'
      /\ UNCHANGED msgCh => ChannelOK'
      /\ UNCHANGED <<table, entries, heard>> => EntriesOK' /\ TableOK'
      /\ UNCHANGED <<entries, offered>> => OffersOK'
  BY KeptParts
<1>1. CASE UNCHANGED <<asked, replies, phase, recv, msgCh, lookup>>
  BY <1>0, <1>k, <1>1 DEF QueryInv, lookup
<1>2. ASSUME NEW s \in Services, NEW f \in Families, HandleQuery(s, f) PROVE QueryInv'
  <2>1. PICK q \in asked :
          /\ q.to = s /\ asked' = asked \ {q}
          /\ LET answer == Records(s, q.name, "PTR") IN
             \/ answer = <<>> /\ UNCHANGED replies
             \/ answer # <<>> /\ replies' = replies \cup {[from |-> s, family |-> f, answer |-> answer]}
    BY <1>2 DEF HandleQuery
  <2>2. UNCHANGED <<server, phase, recv, msgCh, table, entries, offered, queries, heard>>
    BY <1>2 DEF HandleQuery, lookup
  <2>3. q.name \in Services \cup {Type} /\ Born(s)
    BY <2>1 DEF QueryInv, MailOK
  <2>4. Records(s, q.name, "PTR") \in {<<>>, AnswerOf(s, server[s].addr)}
    BY <2>3, OneAnswer
  <2>5. ASSUME NEW r \in replies' PROVE IsAnswer(r.answer)
    <3>1. CASE r \in replies
      BY <3>1 DEF QueryInv, MailOK
    <3>2. CASE r \notin replies
      <4>1. r.answer = AnswerOf(s, server[s].addr)
        BY <2>1, <2>4, <3>2
      <4> QED BY <2>3, <4>1 DEF IsAnswer
    <3> QED BY <3>1, <3>2
  <2>6. \A r \in replies' : IsAnswer(r.answer)'
    BY <1>0, <2>5
  <2>7. MailOK'
    BY <2>1, <2>2, <2>6 DEF QueryInv, MailOK, Born
  <2> QED BY <1>0, <1>k, <2>2, <2>7 DEF QueryInv
<1>3. CASE Query
  <2>1. PICK fs \in SUBSET Families \ {{}} :
          /\ recv' = [f \in Families |-> [recv[f] EXCEPT !.pc = IF f \in fs THEN "read" ELSE @]]
          /\ SendQuery(Type, fs)
    BY <1>3 DEF Query
  <2>2. phase = "idle" /\ phase' = "open" /\ UNCHANGED <<server, replies, msgCh, table, entries, offered, heard>>
    BY <1>3 DEF Query
  <2>3. MailOK'
    BY <2>1, <2>2, QuestionsOK
  <2>4. ASSUME NEW f \in Families
        PROVE  /\ recv'[f] \in [pc : {"off", "read", "put", "ended"}, msg : AllAnswers \cup {<<>>}]
               /\ recv'[f].pc # "put" /\ recv'[f].msg = <<>>
    <3>1. PICK r : r = recv[f]
      OBVIOUS
    <3>2. r \in [pc : {"off", "read", "put", "ended"}, msg : AllAnswers \cup {<<>>}] /\ r.pc = "off" /\ r.msg = <<>>
      BY <2>2, <3>1 DEF QueryInv, ReadersOK
    <3>3. recv'[f] = [r EXCEPT !.pc = IF f \in fs THEN "read" ELSE @]
      BY <2>1, <3>1
    <3> QED BY <3>2, <3>3
  <2>5. recv' \in [Families -> [pc : {"off", "read", "put", "ended"}, msg : AllAnswers \cup {<<>>}]]
    BY <2>1, <2>4
  <2>6. ReadersOK'
    BY <2>4, <2>5 DEF ReadersOK
  <2> QED BY <1>0, <1>k, <2>2, <2>3, <2>6 DEF QueryInv
<1>4. CASE HandleMessage
  BY <1>4, MessageKeeps
<1>5. CASE TakeEntry
  <2>1. /\ phase # "crashed" /\ offered # <<>> /\ offered' = Tail(offered)
        /\ UNCHANGED <<server, asked, replies, phase, recv, msgCh, table, entries, queries, heard>>
    BY <1>5 DEF TakeEntry
  <2>2. /\ offered \in Seq(Nat) /\ Len(offered) <= Room
        /\ \A i \in 1..Len(offered) : offered[i] \in 1..Len(entries) /\ entries[offered[i]].sent
    BY DEF QueryInv, OffersOK
  <2>3. /\ offered' \in Seq(Nat) /\ Len(offered') = Len(offered) - 1 /\ Len(offered) \in Nat
        /\ \A i \in 1..Len(offered') : offered'[i] = offered[i + 1]
    BY <2>1, <2>2, HeadTailProperties, LenProperties
  <2>4. ASSUME NEW i \in 1..Len(offered') PROVE offered'[i] \in 1..Len(entries') /\ entries'[offered'[i]].sent
    <3>1. i + 1 \in 1..Len(offered) /\ offered'[i] = offered[i + 1]
      BY <2>3
    <3> QED BY <2>1, <2>2, <3>1
  <2>5. OffersOK'
    BY <2>2, <2>3, <2>4, BoundsAssumption DEF OffersOK
  <2> QED BY <1>0, <1>k, <2>1, <2>5 DEF QueryInv
<1>6. CASE Finish
  BY <1>0, <1>k, <1>6 DEF QueryInv, Finish, lookup
<1>7. ASSUME NEW f \in Families, Read(f) PROVE QueryInv'
  <2>1. PICK r \in replies : replies' = replies \ {r} /\ recv' = [recv EXCEPT ![f] = [pc |-> "put", msg |-> r.answer]]
    BY <1>7 DEF Read
  <2>2. phase = "open" /\ UNCHANGED <<server, asked, phase, msgCh, table, entries, offered, queries, heard>>
    BY <1>7 DEF Read, lookup
  <2>3. PICK m : m = r.answer /\ IsAnswer(m)
    BY DEF QueryInv, MailOK
  <2>4. m \in AllAnswers
    BY <2>3, AnswerIs DEF IsAnswer, QueryInv, ServersOK
  <2>5. ReadersOK'
    <3>1. recv' \in [Families -> [pc : {"off", "read", "put", "ended"}, msg : AllAnswers \cup {<<>>}]]
      BY <2>1, <2>3, <2>4 DEF QueryInv, ReadersOK
    <3>2. ASSUME NEW g \in Families
          PROVE  \E x : x = recv'[g] /\ IF x.pc = "put" THEN IsAnswer(x.msg) ELSE x.msg = <<>>
      BY <2>1, <2>3 DEF QueryInv, ReadersOK
    <3>3. (\A g \in Families : IF recv[g].pc = "put" THEN IsAnswer(recv[g].msg) ELSE recv[g].msg = <<>>)'
      BY <2>2, <3>2 DEF IsAnswer, Born
    <3> QED BY <3>1, <3>3 DEF ReadersOK
  <2>6. MailOK'
    BY <2>1, <2>2 DEF QueryInv, MailOK, IsAnswer, Born
  <2> QED BY <1>0, <1>k, <2>2, <2>5, <2>6 DEF QueryInv
<1>8. ASSUME NEW f \in Families, Put(f) PROVE QueryInv'
  <2>1. /\ recv[f].pc = "put" /\ Len(msgCh) < Capacity
        /\ msgCh' = Append(msgCh, recv[f].msg)
        /\ recv' = [recv EXCEPT ![f] = [pc |-> "read", msg |-> <<>>]]
        /\ UNCHANGED <<server, asked, replies, phase, table, entries, offered, queries, heard>>
    BY <1>8 DEF Put, lookup
  <2>2. PICK m : m = recv[f].msg /\ IsAnswer(m)
    BY <2>1 DEF QueryInv, ReadersOK
  <2>3. m \in AllAnswers
    BY <2>2, AnswerIs DEF IsAnswer, QueryInv, ServersOK
  <2>4. ReadersOK'
    BY <2>1 DEF QueryInv, ReadersOK, IsAnswer, Born
  <2>5. ChannelOK'
    <3>1. /\ msgCh \in Seq(AllAnswers) /\ Len(msgCh) \in Nat /\ \A i \in 1..Len(msgCh) : IsAnswer(msgCh[i])
      BY LenProperties DEF QueryInv, ChannelOK
    <3>2. /\ msgCh' \in Seq(AllAnswers) /\ Len(msgCh') = Len(msgCh) + 1 /\ msgCh'[Len(msgCh) + 1] = m
          /\ \A i \in 1..Len(msgCh) : msgCh'[i] = msgCh[i]
      BY <2>1, <2>2, <2>3, <3>1, AppendProperties
    <3>3. ASSUME NEW i \in 1..Len(msgCh') PROVE \E x : x = msgCh'[i] /\ IsAnswer(x)
      <4>1. i = Len(msgCh) + 1 \/ i \in 1..Len(msgCh)
        BY <3>1, <3>2
      <4> QED BY <2>2, <3>1, <3>2, <4>1
    <3>4. (\A i \in 1..Len(msgCh) : IsAnswer(msgCh[i]))'
      BY <2>1, <3>3 DEF IsAnswer, Born
    <3> QED BY <2>1, <3>1, <3>2, <3>4, BoundsAssumption DEF ChannelOK
  <2> QED BY <1>0, <1>k, <2>1, <2>4, <2>5 DEF QueryInv
<1>9. ASSUME NEW f \in Families, Stop(f) PROVE QueryInv'
  <2>1. /\ phase = "closed" /\ recv' = [recv EXCEPT ![f] = [pc |-> "ended", msg |-> <<>>]]
        /\ UNCHANGED <<server, asked, replies, phase, msgCh, table, entries, offered, queries, heard>>
    BY <1>9 DEF Stop, lookup
  <2>2. ReadersOK'
    BY <2>1 DEF QueryInv, ReadersOK, IsAnswer, Born
  <2> QED BY <1>0, <1>k, <2>1, <2>2 DEF QueryInv
<1>10. CASE UNCHANGED vars
  BY <1>1, <1>10 DEF vars, lookup
<1>11. ASSUME NEW s \in Services, NewServer(s) \/ Shutdown(s) PROVE QueryInv'
  BY <1>1, <1>11 DEF NewServer, Shutdown
<1>12. ASSUME NEW s \in Services, NEW f \in Families, RecvEnds(s, f) PROVE QueryInv'
  BY <1>1, <1>12 DEF RecvEnds
<1> QED BY <1>2, <1>3, <1>4, <1>5, <1>6, <1>7, <1>8, <1>9, <1>10, <1>11, <1>12 DEF Next

-----------------------------------------------------------------------------
(* What the invariant says.                                                *)

LEMMA QueryTypes == QueryInv => TypeOK
<1> SUFFICES ASSUME QueryInv PROVE TypeOK
  OBVIOUS
<1>1. \A s \in Services : server[s].loops \subseteq Families /\ server[s].down \in BOOLEAN
  BY DEF QueryInv, ServersOK
<1>2. ASSUME NEW f \in Families
      PROVE  /\ recv[f].pc \in {"off", "read", "put", "ended"}
             /\ (recv[f].pc = "put") <=> (recv[f].msg # <<>>)
  <2>1. recv[f].pc \in {"off", "read", "put", "ended"}
    BY DEF QueryInv, ReadersOK
  <2>2. \A m : IsAnswer(m) => m # <<>>
    BY AnswerIs DEF IsAnswer, QueryInv, ServersOK
  <2> QED BY <2>1, <2>2 DEF QueryInv, ReadersOK
<1>3. \A name \in DOMAIN table : table[name] \in DOMAIN entries
  BY LenProperties DEF QueryInv, TableOK, EntriesOK
<1>4. \A k \in DOMAIN offered : entries[offered[k]].sent
  BY LenProperties DEF QueryInv, OffersOK
<1> QED BY <1>1, <1>2, <1>3, <1>4 DEF QueryInv, ChannelOK, OffersOK, TypeOK

LEMMA QueryExact == QueryInv => EntriesExact
<1> SUFFICES ASSUME QueryInv PROVE EntriesExact
  OBVIOUS
<1>1. DOMAIN entries = 1..Len(entries)
  BY LenProperties DEF QueryInv, EntriesOK
<1>2. ASSUME NEW k \in 1..Len(entries)
      PROVE  \E s \in heard : /\ s = entries[k].name /\ table[s] = k /\ entries[k] = Entry(s, server[s].addr)
                              /\ entries[k].sent <=> server[s].addr # Null
  <2>1. PICK s : s = entries[k].name
    OBVIOUS
  <2>2. s \in heard /\ table[s] = k /\ entries[k] = Entry(s, server[s].addr)
    BY <2>1 DEF QueryInv, EntriesOK
  <2>3. s \in Services /\ server[s].addr \in Hosts \cup {Null}
    BY <2>2 DEF QueryInv, TableOK, ServersOK
  <2>4. entries[k].sent <=> server[s].addr # Null
    BY <2>2, <2>3, FilledIs
  <2> QED BY <2>1, <2>2, <2>4
<1>3. { entries[k].name : k \in Sent } = { s \in heard : server[s].addr # Null }
  <2>1. ASSUME NEW s \in heard, server[s].addr # Null PROVE \E k \in Sent : entries[k].name = s
    <3>1. s \in DOMAIN table /\ table[s] \in 1..Len(entries) /\ entries[table[s]].name = s
      BY DEF QueryInv, TableOK
    <3>2. entries[table[s]].sent
      BY <1>2, <2>1, <3>1
    <3> QED BY <1>1, <3>1, <3>2 DEF Sent
  <2>2. ASSUME NEW k \in Sent PROVE entries[k].name \in heard /\ server[entries[k].name].addr # Null
    BY <1>1, <1>2, <2>2 DEF Sent
  <2> QED BY <2>1, <2>2
<1>4. ASSUME NEW k \in Sent
      PROVE  LET s == entries[k].name IN
             entries[k] = [name |-> s, host |-> HostOf[s], port |-> s, info |-> s, addr |-> HostOf[s],
                           sent |-> TRUE]
  <2>1. PICK s \in heard : /\ s = entries[k].name /\ entries[k] = Entry(s, server[s].addr)
                           /\ server[s].addr # Null
    BY <1>1, <1>2 DEF Sent
  <2>2. server[s].addr = HostOf[s]
    BY <2>1 DEF QueryInv, ServersOK, TableOK
  <2>3. entries[k] = [name |-> s, host |-> HostOf[s], port |-> s, info |-> s, addr |-> HostOf[s], sent |-> TRUE]
    BY <2>1, <2>2 DEF Entry, Parts
  <2> QED BY <2>1, <2>3, Zenon
<1>5. \A k, j \in Sent : entries[k].name = entries[j].name => k = j
  BY <1>1, <1>2 DEF Sent
<1> QED BY <1>3, <1>4, <1>5 DEF EntriesExact, QueryInv

-----------------------------------------------------------------------------
(* The questions are counted: each but the first stands for an answer of a *)
(* server's socket to the first.                                           *)

\* The entries that were sent are finite in number.
LEMMA SentFinite ==
  ASSUME QueryInv
  PROVE  IsFiniteSet(Sent) /\ Sent \subseteq 1..Len(entries)
<1>1. DOMAIN entries = 1..Len(entries) /\ Len(entries) \in Nat
  BY LenProperties DEF QueryInv, EntriesOK
<1>2. IsFiniteSet(1..Len(entries))
  BY <1>1, FS_Interval
<1> QED BY <1>1, <1>2, FS_Subset DEF Sent

\* Everything counted is a number.
LEMMA Counts ==
  ASSUME QueryInv, CountInv
  PROVE  /\ queries \in Nat /\ Cardinality(Sent) \in Nat /\ Cardinality(Firsts) \in Nat
         /\ Cardinality(replies) \in Nat /\ Cardinality(Putting) \in Nat /\ Len(msgCh) \in Nat
         /\ IsFiniteSet(Sent) /\ IsFiniteSet(Firsts) /\ IsFiniteSet(replies) /\ IsFiniteSet(Putting)
         /\ Cardinality(Services) \in Nat /\ Cardinality(Families) \in Nat
         /\ Cardinality(Services) * Cardinality(Families) \in Nat
<1>1. IsFiniteSet(Putting)
  BY NamesAssumption, FS_Subset DEF Putting
<1>2. IsFiniteSet(Sent) /\ IsFiniteSet(Firsts) /\ IsFiniteSet(replies) /\ queries \in Nat
  BY SentFinite DEF CountInv
<1>3. Len(msgCh) \in Nat
  BY LenProperties DEF QueryInv, ChannelOK
<1>4. Cardinality(Services) \in Nat /\ Cardinality(Families) \in Nat
  BY NamesAssumption, FS_CardinalityType
<1>5. Cardinality(Services) * Cardinality(Families) \in Nat
  BY <1>4
<1> QED BY <1>1, <1>2, <1>3, <1>4, <1>5, FS_CardinalityType

LEMMA InitCount == Init => CountInv
<1> SUFFICES ASSUME Init PROVE CountInv
  OBVIOUS
<1>1. Sent = {} /\ Firsts = {} /\ replies = {} /\ Putting = {} /\ asked = {} /\ msgCh = <<>> /\ queries = 0
  BY DEF Init, Sent, Firsts, Putting
<1>2. Cardinality({}) = 0 /\ IsFiniteSet({}) /\ Len(msgCh) = 0
  BY <1>1, FS_EmptySet
<1>3. Cardinality(Services) \in Nat /\ Cardinality(Families) \in Nat
  BY NamesAssumption, FS_CardinalityType
<1>4. Cardinality(Services) * Cardinality(Families) \in Nat
  BY <1>3
<1> QED BY <1>1, <1>2, <1>4 DEF CountInv, Spent, Limit, Total

\* The first question reaches each server on each socket, at most.
LEMMA FirstsBound ==
  ASSUME NEW F \in SUBSET [to : Services, family : Families, name : {Type}]
  PROVE  IsFiniteSet(F) /\ Cardinality(F) <= Cardinality(Services) * Cardinality(Families)
<1> DEFINE P == Services \X Families
           g == [q \in F |-> <<q.to, q.family>>]
<1>1. IsFiniteSet(P) /\ Cardinality(P) = Cardinality(Services) * Cardinality(Families)
  BY NamesAssumption, FS_Product
<1>2. g \in [F -> P]
  OBVIOUS
<1>3. ASSUME NEW q \in F, NEW r \in F, g[q] = g[r] PROVE q = r
  <2>1. q.to = r.to /\ q.family = r.family /\ q.name = r.name
    BY <1>3
  <2>2. /\ q = [to |-> q.to, family |-> q.family, name |-> q.name]
        /\ r = [to |-> r.to, family |-> r.family, name |-> r.name]
    OBVIOUS
  <2> QED BY <2>1, <2>2
<1>4. g \in Injection(F, P)
  BY <1>2, <1>3 DEF Injection, IsInjective
<1> QED BY <1>1, <1>4, FS_Injection

\* One element more, at most.
LEMMA OneMoreElement ==
  ASSUME NEW S, NEW x, IsFiniteSet(S)
  PROVE  /\ IsFiniteSet(S \cup {x}) /\ Cardinality(S \cup {x}) \in Nat
         /\ Cardinality(S \cup {x}) <= Cardinality(S) + 1
<1>1. IsFiniteSet(S \cup {x}) /\ Cardinality(S) \in Nat
  BY FS_AddElement, FS_CardinalityType
<1>2. Cardinality(S \cup {x}) = IF x \in S THEN Cardinality(S) ELSE Cardinality(S) + 1
  BY FS_AddElement
<1> QED BY <1>1, <1>2

\* One of the numbers less by one, another greater by no more.
LEMMA AnswerTraded ==
  ASSUME NEW a \in Nat, NEW b \in Nat, NEW c \in Nat, NEW d \in Nat, NEW e \in Nat, NEW n \in Nat,
         NEW x \in Nat, NEW M \in Nat, Total(a, b, c, d, e, n) <= M, x <= d + 1
  PROVE  Total(a, b, c - 1, x, e, n) <= M
BY DEF Total

LEMMA MessageTraded ==
  ASSUME NEW a \in Nat, NEW b \in Nat, NEW c \in Nat, NEW d \in Nat, NEW e \in Nat, NEW n \in Nat,
         NEW x \in Nat, NEW M \in Nat, Total(a, b, c, d, e, n) <= M, x <= b + 1
  PROVE  Total(a, x, c, d, e, n - 1) <= M
BY DEF Total

LEMMA ReplyTraded ==
  ASSUME NEW a \in Nat, NEW b \in Nat, NEW c \in Nat, NEW d \in Nat, NEW e \in Nat, NEW n \in Nat,
         NEW x \in Nat, NEW M \in Nat, Total(a, b, c, d, e, n) <= M, x <= e + 1
  PROVE  Total(a, b, c, d - 1, x, n) <= M
BY DEF Total

LEMMA StepCount == QueryInv /\ CountInv /\ [Next]_vars => CountInv'
<1> SUFFICES ASSUME QueryInv, CountInv, [Next]_vars PROVE CountInv'
  OBVIOUS
<1>i. QueryInv'
  BY StepQuery
<1>c. PICK L \in Nat, M \in Nat :
        /\ queries \in Nat /\ Cardinality(Sent) \in Nat /\ Cardinality(Firsts) \in Nat
        /\ Cardinality(replies) \in Nat /\ Cardinality(Putting) \in Nat /\ Len(msgCh) \in Nat
        /\ IsFiniteSet(Sent) /\ IsFiniteSet(Firsts) /\ IsFiniteSet(replies) /\ IsFiniteSet(Putting)
        /\ Cardinality(Services) * Cardinality(Families) = L /\ M = 1 + L /\ Limit = M /\ Limit' = M
        /\ queries + Cardinality(Sent) + Cardinality(Firsts) + Cardinality(replies)
             + Cardinality(Putting) + Len(msgCh) <= M
  BY Counts DEF CountInv, Spent, Limit, Total
<1>t. /\ queries \in Nat /\ Cardinality(Sent) \in Nat /\ Cardinality(Firsts) \in Nat
      /\ Cardinality(replies) \in Nat /\ Cardinality(Putting) \in Nat /\ Len(msgCh) \in Nat /\ M \in Nat
      /\ Total(queries, Cardinality(Sent), Cardinality(Firsts), Cardinality(replies), Cardinality(Putting), Len(msgCh))
           <= M
  BY <1>c DEF CountInv, Spent
<1>1. CASE UNCHANGED <<asked, replies, recv, msgCh, entries, queries>> /\ (phase' = "idle" => phase = "idle")
  BY <1>1, <1>c DEF CountInv, Spent, Total, Sent, Firsts, Putting
<1>2. ASSUME NEW s \in Services, NEW f \in Families, HandleQuery(s, f) PROVE CountInv'
  <2>1. PICK q \in asked :
          /\ q.to = s /\ asked' = asked \ {q}
          /\ LET answer == Records(s, q.name, "PTR") IN
             \/ answer = <<>> /\ UNCHANGED replies
             \/ answer # <<>> /\ replies' = replies \cup {[from |-> s, family |-> f, answer |-> answer]}
    BY <1>2 DEF HandleQuery
  <2>2. UNCHANGED <<server, phase, recv, msgCh, table, entries, offered, queries, heard>>
    BY <1>2 DEF HandleQuery, lookup
  <2>3. Sent' = Sent /\ Putting' = Putting /\ phase' # "idle"
    BY <2>1, <2>2 DEF Sent, Putting, CountInv
  <2>4. q.name \in Services \cup {Type}
    BY DEF QueryInv, MailOK
  <2>5. CASE q.name = Type
    <3>1. q \in Firsts /\ Firsts' = Firsts \ {q}
      BY <2>1, <2>5 DEF Firsts
    <3>2. IsFiniteSet(Firsts') /\ Cardinality(Firsts') = Cardinality(Firsts) - 1
      BY <1>c, <3>1, FS_RemoveElement
    <3>3. IsFiniteSet(replies') /\ Cardinality(replies') \in Nat /\ Cardinality(replies') <= Cardinality(replies) + 1
      <4>1. PICK r : replies' = replies \/ replies' = replies \cup {r}
        BY <2>1
      <4>2. CASE replies' = replies
        BY <1>c, <4>2
      <4>3. CASE replies' = replies \cup {r}
        BY <1>c, <4>3, OneMoreElement
      <4> QED BY <4>1, <4>2, <4>3
    <3>4. Spent' <= M
      <4>1. Total(queries, Cardinality(Sent), Cardinality(Firsts) - 1, Cardinality(replies'), Cardinality(Putting), Len(msgCh))
             <= M
        BY <1>t, <3>3, AnswerTraded, Zenon
      <4>2. Spent' = Total(queries, Cardinality(Sent), Cardinality(Firsts) - 1, Cardinality(replies'), Cardinality(Putting), Len(msgCh))
        BY <2>2, <2>3, <3>2, <3>3 DEF Spent
      <4> QED BY <4>1, <4>2
    <3> QED BY <1>c, <2>2, <2>3, <3>2, <3>3, <3>4 DEF CountInv
  <2>6. CASE q.name # Type
    <3>1. Records(s, q.name, "PTR") = <<>>
      BY <2>4, <2>6, OneAnswer
    <3>2. replies' = replies
      BY <2>1, <3>1
    <3>3. Firsts' = Firsts
      BY <2>1, <2>6 DEF Firsts
    <3> QED BY <1>c, <2>2, <2>3, <3>2, <3>3 DEF CountInv, Spent, Total
  <2> QED BY <2>5, <2>6
<1>3. CASE Query
  <2>1. PICK fs \in SUBSET Families \ {{}} :
          /\ recv' = [f \in Families |-> [recv[f] EXCEPT !.pc = IF f \in fs THEN "read" ELSE @]]
          /\ SendQuery(Type, fs)
    BY <1>3 DEF Query
  <2>2. phase = "idle" /\ phase' = "open" /\ UNCHANGED <<server, replies, msgCh, table, entries, offered, heard>>
    BY <1>3 DEF Query
  <2>3. queries = 0 /\ Sent = {} /\ asked = {} /\ replies = {} /\ msgCh = <<>> /\ \A f \in Families : recv[f].pc = "off"
    BY <2>2 DEF CountInv, QueryInv
  <2>4. queries' = 1 /\ Sent' = {} /\ replies' = {} /\ msgCh' = <<>>
    BY <2>1, <2>2, <2>3 DEF SendQuery, Sent
  <2>5. Putting' = {}
    <3>1. ASSUME NEW f \in Families PROVE recv'[f].pc # "put"
      <4>1. PICK r : r = recv[f]
        OBVIOUS
      <4>2. r \in [pc : {"off", "read", "put", "ended"}, msg : AllAnswers \cup {<<>>}] /\ r.pc = "off"
        BY <2>3, <4>1 DEF QueryInv, ReadersOK
      <4>3. recv'[f] = [r EXCEPT !.pc = IF f \in fs THEN "read" ELSE @]
        BY <2>1, <4>1
      <4> QED BY <4>2, <4>3
    <3> QED BY <3>1 DEF Putting
  <2>6. Firsts' \in SUBSET [to : Services, family : Families, name : {Type}]
    BY <2>1, <2>3 DEF SendQuery, Firsts
  <2>7. /\ IsFiniteSet(Firsts') /\ Cardinality(Firsts') \in Nat
        /\ Cardinality(Firsts') <= Cardinality(Services) * Cardinality(Families)
    BY <2>6, FirstsBound, FS_CardinalityType
  <2>8. Cardinality({}) = 0 /\ IsFiniteSet({}) /\ Len(msgCh') = 0
    BY <2>4, FS_EmptySet
  <2> QED BY <1>c, <2>2, <2>4, <2>5, <2>7, <2>8 DEF CountInv, Spent, Total
<1>4. CASE HandleMessage
  <2>1. PICK s \in Services, k \in Nat : Learnt(s, k)
    BY <1>4, MessageLearnt
  <2>2. msgCh # <<>> /\ msgCh' = Tail(msgCh) /\ UNCHANGED <<replies, recv>> /\ phase = "open"
    BY <1>4 DEF HandleMessage
  <2>3. Len(msgCh') = Len(msgCh) - 1
    BY <2>2, HeadTailProperties DEF QueryInv, ChannelOK
  <2>4. Putting' = Putting
    BY <2>2 DEF Putting
  <2>5. PICK a : a = server[s].addr /\ a \in Hosts \cup {Null}
    BY DEF QueryInv, ServersOK
  <2>6. /\ DOMAIN entries = 1..Len(entries) /\ DOMAIN entries' = 1..Len(entries') /\ Len(entries) \in Nat
        /\ entries'[k] = Entry(s, a) /\ (Entry(s, a).sent <=> a # Null) /\ k \in 1..Len(entries')
        /\ \/ s \in heard /\ entries' = entries
           \/ /\ s \notin heard /\ k = Len(entries) + 1 /\ Len(entries') = Len(entries) + 1
              /\ \A j \in 1..Len(entries) : entries'[j] = entries[j]
    BY <2>1, <2>5, FilledIs, LenProperties DEF Learnt, QueryInv, EntriesOK
  <2>e. entries'[k].sent <=> a # Null
    BY <2>6, Zenon
  <2>7. CASE s \notin heard /\ a # Null /\ UNCHANGED <<asked, phase, queries>>
    <3>1. Sent' = Sent \cup {k}
      <4>1. entries'[k].sent /\ Len(entries') = Len(entries) + 1 /\ k = Len(entries) + 1
        BY <2>6, <2>7, <2>e
      <4>2. ASSUME NEW j \in 1..Len(entries') PROVE j \in Sent' <=> j \in Sent \cup {k}
        <5>1. CASE j = k
          BY <2>6, <4>1, <5>1 DEF Sent
        <5>2. CASE j # k
          <6>1. j \in 1..Len(entries) /\ entries'[j] = entries[j]
            BY <2>6, <2>7, <4>1, <5>2
          <6> QED BY <2>6, <5>2, <6>1 DEF Sent
        <5> QED BY <5>1, <5>2
      <4>3. Sent' \subseteq 1..Len(entries') /\ Sent \cup {k} \subseteq 1..Len(entries')
        BY <2>6, <4>1 DEF Sent
      <4> QED BY <4>2, <4>3
    <3>2. /\ Cardinality(Sent') \in Nat /\ Cardinality(Sent') <= Cardinality(Sent) + 1
      BY <1>c, <3>1, OneMoreElement
    <3>3. Firsts' = Firsts
      BY <2>7 DEF Firsts
    <3>4. Spent' <= M
      <4>1. Total(queries, Cardinality(Sent'), Cardinality(Firsts), Cardinality(replies), Cardinality(Putting), Len(msgCh) - 1)
             <= M
        BY <1>t, <3>2, MessageTraded, Zenon
      <4>2. Spent' = Total(queries, Cardinality(Sent'), Cardinality(Firsts), Cardinality(replies), Cardinality(Putting), Len(msgCh) - 1)
        BY <2>2, <2>3, <2>4, <2>7, <3>2, <3>3 DEF Spent
      <4> QED BY <4>1, <4>2
    <3> QED BY <1>c, <2>2, <2>7, <3>3, <3>4 DEF CountInv
  <2>8. CASE (s \in heard \/ a = Null) /\ SendQuery(s, Listening) /\ UNCHANGED phase
    <3>1. Sent' = Sent
      <4>1. CASE entries' = entries
        BY <4>1 DEF Sent
      <4>2. CASE s \notin heard
        <5>1. ~entries'[k].sent /\ Len(entries') = Len(entries) + 1 /\ k = Len(entries) + 1
          BY <2>6, <2>8, <2>e, <4>2
        <5>2. ASSUME NEW j \in 1..Len(entries') PROVE j \in Sent' <=> j \in Sent
          <6>1. CASE j = k
            BY <2>6, <5>1, <6>1 DEF Sent
          <6>2. CASE j # k
            <7>1. j \in 1..Len(entries) /\ entries'[j] = entries[j]
              BY <2>6, <4>2, <5>1, <6>2
            <7> QED BY <2>6, <7>1 DEF Sent
          <6> QED BY <6>1, <6>2
        <5>3. Sent' \subseteq 1..Len(entries') /\ Sent \subseteq 1..Len(entries')
          BY <2>6, <5>1 DEF Sent
        <5> QED BY <5>2, <5>3
      <4> QED BY <2>6, <4>1, <4>2
    <3>2. Firsts' = Firsts /\ queries' = queries + 1
      <4>1. s # Type
        BY NamesAssumption
      <4> QED BY <2>8, <4>1 DEF Firsts, SendQuery
    <3> QED BY <1>c, <2>2, <2>3, <2>4, <2>8, <3>1, <3>2 DEF CountInv, Spent, Total
  <2> QED BY <2>1, <2>5, <2>7, <2>8 DEF Learnt
<1>5. ASSUME NEW f \in Families, Read(f) PROVE CountInv'
  <2>1. PICK r \in replies : replies' = replies \ {r} /\ recv' = [recv EXCEPT ![f] = [pc |-> "put", msg |-> r.answer]]
    BY <1>5 DEF Read
  <2>2. phase = "open" /\ UNCHANGED <<server, asked, phase, msgCh, table, entries, offered, queries, heard>>
    BY <1>5 DEF Read, lookup
  <2>3. Sent' = Sent /\ Firsts' = Firsts
    BY <2>2 DEF Sent, Firsts
  <2>4. IsFiniteSet(replies') /\ Cardinality(replies') = Cardinality(replies) - 1
    BY <1>c, <2>1, FS_RemoveElement
  <2>5. Putting' = Putting \cup {f}
    BY <2>1 DEF Putting, QueryInv, ReadersOK
  <2>6. Cardinality(Putting') \in Nat /\ Cardinality(Putting') <= Cardinality(Putting) + 1
    BY <1>c, <2>5, OneMoreElement
  <2>7. phase' # "idle"
    BY <2>2
  <2>8. Spent' <= M
    <3>1. Total(queries, Cardinality(Sent), Cardinality(Firsts), Cardinality(replies) - 1, Cardinality(Putting'), Len(msgCh))
           <= M
      BY <1>t, <2>6, ReplyTraded, Zenon
    <3>2. Spent' = Total(queries, Cardinality(Sent), Cardinality(Firsts), Cardinality(replies) - 1, Cardinality(Putting'), Len(msgCh))
      BY <2>2, <2>3, <2>4, <2>6 DEF Spent
    <3> QED BY <3>1, <3>2
  <2> QED BY <1>c, <2>2, <2>3, <2>4, <2>7, <2>8 DEF CountInv
<1>6. ASSUME NEW f \in Families, Put(f) PROVE CountInv'
  <2>1. /\ recv[f].pc = "put" /\ msgCh' = Append(msgCh, recv[f].msg)
        /\ recv' = [recv EXCEPT ![f] = [pc |-> "read", msg |-> <<>>]]
        /\ UNCHANGED <<server, asked, replies, phase, table, entries, offered, queries, heard>>
    BY <1>6 DEF Put, lookup
  <2>2. f \in Putting /\ Putting' = Putting \ {f}
    BY <2>1 DEF Putting, QueryInv, ReadersOK
  <2>3. Cardinality(Putting') = Cardinality(Putting) - 1
    BY <1>c, <2>2, FS_RemoveElement
  <2>4. Len(msgCh') = Len(msgCh) + 1
    BY <2>1 DEF QueryInv, ChannelOK
  <2>5. Sent' = Sent /\ Firsts' = Firsts
    BY <2>1 DEF Sent, Firsts
  <2>6. phase' # "idle"
    BY <2>1, <2>2 DEF CountInv
  <2> QED BY <1>c, <2>1, <2>3, <2>4, <2>5, <2>6 DEF CountInv, Spent, Total
<1>7. ASSUME NEW f \in Families, Stop(f) PROVE CountInv'
  <2>1. /\ phase = "closed" /\ recv' = [recv EXCEPT ![f] = [pc |-> "ended", msg |-> <<>>]]
        /\ UNCHANGED <<server, asked, replies, phase, msgCh, table, entries, offered, queries, heard>>
    BY <1>7 DEF Stop, lookup
  <2>2. Putting' \in SUBSET Putting
    BY <2>1 DEF Putting, QueryInv, ReadersOK
  <2>3. Cardinality(Putting') \in Nat /\ Cardinality(Putting') <= Cardinality(Putting)
    BY <1>c, <2>2, FS_Subset, FS_CardinalityType
  <2>4. Sent' = Sent /\ Firsts' = Firsts
    BY <2>1 DEF Sent, Firsts
  <2>5. phase' # "idle"
    BY <2>1
  <2> QED BY <1>c, <2>1, <2>3, <2>4, <2>5 DEF CountInv, Spent, Total
<1>8. CASE TakeEntry \/ Finish \/ UNCHANGED vars
  BY <1>1, <1>8 DEF TakeEntry, Finish, vars, lookup
<1>9. ASSUME NEW s \in Services, NewServer(s) \/ Shutdown(s) PROVE CountInv'
  BY <1>1, <1>9 DEF NewServer, Shutdown, lookup
<1>10. ASSUME NEW s \in Services, NEW f \in Families, RecvEnds(s, f) PROVE CountInv'
  BY <1>1, <1>10 DEF RecvEnds, lookup
<1> QED BY <1>2, <1>3, <1>4, <1>5, <1>6, <1>7, <1>8, <1>9, <1>10 DEF Next

LEMMA QueryHolds == Spec => [](QueryInv /\ CountInv)
<1>1. Init => QueryInv /\ CountInv
  BY InitQuery, InitCount
<1>2. QueryInv /\ CountInv /\ [Next]_vars => QueryInv' /\ CountInv'
  BY StepQuery, StepCount
<1> QED BY <1>1, <1>2, PTL DEF Spec

\* The goroutines, the channels and the table are as their types say: a goroutine that holds a
\* message is one that puts it into msgCh, every name stands for an entry (client.go:289), and
\* what waits in params.Entries was marked as sent (client.go:224).
THEOREM TypesOfQuery == Spec => []TypeOK
<1>1. QueryInv => TypeOK
  BY QueryTypes
<1> QED BY <1>1, QueryHolds, PTL

\* The entries that are given out are exactly the services that answered and have an address,
\* each once and with its own host, port, text and address, also where services share a host
\* and with it the name that an A record bears (client.go:299); the loop never meets a message
\* that leaves it without an entry (client.go:223).
THEOREM EntriesAreServices == Spec => []EntriesExact
<1>1. QueryInv => EntriesExact
  BY QueryExact
<1> QED BY <1>1, QueryHolds, PTL

\* The questions for incomplete and for repeated entries (client.go:230) set off no more
\* answers: with the entries given out there are at most one more than sockets of servers.
THEOREM QuestionsAreBounded == Spec => []NoStorm
<1>1. QueryInv /\ CountInv => NoStorm
  BY Counts DEF CountInv, Spent, Limit, Total, NoStorm
<1> QED BY <1>1, QueryHolds, PTL
=============================================================================
