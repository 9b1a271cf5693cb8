--------------------------- MODULE SequenceFacts ----------------------------
(***************************************************************************)
(* What removing from and inserting into a sequence does to its elements,  *)
(* what growing at its end leaves as it was, and what filtering keeps.     *)
(***************************************************************************)
EXTENDS Integers, SequencesExt, Filters, SequenceTheorems, FiniteSetTheorems, WellFoundedInduction, TLAPS

\* The sequence without its element k.
LEMMA RemoveAtParts ==
  ASSUME NEW S, NEW q \in Seq(S), NEW k \in DOMAIN q
  PROVE  /\ RemoveAt(q, k) \in Seq(S)
         /\ Len(RemoveAt(q, k)) = Len(q) - 1
         /\ \A j \in DOMAIN RemoveAt(q, k) :
              RemoveAt(q, k)[j] = q[IF j < k THEN j ELSE j + 1]
<1> DEFINE a == SubSeq(q, 1, k - 1)
           b == SubSeq(q, k + 1, Len(q))
<1>1. k \in 1..Len(q) /\ Len(q) \in Nat
  OBVIOUS
<1>2. a \in Seq(S) /\ Len(a) = k - 1 /\ \A j \in 1..(k - 1) : a[j] = q[j]
  BY <1>1
<1>3. b \in Seq(S) /\ Len(b) = Len(q) - k /\ \A j \in 1..(Len(q) - k) : b[j] = q[k + j]
  BY <1>1
<1>4. RemoveAt(q, k) = a \o b
  BY DEF RemoveAt
<1> HIDE DEF a, b
<1>5. /\ a \o b \in Seq(S) /\ Len(a \o b) = Len(a) + Len(b)
      /\ \A j \in 1..(Len(a) + Len(b)) : (a \o b)[j] = IF j <= Len(a) THEN a[j] ELSE b[j - Len(a)]
  BY <1>2, <1>3, ConcatProperties
<1>6. ASSUME NEW j \in 1..(Len(q) - 1)
      PROVE  (a \o b)[j] = q[IF j < k THEN j ELSE j + 1]
  <2>1. j \in 1..(Len(a) + Len(b)) /\ j \in Int /\ k \in Int
    BY <1>1, <1>2, <1>3
  <2>2. CASE j < k
    <3>1. j <= Len(a) /\ j \in 1..(k - 1)
      BY <1>1, <1>2, <2>1, <2>2
    <3> QED BY <1>2, <1>5, <2>1, <2>2, <3>1
  <2>3. CASE ~(j < k)
    <3> DEFINE n == Len(q)
               l == Len(a)
    <3>0. n \in Int /\ l = k - 1 /\ j \in Int /\ k \in Int /\ k <= j /\ j <= n - 1
      BY <1>1, <1>2, <2>1, <2>3
    <3> HIDE DEF n, l
    <3>a. ~(j <= l) /\ j - l \in 1..(n - k) /\ k + (j - l) = j + 1
      BY <3>0
    <3>1. ~(j <= Len(a)) /\ j - Len(a) \in 1..(Len(q) - k) /\ k + (j - Len(a)) = j + 1
      BY <3>a DEF n, l
    <3>2. (a \o b)[j] = b[j - Len(a)]
      BY <1>5, <2>1, <3>1
    <3>3. b[j - Len(a)] = q[k + (j - Len(a))]
      BY <1>3, <3>1
    <3> QED BY <2>3, <3>1, <3>2, <3>3
  <2> QED BY <2>2, <2>3
<1>7. Len(a \o b) = Len(q) - 1
  BY <1>1, <1>2, <1>3, <1>5
<1>8. DOMAIN (a \o b) = 1..(Len(q) - 1)
  BY <1>5, <1>7, LenProperties
<1> QED BY <1>4, <1>5, <1>6, <1>7, <1>8

\* The sequence with one more element at place k.
LEMMA InsertAtParts ==
  ASSUME NEW S, NEW q \in Seq(S), NEW k \in 1..(Len(q) + 1), NEW e \in S
  PROVE  /\ InsertAt(q, k, e) \in Seq(S) /\ Len(InsertAt(q, k, e)) = Len(q) + 1
         /\ InsertAt(q, k, e)[k] = e
         /\ \A j \in 1..Len(q) : InsertAt(q, k, e)[IF j < k THEN j ELSE j + 1] = q[j]
<1> DEFINE a == SubSeq(q, 1, k - 1)
           b == SubSeq(q, k, Len(q))
<1>1. k \in Nat /\ Len(q) \in Nat /\ k >= 1 /\ k <= Len(q) + 1
  OBVIOUS
<1>2. a \in Seq(S) /\ Len(a) = k - 1 /\ \A j \in 1..(k - 1) : a[j] = q[j]
  BY <1>1, SubSeqProperties
<1>3. b \in Seq(S) /\ Len(b) = Len(q) - k + 1 /\ \A j \in 1..(Len(q) - k + 1) : b[j] = q[k + j - 1]
  BY <1>1, SubSeqProperties
<1>4. <<e>> \in Seq(S) /\ Len(<<e>>) = 1 /\ <<e>>[1] = e
  OBVIOUS
<1> DEFINE c == a \o <<e>>
<1>5. InsertAt(q, k, e) = c \o b
  BY DEF InsertAt
<1> HIDE DEF a, b
<1>6. /\ c \in Seq(S) /\ Len(c) = k
      /\ \A j \in 1..k : c[j] = IF j <= k - 1 THEN a[j] ELSE <<e>>[j - (k - 1)]
  BY <1>1, <1>2, <1>4, ConcatProperties
<1>7. c[k] = e /\ \A j \in 1..(k - 1) : c[j] = q[j]
  BY <1>1, <1>2, <1>4, <1>6
<1> HIDE DEF c
<1>8. /\ c \o b \in Seq(S) /\ Len(c \o b) = Len(q) + 1
      /\ \A j \in 1..(Len(q) + 1) : (c \o b)[j] = IF j <= k THEN c[j] ELSE b[j - k]
  <2>1. /\ c \o b \in Seq(S) /\ Len(c \o b) = Len(c) + Len(b)
        /\ \A j \in 1..(Len(c) + Len(b)) : (c \o b)[j] = IF j <= Len(c) THEN c[j] ELSE b[j - Len(c)]
    BY <1>3, <1>6, ConcatProperties
  <2>2. Len(c) = k /\ Len(c) + Len(b) = Len(q) + 1
    BY <1>1, <1>3, <1>6
  <2> QED BY <2>1, <2>2
<1>9. (c \o b)[k] = e
  BY <1>1, <1>7, <1>8
<1>10. ASSUME NEW j \in 1..Len(q) PROVE (c \o b)[IF j < k THEN j ELSE j + 1] = q[j]
  <2>1. CASE j < k
    BY <1>1, <1>7, <1>8, <2>1
  <2>2. CASE ~(j < k)
    <3>1. j + 1 \in 1..(Len(q) + 1) /\ ~(j + 1 <= k) /\ j + 1 - k \in 1..(Len(q) - k + 1)
      BY <1>1, <2>2
    <3>2. (c \o b)[j + 1] = b[j + 1 - k] /\ b[j + 1 - k] = q[k + (j + 1 - k) - 1]
      BY <1>3, <1>8, <3>1
    <3>3. k + (j + 1 - k) - 1 = j
      BY <1>1
    <3> HIDE DEF c
    <3> QED BY <2>2, <3>2, <3>3
  <2> QED BY <2>1, <2>2
<1> QED BY <1>5, <1>8, <1>9, <1>10

\* e stands in q at one place at most.
Once(q, e) == \A j, k \in DOMAIN q : q[j] = e /\ q[k] = e => j = k

\* r is q with e besides, at place k.
OneMore(q, k, e, r) ==
  /\ Len(r) = Len(q) + 1 /\ k \in 1..Len(r) /\ r[k] = e
  /\ \A j \in 1..Len(q) : r[IF j < k THEN j ELSE j + 1] = q[j]

LEMMA OneMoreCounts ==
  ASSUME NEW S, NEW q \in Seq(S), NEW r \in Seq(S), NEW k, NEW e, OneMore(q, k, e, r)
  PROVE  /\ \A d : d # e => (Once(q, d) <=> Once(r, d)) /\ (d \in ToSet(q) <=> d \in ToSet(r))
         /\ Once(r, e) <=> e \notin ToSet(q)
         /\ e \in ToSet(r)
<1>1. /\ Len(q) \in Nat /\ Len(r) = Len(q) + 1 /\ DOMAIN q = 1..Len(q) /\ DOMAIN r = 1..Len(r)
      /\ k \in 1..Len(r) /\ r[k] = e
  BY LenProperties DEF OneMore
<1> DEFINE to(j) == IF j < k THEN j ELSE j + 1
           from(j) == IF j < k THEN j ELSE j - 1
<1>2. ASSUME NEW j \in DOMAIN q
      PROVE  to(j) \in DOMAIN r /\ to(j) # k /\ r[to(j)] = q[j]
  BY <1>1, <1>2 DEF OneMore
<1>3. ASSUME NEW j \in DOMAIN r, j # k
      PROVE  from(j) \in DOMAIN q /\ to(from(j)) = j
  BY <1>1, <1>3
<1>4. \A i, j \in DOMAIN q : to(i) = to(j) => i = j
  BY <1>1
<1>5. \A i, j \in DOMAIN r : i # k /\ j # k /\ from(i) = from(j) => i = j
  BY <1>1
<1> HIDE DEF to, from
<1>6. \A j \in DOMAIN r : j # k => q[from(j)] = r[j]
  BY <1>2, <1>3
<1>7. ASSUME NEW d, d # e
      PROVE  (Once(q, d) <=> Once(r, d)) /\ (d \in ToSet(q) <=> d \in ToSet(r))
  <2>1. \A j \in DOMAIN r : r[j] = d => j # k
    BY <1>1, <1>7
  <2>2. Once(q, d) => Once(r, d)
    BY <1>3, <1>5, <1>6, <2>1 DEF Once
  <2>3. Once(r, d) => Once(q, d)
    BY <1>2, <1>4 DEF Once
  <2>4. d \in ToSet(q) <=> d \in ToSet(r)
    BY <1>2, <1>3, <1>6, <2>1 DEF ToSet
  <2> QED BY <2>2, <2>3, <2>4
<1>8. Once(r, e) => e \notin ToSet(q)
  BY <1>1, <1>2 DEF Once, ToSet
<1>9. e \notin ToSet(q) => Once(r, e)
  BY <1>3, <1>6 DEF Once, ToSet
<1> QED BY <1>1, <1>7, <1>8, <1>9 DEF ToSet

\* What an element more, or one less, does to how often an element stands there.
LEMMA RemoveAtCounts ==
  ASSUME NEW S, NEW q \in Seq(S), NEW k \in DOMAIN q
  PROVE  OneMore(RemoveAt(q, k), k, q[k], q)
<1> DEFINE p == RemoveAt(q, k)
<1>1. p \in Seq(S) /\ Len(p) = Len(q) - 1 /\ \A j \in DOMAIN p : p[j] = q[IF j < k THEN j ELSE j + 1]
  BY RemoveAtParts
<1> HIDE DEF p
<1>2. DOMAIN p = 1..Len(p) /\ Len(p) \in Nat /\ k \in 1..Len(q) /\ Len(q) = Len(p) + 1
  BY <1>1, LenProperties
<1>3. OneMore(p, k, q[k], q)
  BY <1>1, <1>2 DEF OneMore
<1> QED BY <1>3 DEF p

LEMMA InsertAtCounts ==
  ASSUME NEW S, NEW q \in Seq(S), NEW k \in 1..(Len(q) + 1), NEW e \in S
  PROVE  OneMore(q, k, e, InsertAt(q, k, e))
BY InsertAtParts, LenProperties DEF OneMore

LEMMA AppendCounts ==
  ASSUME NEW S, NEW q \in Seq(S), NEW e \in S
  PROVE  OneMore(q, Len(q) + 1, e, Append(q, e))
<1>1. /\ Len(q) \in Nat /\ Len(Append(q, e)) = Len(q) + 1 /\ Append(q, e)[Len(q) + 1] = e
      /\ \A j \in 1..Len(q) : Append(q, e)[j] = q[j]
  BY AppendProperties, LenProperties
<1> QED BY <1>1 DEF OneMore

\* Where the elements come from when element k of N goes, and perhaps another follows at
\* the end.
From(N, k, j) == IF j = N THEN k ELSE IF j < k THEN j ELSE j + 1

LEMMA FromPlaces ==
  ASSUME NEW N \in Nat, NEW k \in 1..N, NEW n \in {N - 1, N}
  PROVE  \E from \in [1..n -> 1..N] :
           /\ \A i, j \in 1..n : from[i] = from[j] => i = j
           /\ \A i, j \in 1..n : i < j /\ from[j] # k => from[i] < from[j]
           /\ \A m \in 1..N : m # k \/ n = N => \E i \in 1..n : from[i] = m
           /\ \A j \in 1..n : from[j] = From(N, k, j)
<1> DEFINE from == [j \in 1..n |-> From(N, k, j)]
<1>1. \A j \in 1..n : from[j] = From(N, k, j)
  OBVIOUS
<1>2. \A j \in 1..n : From(N, k, j) \in 1..N
  BY DEF From
<1>3. from \in [1..n -> 1..N]
  BY <1>2
<1> HIDE DEF from
<1>4. ASSUME NEW i \in 1..n, NEW j \in 1..n, from[i] = from[j]
      PROVE  i = j
  <2>1. From(N, k, i) = From(N, k, j)
    BY <1>1, <1>4
  <2> QED BY <2>1 DEF From
<1>5. ASSUME NEW i \in 1..n, NEW j \in 1..n, i < j, from[j] # k
      PROVE  from[i] < from[j]
  <2>1. From(N, k, j) # k
    BY <1>1, <1>5
  <2>2. From(N, k, i) < From(N, k, j)
    BY <1>5, <2>1 DEF From
  <2> QED BY <1>1, <2>2
<1>6. ASSUME NEW m \in 1..N, m # k \/ n = N
      PROVE  \E i \in 1..n : from[i] = m
  <2> DEFINE i == IF m = k THEN N ELSE IF m < k THEN m ELSE m - 1
  <2>1. i \in 1..n /\ From(N, k, i) = m
    BY <1>6 DEF From
  <2> QED BY <1>1, <2>1
<1> QED BY <1>1, <1>3, <1>4, <1>5, <1>6

\* Element k of p gone, or replaced by another at the end: where each element comes from.
\* The others keep their order, and none is lost.
CameFrom(p, k, tail, r) ==
  \E from \in [DOMAIN r -> DOMAIN p] :
    /\ \A i, j \in DOMAIN r : from[i] = from[j] => i = j
    /\ \A i, j \in DOMAIN r : i < j /\ from[j] # k => from[i] < from[j]
    /\ \A m \in DOMAIN p : m # k \/ Len(tail) = 1 => \E i \in DOMAIN r : from[i] = m
    /\ \A j \in DOMAIN r : \/ r[j] = p[from[j]] /\ from[j] # k
                           \/ Len(tail) = 1 /\ r[j] = tail[1] /\ from[j] = k

LEMMA Moved ==
  ASSUME NEW S, NEW p \in Seq(S), NEW k \in DOMAIN p, NEW tail \in Seq(S), Len(tail) \in {0, 1},
         NEW r, r = RemoveAt(p, k) \o tail
  PROVE  r \in Seq(S) /\ CameFrom(p, k, tail, r)
<1> DEFINE N == Len(p)
           q == RemoveAt(p, k)
           n == Len(r)
<1>1. p \in Seq(S) /\ N \in Nat /\ k \in 1..N /\ DOMAIN p = 1..N
  BY LenProperties
<1>2. /\ q \in Seq(S) /\ Len(q) = N - 1
      /\ \A j \in 1..(N - 1) : q[j] = p[IF j < k THEN j ELSE j + 1]
  BY <1>1, RemoveAtParts, LenProperties
<1>3. /\ r \in Seq(S) /\ n = N - 1 + Len(tail) /\ DOMAIN r = 1..n
      /\ \A j \in 1..n : r[j] = IF j <= N - 1 THEN q[j] ELSE tail[j - (N - 1)]
  <2>1. /\ r \in Seq(S) /\ n = Len(q) + Len(tail)
        /\ \A j \in 1..(Len(q) + Len(tail)) : r[j] = IF j <= Len(q) THEN q[j] ELSE tail[j - Len(q)]
    BY <1>2, ConcatProperties
  <2>2. DOMAIN r = 1..n
    BY <2>1, LenProperties
  <2> QED BY <1>2, <2>1, <2>2
<1> HIDE DEF N, n, q
<1>4. N \in Nat /\ k \in 1..N /\ n \in {N - 1, N} /\ (n = N <=> Len(tail) = 1)
  <2>1. N \in Nat /\ k \in 1..N /\ n = N - 1 + Len(tail)
    BY <1>1, <1>3
  <2>2. CASE Len(tail) = 0
    BY <2>1, <2>2
  <2>3. CASE Len(tail) = 1
    BY <2>1, <2>3
  <2> QED BY <2>1, <2>2, <2>3
<1>5. PICK from \in [1..n -> 1..N] :
        /\ \A i, j \in 1..n : from[i] = from[j] => i = j
        /\ \A i, j \in 1..n : i < j /\ from[j] # k => from[i] < from[j]
        /\ \A m \in 1..N : m # k \/ n = N => \E i \in 1..n : from[i] = m
        /\ \A j \in 1..n : from[j] = From(N, k, j)
  BY <1>4, FromPlaces
<1>6. ASSUME NEW j \in 1..n
      PROVE  \/ r[j] = p[from[j]] /\ from[j] # k
             \/ Len(tail) = 1 /\ r[j] = tail[1] /\ from[j] = k
  <2>1. CASE j <= N - 1
    <3>1. j \in 1..(N - 1)
      BY <1>1, <1>4, <2>1
    <3>2. r[j] = q[j]
      BY <1>3, <2>1
    <3>3. from[j] = IF j < k THEN j ELSE j + 1
      BY <1>4, <1>5, <3>1 DEF From
    <3>4. r[j] = p[from[j]]
      BY <1>2, <3>1, <3>2, <3>3
    <3>5. from[j] # k
      BY <1>1, <3>1, <3>3
    <3> QED BY <3>4, <3>5
  <2>2. CASE ~(j <= N - 1)
    <3>1. j = N /\ n = N
      BY <1>1, <1>4, <2>2
    <3>2. r[j] = tail[j - (N - 1)] /\ j - (N - 1) = 1
      BY <1>1, <1>3, <2>2, <3>1
    <3>3. from[j] = k
      BY <1>5, <3>1 DEF From
    <3> QED BY <1>4, <3>1, <3>2, <3>3
  <2> QED BY <2>1, <2>2
<1>7. /\ from \in [DOMAIN r -> DOMAIN p]
      /\ \A i, j \in DOMAIN r : from[i] = from[j] => i = j
      /\ \A i, j \in DOMAIN r : i < j /\ from[j] # k => from[i] < from[j]
      /\ \A m \in DOMAIN p : m # k \/ Len(tail) = 1 => \E i \in DOMAIN r : from[i] = m
      /\ \A j \in DOMAIN r : \/ r[j] = p[from[j]] /\ from[j] # k
                             \/ Len(tail) = 1 /\ r[j] = tail[1] /\ from[j] = k
  BY <1>1, <1>3, <1>4, <1>5, <1>6 DEF N
<1> QED BY <1>3, <1>7 DEF CameFrom

\* Nothing else is lost: every other element is still somewhere.
AllBut(p, k, r) == \A j \in DOMAIN p : j # k => \E i \in DOMAIN r : r[i] = p[j]

\* What CameFrom says of the places that were, AllBut says of the elements.
LEMMA Remains ==
  ASSUME NEW S, NEW p \in Seq(S), NEW k \in DOMAIN p, NEW tail \in Seq(S), Len(tail) \in {0, 1},
         NEW r, r = RemoveAt(p, k) \o tail
  PROVE  AllBut(p, k, r)
<1> DEFINE N == Len(p)
           q == RemoveAt(p, k)
<1>1. N \in Nat /\ k \in 1..N /\ DOMAIN p = 1..N /\ Len(tail) \in Nat
  BY LenProperties
<1>2. /\ q \in Seq(S) /\ Len(q) = N - 1
      /\ \A i \in 1..(N - 1) : q[i] = p[IF i < k THEN i ELSE i + 1]
  BY <1>1, RemoveAtParts, LenProperties
<1>3. /\ DOMAIN r = 1..(N - 1 + Len(tail))
      /\ \A i \in 1..(N - 1 + Len(tail)) : r[i] = IF i <= N - 1 THEN q[i] ELSE tail[i - (N - 1)]
  <2>1. /\ r \in Seq(S) /\ Len(r) = Len(q) + Len(tail)
        /\ \A i \in 1..(Len(q) + Len(tail)) : r[i] = IF i <= Len(q) THEN q[i] ELSE tail[i - Len(q)]
    BY <1>2, ConcatProperties
  <2>2. DOMAIN r = 1..Len(r)
    BY <2>1, LenProperties
  <2> QED BY <1>2, <2>1, <2>2
<1> HIDE DEF N, q
<1>4. ASSUME NEW j \in 1..N, j # k PROVE \E i \in DOMAIN r : r[i] = p[j]
  <2> DEFINE i == IF j < k THEN j ELSE j - 1
  <2>1. i \in 1..(N - 1) /\ (IF i < k THEN i ELSE i + 1) = j
    BY <1>1, <1>4
  <2> HIDE DEF i
  <2>2. i \in 1..(N - 1 + Len(tail)) /\ i <= N - 1
    BY <1>1, <2>1
  <2>3. r[i] = q[i] /\ q[i] = p[j]
    BY <1>2, <1>3, <2>1, <2>2
  <2> QED BY <1>3, <2>2, <2>3
<1> QED BY <1>1, <1>4 DEF AllBut

\* A set of naturals has a least element: a descent in it would never end.
LEMMA LeastNatural ==
  ASSUME NEW T \in SUBSET Nat, T # {}
  PROVE  \E x \in T : \A y \in T : x <= y
<1> DEFINE R == {ss \in Nat \X Nat : ss[1] < ss[2]}
<1>1. IsWellFoundedOn(R, Nat)
  BY NatLessThanWellFounded DEF OpToRel
<1> HIDE DEF R
<1>2. PICK x \in T : \A y \in T : ~ (<<y, x>> \in R)
  BY <1>1, WFMin
<1>3. \A y \in T : y < x => <<y, x>> \in R
  BY DEF R
<1>4. ASSUME NEW y \in T PROVE x <= y
  <2>1. x \in Nat /\ y \in Nat /\ ~(y < x)
    BY <1>2, <1>3
  <2> QED BY <2>1
<1> QED BY <1>4

\* An element of a sequence has a first place in it.
LEMMA FirstPlace ==
  ASSUME NEW S, NEW q \in Seq(S), NEW e \in ToSet(q)
  PROVE  \E k \in 1..Len(q) : q[k] = e /\ \A j \in 1..(k - 1) : q[j] # e
<1> DEFINE T == {k \in 1..Len(q) : q[k] = e}
<1>1. Len(q) \in Nat /\ DOMAIN q = 1..Len(q)
  BY LenProperties
<1>2. T \in SUBSET Nat /\ T # {}
  BY <1>1 DEF ToSet
<1>3. PICK k \in T : \A j \in T : k <= j
  BY <1>2, LeastNatural
<1>4. ASSUME NEW j \in 1..(k - 1) PROVE q[j] # e
  <2>1. j \in 1..Len(q) /\ ~(k <= j)
    BY <1>1, <1>3
  <2> QED BY <1>3, <2>1
<1> QED BY <1>3, <1>4

\* The elements of a finite set in a sequence, each of them once.
LEMMA SetToSeqIsSeq ==
  ASSUME NEW S, IsFiniteSet(S)
  PROVE  /\ SetToSeq(S) \in Seq(S)
         /\ ToSet(SetToSeq(S)) = S
         /\ IsInjective(SetToSeq(S))
<1> DEFINE n == Cardinality(S)
           q == SetToSeq(S)
<1>1. n \in Nat /\ ExistsBijection(1..n, S)
  BY FS_CardinalityType
<1>2. \E f \in [1..n -> S] : IsInjective(f)
  BY <1>1 DEF ExistsBijection, Bijection, Injection
<1>3. q \in [1..n -> S] /\ IsInjective(q)
  BY <1>2 DEF SetToSeq
<1> HIDE DEF q
<1>4. q \in Injection(1..n, S)
  BY <1>3 DEF Injection, IsInjective
<1>5. IsFiniteSet(1..n) /\ Cardinality(1..n) = n
  <2>1. Cardinality(1..n) = IF 1 > n THEN 0 ELSE n - 1 + 1
    BY <1>1, FS_Interval
  <2> QED BY <1>1, <2>1, FS_Interval
<1>6. q \in Surjection(1..n, S)
  BY <1>4, <1>5, FS_Injection
<1>7. ToSet(q) = S
  BY <1>3, <1>6 DEF Surjection, ToSet
<1> QED BY <1>1, <1>3, <1>7 DEF q

\* An element handed over from the head of one sequence to the end of another.
LEMMA HandedOver ==
  ASSUME NEW S, NEW q \in Seq(S), NEW r \in Seq(S), r # <<>>
  PROVE  Append(q, Head(r)) \o Tail(r) = q \o r
<1> DEFINE a == Append(q, Head(r))
           t == Tail(r)
<1>1. /\ Len(q) \in Nat /\ Len(r) \in Nat /\ Len(r) >= 1
      /\ a \in Seq(S) /\ Len(a) = Len(q) + 1 /\ a[Len(q) + 1] = r[1]
      /\ \A j \in 1..Len(q) : a[j] = q[j]
      /\ t \in Seq(S) /\ Len(t) = Len(r) - 1 /\ \A j \in 1..(Len(r) - 1) : t[j] = r[j + 1]
  <2>1. Len(r) \in Nat /\ Len(r) # 0
    BY LenProperties, EmptySeq
  <2>2. Head(r) = r[1] /\ Head(r) \in S
    BY HeadTailProperties
  <2>3. Len(t) = Len(r) - 1 /\ t \in Seq(S) /\ \A j \in 1..(Len(r) - 1) : t[j] = r[j + 1]
    BY <2>1, HeadTailProperties
  <2>4. /\ Len(q) \in Nat /\ a \in Seq(S) /\ Len(a) = Len(q) + 1 /\ a[Len(q) + 1] = r[1]
        /\ \A j \in 1..Len(q) : a[j] = q[j]
    BY <2>2, AppendProperties, LenProperties
  <2> QED BY <2>1, <2>3, <2>4
<1> HIDE DEF a, t
<1>2. /\ a \o t \in Seq(S) /\ Len(a \o t) = Len(a) + Len(t)
      /\ \A j \in 1..(Len(a) + Len(t)) : (a \o t)[j] = IF j <= Len(a) THEN a[j] ELSE t[j - Len(a)]
  BY <1>1, ConcatProperties
<1>3. /\ q \o r \in Seq(S) /\ Len(q \o r) = Len(q) + Len(r)
      /\ \A j \in 1..(Len(q) + Len(r)) : (q \o r)[j] = IF j <= Len(q) THEN q[j] ELSE r[j - Len(q)]
  BY ConcatProperties
<1>4. Len(a \o t) = Len(q \o r) /\ Len(q \o r) \in Nat
  BY <1>1, <1>2, <1>3
<1>5. ASSUME NEW j \in 1..Len(q \o r) PROVE (a \o t)[j] = (q \o r)[j]
  <2>1. CASE j <= Len(q)
    BY <1>1, <1>2, <1>3, <2>1
  <2>2. CASE j = Len(q) + 1
    <3>1. (a \o t)[j] = r[1]
      BY <1>1, <1>2, <1>4, <2>2
    <3>2. (q \o r)[j] = r[j - Len(q)] /\ j - Len(q) = 1
      BY <1>1, <1>3, <2>2
    <3> QED BY <3>1, <3>2
  <2>3. CASE j > Len(q) + 1
    <3> DEFINE i == j - (Len(q) + 1)
    <3>1. i \in 1..(Len(r) - 1) /\ j - Len(a) = i /\ j - Len(q) = i + 1 /\ ~(j <= Len(a)) /\ ~(j <= Len(q))
      BY <1>1, <1>3, <2>3
    <3>2. (a \o t)[j] = t[i] /\ (q \o r)[j] = r[i + 1]
      BY <1>2, <1>3, <1>4, <3>1
    <3> QED BY <1>1, <3>1, <3>2
  <2> QED BY <1>1, <2>1, <2>2, <2>3
<1>6. a \o t = q \o r
  BY <1>2, <1>3, <1>4, <1>5, SeqEqual
<1> QED BY <1>6 DEF a, t

\* p is how q began.
Begins(p, q) == Len(p) <= Len(q) /\ \A j \in 1..Len(p) : p[j] = q[j]

\* A beginning stays one when the sequence grows.
LEMMA BeginsGrown ==
  ASSUME NEW S, NEW p \in Seq(S), NEW q \in Seq(S), NEW e \in S, Begins(p, q)
  PROVE  Begins(p, Append(q, e))
<1>1. Len(p) \in Nat /\ Len(q) \in Nat
  BY LenProperties
<1>2. Len(Append(q, e)) = Len(q) + 1 /\ \A j \in 1..Len(q) : Append(q, e)[j] = q[j]
  BY AppendProperties
<1> QED BY <1>1, <1>2 DEF Begins

\* The next element makes a longer beginning.
LEMMA BeginsOneMore ==
  ASSUME NEW S, NEW p \in Seq(S), NEW q \in Seq(S), Begins(p, q), Len(p) + 1 <= Len(q)
  PROVE  Begins(Append(p, q[Len(p) + 1]), q)
<1> DEFINE e == q[Len(p) + 1]
           r == Append(p, e)
<1>1. Len(p) \in Nat /\ Len(q) \in Nat
  BY LenProperties
<1>2. e \in S
  BY <1>1
<1> HIDE DEF e
<1>3. Len(r) = Len(p) + 1 /\ (\A j \in 1..Len(p) : r[j] = p[j]) /\ r[Len(p) + 1] = e
  BY <1>2, AppendProperties
<1> HIDE DEF r
<1>4. ASSUME NEW j \in 1..Len(r) PROVE r[j] = q[j]
  <2>1. CASE j \in 1..Len(p)
    BY <1>3, <2>1 DEF Begins
  <2>2. CASE j = Len(p) + 1
    BY <1>3, <2>2 DEF e
  <2> QED BY <1>1, <1>3, <2>1, <2>2
<1>5. Begins(r, q)
  BY <1>3, <1>4 DEF Begins
<1> QED BY <1>5 DEF r, e
-----------------------------------------------------------------------------
(* Filtering.  Whatever holds of Filter is shown by a least counterexample: *)
(* the first place where it would fail.                                    *)

\* f is what Filter(s, T) computes on the way to place n.
Kept(s, T, f, n) ==
  f = [k \in 0..n |-> IF k = 0 THEN << >>
                      ELSE IF s[k] \in T THEN Append(f[k - 1], s[k]) ELSE f[k - 1]]

\* The recursion has a solution.
LEMMA KeptExists ==
  ASSUME NEW s, NEW T, NEW N \in Nat
  PROVE  \E f : Kept(s, T, f, N)
<1> DEFINE Bad == {n \in Nat : ~ \E f : Kept(s, T, f, n)}
<1>1. SUFFICES ASSUME Bad # {} PROVE FALSE
  OBVIOUS
<1>2. PICK n \in Bad : \A m \in Bad : n <= m
  BY <1>1, LeastNatural
<1>3. n # 0
  <2> DEFINE g == [k \in 0..0 |-> << >>]
  <2>1. Kept(s, T, g, 0)
    BY DEF Kept
  <2> QED BY <2>1
<1>4. n \in Nat /\ n - 1 \in Nat /\ n - 1 \notin Bad
  BY <1>2, <1>3
<1>5. PICK f : Kept(s, T, f, n - 1)
  BY <1>4
<1> DEFINE next == IF s[n] \in T THEN Append(f[n - 1], s[n]) ELSE f[n - 1]
           g == [k \in 0..n |-> IF k = n THEN next ELSE f[k]]
           h == [k \in 0..n |-> IF k = 0 THEN << >>
                               ELSE IF s[k] \in T THEN Append(g[k - 1], s[k]) ELSE g[k - 1]]
<1>6. \A k \in 0..(n - 1) :
        f[k] = IF k = 0 THEN << >> ELSE IF s[k] \in T THEN Append(f[k - 1], s[k]) ELSE f[k - 1]
  BY <1>5 DEF Kept
<1>7. ASSUME NEW k \in 0..n PROVE g[k] = h[k]
  <2>1. CASE k = 0
    <3>1. 0 \in 0..(n - 1) /\ k # n
      BY <1>3, <1>4, <2>1
    <3> QED BY <1>6, <2>1, <3>1
  <2>2. CASE k # 0 /\ k # n
    <3>1. k - 1 \in 0..n /\ k - 1 # n /\ k \in 0..(n - 1)
      BY <1>4, <2>2
    <3>2. g[k - 1] = f[k - 1] /\ g[k] = f[k]
      BY <3>1, <2>2
    <3> HIDE DEF g
    <3> QED BY <1>6, <2>2, <3>1, <3>2
  <2>3. CASE k = n
    <3>1. n - 1 \in 0..n /\ n - 1 # n
      BY <1>4
    <3>2. g[n - 1] = f[n - 1] /\ g[n] = next
      BY <3>1, <1>4
    <3> HIDE DEF g
    <3> QED BY <1>3, <2>3, <3>2
  <2> QED BY <2>1, <2>2, <2>3
<1>8. g = h
  BY <1>7, Zenon
<1>9. Kept(s, T, g, n)
  BY <1>8 DEF Kept
<1> QED BY <1>2, <1>9

\* So Filter is its last value.
LEMMA FilterIs ==
  ASSUME NEW S, NEW s \in Seq(S), NEW T
  PROVE  \E f : Kept(s, T, f, Len(s)) /\ Filter(s, T) = f[Len(s)]
<1> DEFINE N == Len(s)
           F == CHOOSE f : f = [k \in 0..N |-> IF k = 0 THEN << >>
                     ELSE IF s[k] \in T THEN Append(f[k - 1], s[k]) ELSE f[k - 1]]
<1>1. N \in Nat
  BY LenProperties
<1>2. \E f : Kept(s, T, f, N)
  BY <1>1, KeptExists
<1>3. Kept(s, T, F, N)
  BY <1>2, Zenon DEF Kept
<1>4. Filter(s, T) = F[N]
  BY Zenon DEF Filter
<1> QED BY <1>3, <1>4

\* Nothing of nothing.
LEMMA FilterEmpty ==
  ASSUME NEW T
  PROVE  Filter(<< >>, T) = << >>
<1>1. << >> \in Seq({}) /\ Len(<< >>) = 0
  OBVIOUS
<1>2. PICK f : Kept(<< >>, T, f, 0) /\ Filter(<< >>, T) = f[0]
  BY <1>1, FilterIs
<1> QED BY <1>2 DEF Kept

\* One more element is kept at the end, or dropped.
LEMMA FilterAppend ==
  ASSUME NEW S, NEW s \in Seq(S), NEW e \in S, NEW T
  PROVE  Filter(Append(s, e), T) = IF e \in T THEN Append(Filter(s, T), e) ELSE Filter(s, T)
<1> DEFINE r == Append(s, e)
           N == Len(s)
<1>1. N \in Nat /\ r \in Seq(S) /\ Len(r) = N + 1 /\ r[N + 1] = e /\ \A k \in 1..N : r[k] = s[k]
  BY LenProperties, AppendProperties
<1> HIDE DEF r, N
<1>2. PICK f : Kept(s, T, f, N) /\ Filter(s, T) = f[N]
  BY FilterIs DEF N
<1>3. PICK g : Kept(r, T, g, N + 1) /\ Filter(r, T) = g[N + 1]
  BY <1>1, FilterIs
<1>4. \A k \in 0..N :
        f[k] = IF k = 0 THEN << >> ELSE IF s[k] \in T THEN Append(f[k - 1], s[k]) ELSE f[k - 1]
  BY <1>2 DEF Kept
<1>5. \A k \in 0..(N + 1) :
        g[k] = IF k = 0 THEN << >> ELSE IF r[k] \in T THEN Append(g[k - 1], r[k]) ELSE g[k - 1]
  BY <1>3 DEF Kept
<1> DEFINE Bad == {k \in 0..N : f[k] # g[k]}
<1>6. Bad = {}
  <2>1. SUFFICES ASSUME Bad # {} PROVE FALSE
    OBVIOUS
  <2>2. Bad \in SUBSET Nat
    BY <1>1
  <2>3. PICK k \in Bad : \A m \in Bad : k <= m
    BY <2>1, <2>2, LeastNatural
  <2>4. k # 0
    BY <1>1, <1>4, <1>5, <2>3
  <2>5. k - 1 \in 0..N /\ k - 1 \notin Bad /\ k \in 1..N /\ k \in 0..(N + 1)
    BY <1>1, <2>3, <2>4
  <2>6. f[k - 1] = g[k - 1] /\ s[k] = r[k]
    BY <1>1, <2>5
  <2> QED BY <1>4, <1>5, <2>3, <2>4, <2>5, <2>6
<1>7. f[N] = g[N]
  BY <1>1, <1>6
<1>8. g[N + 1] = IF e \in T THEN Append(g[N], e) ELSE g[N]
  <2>1. N + 1 \in 0..(N + 1) /\ N + 1 # 0 /\ (N + 1) - 1 = N
    BY <1>1
  <2> QED BY <1>1, <1>5, <2>1
<1> QED BY <1>2, <1>3, <1>7, <1>8 DEF r

\* What Filter keeps: the elements in the set, none of them twice that was not there twice.
LEMMA FilterParts ==
  ASSUME NEW S, NEW s \in Seq(S), NEW T
  PROVE  /\ Filter(s, T) \in Seq(S)
         /\ \A e : e \in ToSet(Filter(s, T)) <=> e \in ToSet(s) /\ e \in T
         /\ IsInjective(s) => IsInjective(Filter(s, T))
<1> DEFINE N == Len(s)
<1>1. N \in Nat /\ DOMAIN s = 1..N /\ \A k \in 1..N : s[k] \in S
  BY LenProperties
<1> HIDE DEF N
<1>2. PICK f : Kept(s, T, f, N) /\ Filter(s, T) = f[N]
  BY FilterIs DEF N
<1>3. \A k \in 0..N :
        f[k] = IF k = 0 THEN << >> ELSE IF s[k] \in T THEN Append(f[k - 1], s[k]) ELSE f[k - 1]
  BY <1>2 DEF Kept
<1> DEFINE Right(k) == /\ f[k] \in Seq(S)
                       /\ \A e : e \in ToSet(f[k]) <=> e \in T /\ \E j \in 1..k : s[j] = e
                       /\ IsInjective(s) => IsInjective(f[k])
           Bad == {k \in 0..N : ~Right(k)}
<1>4. Bad = {}
  <2>1. SUFFICES ASSUME Bad # {} PROVE FALSE
    OBVIOUS
  <2>2. PICK k \in Bad : \A m \in Bad : k <= m
    <3>1. Bad \in SUBSET Nat
      BY <1>1
    <3> HIDE DEF Bad
    <3> QED BY <2>1, <3>1, LeastNatural
  <2>3. k # 0
    <3>1. f[0] = << >>
      BY <1>1, <1>3
    <3>2. Right(0)
      <4>1. << >> \in Seq(S) /\ DOMAIN << >> = {} /\ 1..0 = {}
        OBVIOUS
      <4> QED BY <3>1, <4>1 DEF ToSet, IsInjective
    <3> HIDE DEF Right
    <3> QED BY <2>2, <3>2
  <2>4. k \in 1..N /\ k - 1 \in 0..N /\ ~(k <= k - 1)
    BY <1>1, <2>2, <2>3
  <2>5. Right(k - 1) /\ ~Right(k)
    <3> HIDE DEF Right
    <3> QED BY <2>2, <2>4
  <2>6. f[k] = IF s[k] \in T THEN Append(f[k - 1], s[k]) ELSE f[k - 1]
    BY <1>3, <2>2, <2>3
  <2>7. \A e : (\E j \in 1..k : s[j] = e) <=> (\E j \in 1..(k - 1) : s[j] = e) \/ s[k] = e
    BY <2>4
  <2>8. CASE s[k] \notin T
    <3>1. f[k] = f[k - 1]
      BY <2>6, <2>8
    <3>2. \A e : e \in ToSet(f[k]) <=> e \in T /\ \E j \in 1..k : s[j] = e
      BY <2>5, <2>7, <2>8, <3>1
    <3> QED BY <2>5, <3>1, <3>2
  <2>9. CASE s[k] \in T
    <3> DEFINE p == f[k - 1]
               r == f[k]
               n == Len(p) + 1
    <3>0. p \in Seq(S) /\ s[k] \in S /\ r = Append(p, s[k])
      BY <1>1, <2>4, <2>5, <2>6, <2>9
    <3>1. /\ r \in Seq(S) /\ Len(p) \in Nat
          /\ DOMAIN p = 1..Len(p) /\ DOMAIN r = 1..n
          /\ r[n] = s[k] /\ \A j \in 1..Len(p) : r[j] = p[j]
      BY <3>0, AppendProperties, LenProperties
    <3>2. /\ \A e : e \in ToSet(p) <=> e \in T /\ \E j \in 1..(k - 1) : s[j] = e
          /\ IsInjective(s) => IsInjective(p)
      BY <2>5
    <3> HIDE DEF p, r
    <3>3. \A e : e \in ToSet(r) <=> e \in ToSet(p) \/ s[k] = e
      BY <3>1 DEF ToSet
    <3>4. \A e : e \in ToSet(r) <=> e \in T /\ \E j \in 1..k : s[j] = e
      BY <2>7, <2>9, <3>2, <3>3
    <3>5. ASSUME IsInjective(s) PROVE IsInjective(r)
      <4>1. s[k] \notin ToSet(p)
        <5>1. ASSUME NEW j \in 1..(k - 1), s[j] = s[k] PROVE FALSE
          BY <1>1, <2>4, <3>5, <5>1 DEF IsInjective
        <5> QED BY <3>2, <5>1
      <4>2. \A j \in DOMAIN p : p[j] # s[k]
        BY <4>1 DEF ToSet
      <4> QED BY <3>1, <3>2, <3>5, <4>2 DEF IsInjective
    <3> QED BY <2>5, <3>1, <3>4, <3>5 DEF r
  <2> QED BY <2>8, <2>9
<1>5. Right(N)
  <2> HIDE DEF Right
  <2> QED BY <1>1, <1>4
<1>6. \A e : e \in ToSet(s) <=> \E j \in 1..N : s[j] = e
  BY <1>1 DEF ToSet
<1> QED BY <1>2, <1>5, <1>6

\* One more element, which is new.
LEMMA AppendNew ==
  ASSUME NEW S, NEW s \in Seq(S), NEW e \in S, e \notin ToSet(s)
  PROVE  /\ Append(s, e) \in Seq(S) /\ ToSet(Append(s, e)) = ToSet(s) \cup {e}
         /\ IsInjective(s) => IsInjective(Append(s, e))
<1> DEFINE r == Append(s, e)
           n == Len(s) + 1
<1>1. /\ r \in Seq(S) /\ Len(s) \in Nat /\ DOMAIN s = 1..Len(s) /\ DOMAIN r = 1..n
      /\ r[n] = e /\ \A j \in 1..Len(s) : r[j] = s[j]
  BY AppendProperties, LenProperties
<1> HIDE DEF r
<1>2. ToSet(r) = ToSet(s) \cup {e}
  BY <1>1 DEF ToSet
<1>3. IsInjective(s) => IsInjective(r)
  BY <1>1 DEF IsInjective, ToSet
<1> QED BY <1>1, <1>2, <1>3 DEF r
=============================================================================
