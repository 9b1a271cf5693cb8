------------------------ MODULE NamedWebSocketProofs ------------------------
(***************************************************************************)
(* Theorems about one named websocket, for every set of connections, every *)
(* assignment of ids and every capacity of the buffer: its lists; what its *)
(* members get, which are the broadcasts the dispatcher's two loops hand   *)
(* to peers and writeable proxies (and that a named websocket implements   *)
(* the abstract broadcast group), the peers a watcher is told of, and the  *)
(* direct messages that are relayed.                                       *)
(***************************************************************************)
EXTENDS NamedWebSocketInv, NamedWebSocketGroup, SequenceTheorems, TLAPS

(* Slices: what append and removal do to a slice, to the heap of arrays it *)
(* lives in, and to every other header on that heap.                       *)

\* A function on 1..n is a sequence of length n.
LEMMA FunctionIsSeq ==
  ASSUME NEW T, NEW n \in Nat, NEW f \in [1..n -> T]
  PROVE  f \in Seq(T) /\ Len(f) = n
<1>1. f \in Seq(T)
  BY SeqDef
<1> QED BY <1>1, LenProperties

\* The parts of an array.
LEMMA ArrayParts ==
  ASSUME NEW T, NEW a \in Array(T)
  PROVE  /\ a.cap \in Nat /\ a.at \in Seq(T) /\ Len(a.at) \in Nat
         /\ \A j \in 1..Len(a.at) : a.at[j] \in T
<1>1. a.cap \in Nat /\ a.at \in Seq(T)
  BY DEF Array
<1> QED BY <1>1, LenProperties, ElementOfSeq

\* Storing behind the first n elements of an array (append in place).
LEMMA StoreFacts ==
  ASSUME NEW T, NEW a \in Array(T), NEW n \in Nat, NEW x \in T, n <= Len(a.at)
  PROVE  LET b == Store(a, n, x) IN
         /\ b \in Array(T)
         /\ Len(b.at) >= n + 1 /\ Len(b.at) >= Len(a.at)
         /\ \A j \in 1..Len(a.at) : j # n + 1 => b.at[j] = a.at[j]
         /\ b.at[n + 1] = x
<1> DEFINE m == IF n < Len(a.at) THEN Len(a.at) ELSE n + 1
           f == [j \in 1..m |-> IF j = n + 1 THEN x ELSE a.at[j]]
<1>1. /\ a.cap \in Nat /\ Len(a.at) \in Nat
      /\ \A j \in 1..Len(a.at) : a.at[j] \in T
  BY ArrayParts
<1>2. m \in Nat /\ m >= n + 1 /\ m >= Len(a.at) /\ (m = Len(a.at) \/ m = n + 1)
  BY <1>1
<1>3. f \in [1..m -> T]
  <2>1. \A j \in 1..m : j = n + 1 \/ j \in 1..Len(a.at)
    BY <1>1, <1>2
  <2> QED BY <2>1, <1>1
<1>4. f \in Seq(T) /\ Len(f) = m
  <2> HIDE DEF f, m
  <2> QED BY <1>2, <1>3, FunctionIsSeq
<1>5. Store(a, n, x) = [cap |-> a.cap, at |-> f]
  BY DEF Store
<1>6. /\ \A j \in 1..Len(a.at) : j # n + 1 => f[j] = a.at[j]
      /\ f[n + 1] = x
  BY <1>1, <1>2
<1> HIDE DEF f, m
<1>7. [cap |-> a.cap, at |-> f] \in Array(T)
  BY <1>1, <1>4 DEF Array
<1> QED BY <1>2, <1>4, <1>5, <1>6, <1>7

\* Moving the first n elements of an array and a new one to a larger array.
LEMMA MovedFacts ==
  ASSUME NEW T, NEW a \in Array(T), NEW n \in Nat, NEW x \in T, n <= Len(a.at)
  PROVE  LET b == Moved(a, n, x) IN
         /\ b \in Array(T)
         /\ Len(b.at) = n + 1
         /\ \A j \in 1..n : b.at[j] = a.at[j]
         /\ b.at[n + 1] = x
<1> DEFINE f == [j \in 1..(n + 1) |-> IF j = n + 1 THEN x ELSE a.at[j]]
           c == IF a.cap = 0 THEN 1 ELSE 2 * a.cap
<1>1. /\ a.cap \in Nat /\ Len(a.at) \in Nat
      /\ \A j \in 1..Len(a.at) : a.at[j] \in T
  BY ArrayParts
<1>2. f \in [1..(n + 1) -> T] /\ c \in Nat
  BY <1>1
<1>3. f \in Seq(T) /\ Len(f) = n + 1
  <2> HIDE DEF f
  <2> QED BY <1>2, FunctionIsSeq
<1>4. Moved(a, n, x) = [cap |-> c, at |-> f]
  BY DEF Moved
<1>5. (\A j \in 1..n : f[j] = a.at[j]) /\ f[n + 1] = x
  BY <1>1
<1> HIDE DEF f, c
<1>6. [cap |-> c, at |-> f] \in Array(T)
  BY <1>2, <1>3 DEF Array
<1> QED BY <1>3, <1>4, <1>5, <1>6

\* Moving the elements behind position i of a slice of length n one slot down.
LEMMA ShiftFacts ==
  ASSUME NEW T, NEW a \in Array(T), NEW n \in Nat, NEW i \in 1..n, n <= Len(a.at)
  PROVE  LET b == Shift(a, i, n) IN
         /\ b \in Array(T)
         /\ Len(b.at) = Len(a.at)
         /\ \A j \in 1..Len(a.at) :
              b.at[j] = IF j \in i..(n - 1) THEN a.at[j + 1] ELSE a.at[j]
<1> DEFINE m == Len(a.at)
           f == [j \in 1..m |-> IF j \in i..(n - 1) THEN a.at[j + 1] ELSE a.at[j]]
<1>1. /\ a.cap \in Nat /\ m \in Nat
      /\ \A j \in 1..m : a.at[j] \in T
  BY ArrayParts
<1>2. f \in [1..m -> T]
  <2>1. \A j \in 1..m : j \in i..(n - 1) => j + 1 \in 1..m
    BY <1>1
  <2> QED BY <2>1, <1>1
<1>3. f \in Seq(T) /\ Len(f) = m
  <2> HIDE DEF f, m
  <2> QED BY <1>1, <1>2, FunctionIsSeq
<1>4. Shift(a, i, n) = [cap |-> a.cap, at |-> f]
  BY DEF Shift
<1>5. \A j \in 1..m : f[j] = IF j \in i..(n - 1) THEN a.at[j + 1] ELSE a.at[j]
  OBVIOUS
<1> HIDE DEF f
<1>6. [cap |-> a.cap, at |-> f] \in Array(T)
  BY <1>1, <1>3 DEF Array
<1> QED BY <1>3, <1>4, <1>5, <1>6

----------------------------------------------------------------------------
\* The arrays of a arrays keep their place and never lose written slots; this is
\* what keeps a header copied earlier readable.
Grows(arrays, later) ==
  /\ Len(later) >= Len(arrays)
  /\ \A n \in 1..Len(arrays) : Len(later[n].at) >= Len(arrays[n].at)

LEMMA GrowsKeepsHeaders ==
  ASSUME NEW T, NEW arrays \in Seq(Array(T)), NEW later \in Seq(Array(T)),
         Grows(arrays, later), NEW r, r.len \in Nat, InHeap(arrays, r)
  PROVE  InHeap(later, r)
<1>1. r.arr \in 1..Len(arrays) /\ r.len <= Len(arrays[r.arr].at) /\ Len(arrays) \in Nat /\ Len(later) \in Nat
  BY LenProperties DEF InHeap
<1>2. r.arr \in 1..Len(later) /\ Len(later[r.arr].at) >= Len(arrays[r.arr].at)
  BY <1>1 DEF Grows
<1>3. Len(later[r.arr].at) \in Nat /\ Len(arrays[r.arr].at) \in Nat
  BY <1>1, <1>2, ElementOfSeq, ArrayParts
<1> QED BY <1>1, <1>2, <1>3 DEF InHeap

\* append (peer.go:147, control.go:131, proxy.go:213) shows the old elements in
\* their old places and the new one behind them, in the same array or in a new
\* one; no slot that another header could show changes, except the one behind
\* the end of the slice.
LEMMA AppendFacts ==
  ASSUME NEW T, NEW arrays \in Seq(Array(T)), NEW h \in Header, NEW x \in T, InHeap(arrays, h)
  PROVE  LET later == AppendHeap(arrays, h, x)
             g == AppendHeader(arrays, h)
         IN /\ later \in Seq(Array(T))
            /\ Grows(arrays, later)
            /\ g \in Header /\ InHeap(later, g) /\ g.len = h.len + 1
            /\ \A j \in 1..h.len : later[g.arr].at[j] = arrays[h.arr].at[j]
            /\ later[g.arr].at[h.len + 1] = x
            /\ \A n \in 1..Len(arrays) : \A j \in 1..Len(arrays[n].at) :
                 n # h.arr \/ j # h.len + 1 => later[n].at[j] = arrays[n].at[j]
<1> DEFINE a == arrays[h.arr]
<1>1. /\ Len(arrays) \in Nat /\ h.arr \in 1..Len(arrays) /\ h.arr \in Nat
      /\ h.len \in Nat /\ h.len <= Len(a.at)
  BY LenProperties DEF InHeap, Header
<1>2. a \in Array(T) /\ \A n \in 1..Len(arrays) : arrays[n] \in Array(T) /\ Len(arrays[n].at) \in Nat
  BY <1>1, ElementOfSeq, ArrayParts
<1>3. CASE HasRoom(arrays, h)
  <2> DEFINE b == Store(a, h.len, x)
  <2>1. /\ b \in Array(T)
        /\ Len(b.at) >= h.len + 1 /\ Len(b.at) >= Len(a.at)
        /\ \A j \in 1..Len(a.at) : j # h.len + 1 => b.at[j] = a.at[j]
        /\ b.at[h.len + 1] = x
    <3> HIDE DEF a
    <3> QED BY <1>1, <1>2, StoreFacts
  <2>2. /\ AppendHeap(arrays, h, x) = [arrays EXCEPT ![h.arr] = b]
        /\ AppendHeader(arrays, h) = [arr |-> h.arr, len |-> h.len + 1]
    BY <1>3 DEF AppendHeap, AppendHeader
  <2> HIDE DEF b
  <2>3. /\ [arrays EXCEPT ![h.arr] = b] \in Seq(Array(T))
        /\ Len([arrays EXCEPT ![h.arr] = b]) = Len(arrays)
        /\ \A n \in 1..Len(arrays) : [arrays EXCEPT ![h.arr] = b][n] = IF n = h.arr THEN b ELSE arrays[n]
    BY <1>1, <2>1, ExceptSeq
  <2> QED BY <1>1, <1>2, <2>1, <2>2, <2>3 DEF Grows, InHeap, Header
<1>4. CASE ~HasRoom(arrays, h)
  <2> DEFINE b == Moved(a, h.len, x)
  <2>1. /\ b \in Array(T)
        /\ Len(b.at) = h.len + 1
        /\ \A j \in 1..h.len : b.at[j] = a.at[j]
        /\ b.at[h.len + 1] = x
    <3>1. a \in Array(T) /\ h.len \in Nat /\ h.len <= Len(a.at)
      BY <1>1, <1>2
    <3> HIDE DEF a
    <3> QED BY <3>1, MovedFacts
  <2>2. /\ AppendHeap(arrays, h, x) = Append(arrays, b)
        /\ AppendHeader(arrays, h) = [arr |-> Len(arrays) + 1, len |-> h.len + 1]
    BY <1>4 DEF AppendHeap, AppendHeader
  <2> HIDE DEF b
  <2>3. /\ Append(arrays, b) \in Seq(Array(T))
        /\ Len(Append(arrays, b)) = Len(arrays) + 1
        /\ \A n \in 1..Len(arrays) : Append(arrays, b)[n] = arrays[n]
        /\ Append(arrays, b)[Len(arrays) + 1] = b
    BY <2>1, AppendProperties
  <2> QED BY <1>1, <1>2, <2>1, <2>2, <2>3 DEF Grows, InHeap, Header
<1> QED BY <1>3, <1>4

\* append adds one element, once.
LEMMA AppendElements ==
  ASSUME NEW T, NEW arrays \in Seq(Array(T)), NEW h \in Header, NEW x \in T, InHeap(arrays, h)
  PROVE  LET later == AppendHeap(arrays, h, x)
             g == AppendHeader(arrays, h)
         IN /\ Elements(later, g) = Elements(arrays, h) \cup {x}
            /\ Distinct(arrays, h) /\ x \notin Elements(arrays, h) => Distinct(later, g)
<1> DEFINE later == AppendHeap(arrays, h, x)
           g == AppendHeader(arrays, h)
<1>1. /\ h.len \in Nat /\ g.len = h.len + 1
      /\ \A j \in 1..h.len : later[g.arr].at[j] = arrays[h.arr].at[j]
      /\ later[g.arr].at[h.len + 1] = x
  <2>1. h.len \in Nat
    BY DEF Header
  <2>2. g.len = h.len + 1
    BY AppendFacts
  <2>3. \A j \in 1..h.len : later[g.arr].at[j] = arrays[h.arr].at[j]
    BY AppendFacts
  <2>4. later[g.arr].at[h.len + 1] = x
    BY AppendFacts
  <2> QED BY <2>1, <2>2, <2>3, <2>4
<1> HIDE DEF later, g
<1>2. \A j : j \in 1..g.len <=> j \in 1..h.len \/ j = h.len + 1
  BY <1>1
<1>3. Elements(later, g) = Elements(arrays, h) \cup {x}
  BY <1>1, <1>2 DEF Elements
<1>4. ASSUME Distinct(arrays, h), x \notin Elements(arrays, h) PROVE Distinct(later, g)
  <2>1. \A j \in 1..h.len : later[g.arr].at[j] # x
    BY <1>1, <1>4 DEF Elements
  <2> QED BY <1>1, <1>2, <1>4, <2>1 DEF Distinct
<1> QED BY <1>3, <1>4 DEF later, g

\* Removal of position i (peer.go:173, control.go:157, proxy.go:231) keeps every
\* array in place and readable.
LEMMA RemoveFacts ==
  ASSUME NEW T, NEW arrays \in Seq(Array(T)), NEW h \in Header, InHeap(arrays, h), NEW i \in 1..h.len
  PROVE  LET later == RemoveHeap(arrays, h, i)
             g == RemoveHeader(h)
         IN /\ later \in Seq(Array(T))
            /\ Grows(arrays, later)
            /\ g \in Header /\ InHeap(later, g) /\ g.arr = h.arr /\ g.len = h.len - 1
            /\ \A j \in 1..(h.len - 1) :
                 later[h.arr].at[j] = IF j < i THEN arrays[h.arr].at[j] ELSE arrays[h.arr].at[j + 1]
<1> DEFINE a == arrays[h.arr]
           b == Shift(a, i, h.len)
<1>1. /\ Len(arrays) \in Nat /\ h.arr \in 1..Len(arrays) /\ h.arr \in Nat
      /\ h.len \in Nat /\ h.len <= Len(a.at)
  BY LenProperties DEF InHeap, Header
<1>2. a \in Array(T) /\ \A n \in 1..Len(arrays) : arrays[n] \in Array(T) /\ Len(arrays[n].at) \in Nat
  BY <1>1, ElementOfSeq, ArrayParts
<1>3. /\ b \in Array(T)
      /\ Len(b.at) = Len(a.at)
      /\ \A j \in 1..Len(a.at) :
           b.at[j] = IF j \in i..(h.len - 1) THEN a.at[j + 1] ELSE a.at[j]
  <2> HIDE DEF a
  <2> QED BY <1>1, <1>2, ShiftFacts
<1>4. /\ RemoveHeap(arrays, h, i) = [arrays EXCEPT ![h.arr] = b]
      /\ RemoveHeader(h) = [arr |-> h.arr, len |-> h.len - 1]
  BY DEF RemoveHeap, RemoveHeader
<1> HIDE DEF b
<1>5. /\ [arrays EXCEPT ![h.arr] = b] \in Seq(Array(T))
      /\ Len([arrays EXCEPT ![h.arr] = b]) = Len(arrays)
      /\ \A n \in 1..Len(arrays) : [arrays EXCEPT ![h.arr] = b][n] = IF n = h.arr THEN b ELSE arrays[n]
  BY <1>1, <1>3, ExceptSeq
<1>6. \A j \in 1..(h.len - 1) : b.at[j] = IF j < i THEN a.at[j] ELSE a.at[j + 1]
  <2>1. \A j \in 1..(h.len - 1) : j \in 1..Len(a.at) /\ (j \in i..(h.len - 1) <=> ~(j < i))
    BY <1>1, <1>2
  <2> HIDE DEF a
  <2> QED BY <1>3, <2>1
<1> QED BY <1>1, <1>2, <1>3, <1>4, <1>5, <1>6 DEF Grows, InHeap, Header

\* Removal of a position takes out exactly the element it shows.
LEMMA RemoveElements ==
  ASSUME NEW T, NEW arrays \in Seq(Array(T)), NEW h \in Header, InHeap(arrays, h), NEW i \in 1..h.len,
         Distinct(arrays, h)
  PROVE  LET later == RemoveHeap(arrays, h, i)
             g == RemoveHeader(h)
         IN /\ Elements(later, g) = Elements(arrays, h) \ {arrays[h.arr].at[i]}
            /\ Distinct(later, g)
<1> DEFINE later == RemoveHeap(arrays, h, i)
           g == RemoveHeader(h)
           e == arrays[h.arr].at
<1>1. /\ h.len \in Nat /\ g.len = h.len - 1 /\ g.arr = h.arr
      /\ \A j \in 1..(h.len - 1) : later[g.arr].at[j] = IF j < i THEN e[j] ELSE e[j + 1]
  <2>1. h.len \in Nat /\ g = [arr |-> h.arr, len |-> h.len - 1]
    BY DEF Header, RemoveHeader
  <2>2. \A j \in 1..(h.len - 1) : later[h.arr].at[j] = IF j < i THEN e[j] ELSE e[j + 1]
    BY RemoveFacts
  <2> QED BY <2>1, <2>2
<1>2. \A j, k \in 1..h.len : e[j] = e[k] => j = k
  BY DEF Distinct
<1> HIDE DEF later, g
<1>3. Distinct(later, g)
  <2>1. ASSUME NEW j \in 1..g.len, NEW k \in 1..g.len, later[g.arr].at[j] = later[g.arr].at[k]
        PROVE  j = k
    <3>1. PICK m \in 1..h.len : m = (IF j < i THEN j ELSE j + 1) /\ later[g.arr].at[j] = e[m]
      BY <1>1
    <3>2. PICK n \in 1..h.len : n = (IF k < i THEN k ELSE k + 1) /\ later[g.arr].at[k] = e[n]
      BY <1>1
    <3>3. m = n
      BY <2>1, <3>1, <3>2, <1>2
    <3> QED BY <3>1, <3>2, <3>3, <1>1
  <2> QED BY <2>1 DEF Distinct
<1>4. ASSUME NEW v \in Elements(later, g) PROVE v \in Elements(arrays, h) \ {e[i]}
  <2>1. PICK j \in 1..g.len : v = later[g.arr].at[j]
    BY <1>4 DEF Elements
  <2>2. PICK m \in 1..h.len : m # i /\ v = e[m]
    BY <1>1, <2>1
  <2> QED BY <2>2, <1>2 DEF Elements
<1>5. ASSUME NEW v \in Elements(arrays, h) \ {e[i]} PROVE v \in Elements(later, g)
  <2>1. PICK m \in 1..h.len : v = e[m] /\ m # i
    BY <1>5 DEF Elements
  <2>2. PICK j \in 1..g.len : m = (IF j < i THEN j ELSE j + 1)
    <3>1. CASE m < i
      BY <3>1, <1>1, <2>1
    <3>2. CASE m > i
      <4>1. m - 1 \in 1..g.len /\ ~(m - 1 < i) /\ m = (m - 1) + 1
        BY <3>2, <1>1
      <4> QED BY <4>1
    <3> QED BY <2>1, <3>1, <3>2
  <2>3. later[g.arr].at[j] = v
    BY <1>1, <2>1, <2>2
  <2> QED BY <2>3 DEF Elements
<1> QED BY <1>3, <1>4, <1>5 DEF later, g

----------------------------------------------------------------------------
(* Connections, loops and goroutines.                                      *)

\* Every connection is in the list of its kind and in no other.
LEMMA Kinds ==
  /\ \A c \in Conn : Kind(c) \in Lists /\ c \in Members(Kind(c))
  /\ \A k \in Lists : Members(k) \subseteq Conn /\ \A c \in Members(k) : Kind(c) = k
  /\ Nil \notin Conn
BY KindsDisjoint DEF Kind, Members, Lists, Conn

\* A goroutine is identified by its connection and its role.
LEMMA GoroutineParts ==
  /\ \A c \in Conn : <<c, "serve">> \in Goroutines /\ Pump(c) \in Goroutines
  /\ \A g \in Goroutines : g[1] \in Conn /\ g = <<g[1], g[2]>> /\ g[2] \in {"serve", "read"}
  /\ \A c, d \in Conn : <<c, "serve">> # Pump(d)
  /\ \A g \in Goroutines : g[2] = "read" => g = Pump(g[1])
BY DEF Goroutines, Pump

\* A loop starts with a readable copy of its list's header (every "for range").
LEMMA RangeOverOK ==
  ASSUME ListTypes, NEW k \in Lists
  PROVE  /\ RangeOver(k) \in LoopState
         /\ InHeap(heap[k], RangeOver(k))
         /\ RangeOver(k).arr = list[k].arr /\ RangeOver(k).len = list[k].len
         /\ RangeOver(k).i = 0 /\ RangeOver(k).cur = Nil
<1>1. list[k] \in Header /\ InHeap(heap[k], list[k])
  BY DEF ListTypes
<1> QED BY <1>1 DEF RangeOver, LoopState, Header, InHeap

\* Every round of a loop loads a connection of the list's kind, or nothing.
LEMMA NextRoundOK ==
  ASSUME ListTypes, NEW k \in Lists, NEW r \in LoopState, InHeap(heap[k], r)
  PROVE  /\ NextRound(k, r) \in LoopState
         /\ InHeap(heap[k], NextRound(k, r))
         /\ NextRound(k, r).cur \in Members(k) \cup {Nil}
<1>1. heap[k] \in Seq(Array(Members(k)))
  BY DEF ListTypes
<1>2. r.arr \in 1..Len(heap[k]) /\ r.len <= Len(heap[k][r.arr].at) /\ r.i \in Nat /\ r.len \in Nat
      /\ r.arr \in Nat /\ r.cur \in Conn \cup {Nil}
  BY DEF InHeap, LoopState
<1>3. /\ Len(heap[k][r.arr].at) \in Nat
      /\ \A j \in 1..Len(heap[k][r.arr].at) : heap[k][r.arr].at[j] \in Members(k)
  BY <1>1, <1>2, ElementOfSeq, ArrayParts
<1> DEFINE e == IF r.i < r.len THEN heap[k][r.arr].at[r.i + 1] ELSE Nil
<1>4. e \in Members(k) \cup {Nil}
  <2>1. r.i < r.len => r.i + 1 \in 1..Len(heap[k][r.arr].at)
    <3> DEFINE n == Len(heap[k][r.arr].at)
    <3>1. n \in Nat /\ r.len <= n /\ r.i \in Nat /\ r.len \in Nat
      BY <1>2, <1>3
    <3> HIDE DEF n
    <3>2. r.i < r.len => r.i + 1 \in 1..n
      BY <3>1
    <3> QED BY <3>2 DEF n
  <2>2. CASE r.i < r.len
    BY <2>1, <2>2, <1>3
  <2>3. CASE ~(r.i < r.len)
    BY <2>3
  <2> QED BY <2>2, <2>3
<1>5. NextRound(k, r) = [arr |-> r.arr, len |-> r.len, i |-> r.i + 1, cur |-> e]
  <2>1. NextRound(k, r) = [r EXCEPT !.i = r.i + 1, !.cur = e]
    BY DEF NextRound
  <2> HIDE DEF e
  <2>2. r = [arr |-> r.arr, len |-> r.len, i |-> r.i, cur |-> r.cur]
    BY DEF LoopState
  <2> QED BY <2>1, <2>2
<1>6. e \in Conn \cup {Nil}
  BY <1>4, Kinds
<1> HIDE DEF e
<1> QED BY <1>2, <1>4, <1>5, <1>6 DEF LoopState, InHeap

LEMMA IdleOK == Idle \in LoopState /\ Idle.cur = Nil
BY DEF Idle, LoopState

----------------------------------------------------------------------------
(* Steps that leave the lists as they are.                                 *)

\* One goroutine that moves on to a sound round leaves every goroutine sound.
LEMMA GotoOK ==
  ASSUME ListInv, UNCHANGED lists,
         NEW g \in Goroutines, NEW label \in Labels, NEW r \in LoopState,
         Goto(g, label, r), RoundOK(g, label, r), PendingOK(g, label, r),
         label \in {"new", "append"} => pc[g] = "new",
         \A c \in Conn : Pump(c) # g => frame'[c] = frame[c],
         \A c \in Conn : Pump(c) = g => FrameOK(c, label, frame'[c])
  PROVE  MoveInv'
<1>1. MoveInv /\ list' = list /\ heap' = heap /\ joined' = joined /\ race' = race
  BY DEF ListInv, lists
<1>2. /\ GoroutineTypes'
      /\ pc'[g] = label /\ it'[g] = r
      /\ \A o \in Goroutines \ {g} : pc'[o] = pc[o] /\ it'[o] = it[o]
  BY <1>1 DEF Goto, MoveInv, GoroutineTypes
<1>3. RoundsOK'
  <2>1. ASSUME NEW o \in Goroutines PROVE RoundOK(o, pc[o], it[o])'
    BY <1>1, <1>2 DEF MoveInv, RoundsOK, RoundOK
  <2> QED BY <2>1 DEF RoundsOK
<1>4. AllPending'
  <2>1. ASSUME NEW o \in Goroutines PROVE PendingOK(o, pc[o], it[o])'
    <3>1. PendingOK(o, pc'[o], it'[o])
      <4>1. CASE o = g
        BY <4>1, <1>2
      <4>2. CASE o # g
        BY <4>2, <1>1, <1>2 DEF MoveInv, AllPending
      <4> QED BY <4>1, <4>2
    <3> QED BY <3>1, <1>1 DEF PendingOK, Shown
  <2> QED BY <2>1 DEF AllPending
<1>5. FramesOK'
  <2>1. ASSUME NEW c \in Conn PROVE FrameOK(c, pc'[Pump(c)], frame'[c])
    BY <1>1, <1>2, GoroutineParts DEF MoveInv, FramesOK
  <2> QED BY <2>1 DEF FramesOK, FrameOK
<1>6. Fresh'
  <2>1. ASSUME NEW c \in Conn, pc'[<<c, "serve">>] \in {"new", "append"} PROVE c \notin joined
    BY <2>1, <1>1, <1>2, GoroutineParts DEF MoveInv, Fresh
  <2> QED BY <2>1, <1>1 DEF Fresh
<1> QED BY <1>2, <1>3, <1>4, <1>5, <1>6 DEF MoveInv

\* A step that moves no goroutine.
LEMMA StayOK ==
  ASSUME ListInv, UNCHANGED <<lists, pc, it, frame>>
  PROVE  MoveInv'
<1>1. /\ list' = list /\ heap' = heap /\ joined' = joined /\ race' = race
      /\ pc' = pc /\ it' = it /\ frame' = frame
      /\ GoroutineTypes /\ RoundsOK /\ FramesOK /\ Fresh /\ AllPending
  BY DEF ListInv, MoveInv, lists
<1>2. GoroutineTypes' /\ FramesOK' /\ Fresh'
  BY <1>1 DEF GoroutineTypes, FramesOK, FrameOK, Fresh
<1>3. ASSUME NEW o \in Goroutines PROVE RoundOK(o, pc[o], it[o])' /\ PendingOK(o, pc[o], it[o])'
  <2>1. RoundOK(o, pc'[o], it'[o]) /\ PendingOK(o, pc'[o], it'[o])
    BY <1>1 DEF RoundsOK, AllPending
  <2>2. RoundOK(o, pc[o], it[o])'
    BY <1>1, <2>1 DEF RoundOK
  <2>3. PendingOK(o, pc[o], it[o])'
    BY <1>1, <2>1 DEF PendingOK, Shown
  <2> QED BY <2>2, <2>3
<1> QED BY <1>2, <1>3 DEF MoveInv, RoundsOK, AllPending

\* The lists keep what they hold.
LEMMA ListsStay ==
  ASSUME ListInv, UNCHANGED lists
  PROVE  ListTypes' /\ ListsExact'
<1>1. list' = list /\ heap' = heap /\ joined' = joined /\ race' = race /\ ListTypes /\ ListsExact
  BY DEF ListInv, StoreInv, lists
<1>2. ListTypes'
  BY <1>1 DEF ListTypes
<1>3. ASSUME DistinctIds, NEW k \in Lists \ race'
      PROVE  /\ Distinct(heap'[k], list'[k])
             /\ Elements(heap'[k], list'[k]) = joined' \cap Members(k)
  BY <1>1, <1>3 DEF ListsExact
<1> QED BY <1>2, <1>3 DEF ListsExact, DistinctIds

LEMMA StoreStays ==
  ASSUME ListInv, UNCHANGED lists, crashed' # "bounds" \/ crashed' = crashed
  PROVE  StoreInv'
<1>1. BoundsPanicNeedsRace'
  BY DEF ListInv, StoreInv, lists, BoundsPanicNeedsRace
<1> QED BY <1>1, ListsStay DEF StoreInv

\* So does the channel.
LEMMA QueueStays ==
  ASSUME ListInv, UNCHANGED <<lists, channel>>
  PROVE  QueueInv'
BY DEF ListInv, QueueInv, lists, channel, ChannelTypes, DispatchOK, DispatchList

\* A step that only moves goroutines.
LEMMA OnlyMoves ==
  ASSUME ListInv, MoveInv', UNCHANGED <<lists, sockets, proxyState, channel, input, crashed>>
  PROVE  ListInv'
<1>1. StoreInv' /\ QueueInv'
  BY StoreStays, QueueStays
<1>2. InputTypes' /\ SocketTypes' /\ ProxyTypes'
  BY DEF ListInv, InputTypes, SocketTypes, ProxyTypes, sockets, proxyState, input
<1> QED BY <1>1, <1>2 DEF ListInv

\* A step that ends the process (log.Fatalf, a panic nobody recovers).
LEMMA CrashOK ==
  ASSUME ListInv, NEW why \in {"nilws", "malformed"}, Crash(why)
  PROVE  ListInv'
<1>1. MoveInv'
  BY StayOK DEF Crash, input
<1>2. StoreInv' /\ QueueInv'
  BY StoreStays, QueueStays DEF Crash
<1>3. InputTypes' /\ SocketTypes' /\ ProxyTypes'
  BY DEF Crash, ListInv, InputTypes, SocketTypes, ProxyTypes, sockets, proxyState, input
<1> QED BY <1>1, <1>2, <1>3 DEF ListInv

\* A goroutine that enters a loop.
LEMMA EnterLoopOK ==
  ASSUME ListInv, UNCHANGED lists,
         NEW g \in Goroutines, NEW label \in Labels, LoopListAt(label) \in Lists,
         Goto(g, label, RangeOver(LoopListAt(label))),
         \A c \in Conn : Pump(c) # g => frame'[c] = frame[c],
         \A c \in Conn : Pump(c) = g => FrameOK(c, label, frame'[c])
  PROVE  MoveInv'
<1> DEFINE r == RangeOver(LoopListAt(label))
<1>1. r \in LoopState /\ InHeap(heap[LoopListAt(label)], r) /\ r.cur = Nil
  BY RangeOverOK DEF ListInv, StoreInv
<1>2. label \notin {"new", "append", "scan", "cut", "cutw", "closeControl"}
  BY DEF LoopListAt, Lists
<1> HIDE DEF r
<1>3. RoundOK(g, label, r) /\ PendingOK(g, label, r)
  BY <1>1, <1>2 DEF RoundOK, PendingOK, UpdateListAt
<1> QED BY <1>1, <1>2, <1>3, GotoOK DEF r

\* A goroutine that goes on to the next round of its loop.
LEMMA NextRoundGotoOK ==
  ASSUME ListInv, UNCHANGED <<lists, frame>>,
         NEW g \in Goroutines, NEW label \in Labels, LoopListAt(label) \in Lists, pc[g] = label,
         Goto(g, label, NextRound(LoopList(g), it[g]))
  PROVE  MoveInv'
<1> DEFINE r == NextRound(LoopList(g), it[g])
<1>1. LoopList(g) = LoopListAt(label) /\ it[g] \in LoopState /\ InHeap(heap[LoopList(g)], it[g])
  <2>1. RoundOK(g, pc[g], it[g]) /\ it[g] \in LoopState
    BY DEF ListInv, MoveInv, RoundsOK, GoroutineTypes
  <2>2. LoopListAt(label) # "none"
    BY DEF Lists
  <2> QED BY <2>1, <2>2 DEF RoundOK, LoopList
<1>2. /\ r \in LoopState /\ InHeap(heap[LoopListAt(label)], r)
      /\ r.cur \in Members(LoopListAt(label)) \cup {Nil}
  BY <1>1, NextRoundOK DEF ListInv, StoreInv
<1>3. label \notin {"new", "append", "scan", "cut", "cutw", "closeControl"}
  BY DEF LoopListAt, Lists
<1> HIDE DEF r
<1>4. RoundOK(g, label, r) /\ PendingOK(g, label, r)
  BY <1>2, <1>3 DEF RoundOK, PendingOK, UpdateListAt
<1>5. \A c \in Conn : Pump(c) = g => FrameOK(c, label, frame[c])
  BY DEF ListInv, MoveInv, FramesOK
<1> QED BY <1>2, <1>3, <1>4, <1>5, GotoOK DEF r

\* A goroutine that comes to a point where it relies on nothing, not even on
\* its frame.
LEMMA ReleaseOK ==
  ASSUME ListInv, UNCHANGED lists,
         NEW g \in Goroutines, NEW label \in {"read", "close", "done", "dead"}, Goto(g, label, Idle),
         \A c \in Conn : Pump(c) # g => frame'[c] = frame[c]
  PROVE  MoveInv'
<1>1. RoundOK(g, label, Idle) /\ PendingOK(g, label, Idle) /\ label \in Labels
  BY DEF RoundOK, PendingOK, UpdateListAt, LoopListAt, Labels
<1>2. \A c \in Conn : FrameOK(c, label, frame'[c])
  BY DEF FrameOK
<1> QED BY <1>1, <1>2, IdleOK, GotoOK

LEMMA RestOK ==
  ASSUME ListInv, UNCHANGED <<lists, frame>>,
         NEW g \in Goroutines, NEW label \in {"read", "close", "done", "dead"}, Goto(g, label, Idle)
  PROVE  MoveInv'
BY ReleaseOK

\* addConnection ends and the read pump starts.
LEMMA StartPumpsOK ==
  ASSUME ListInv, UNCHANGED <<lists, frame>>, NEW c \in Conn, StartPumps(c)
  PROVE  MoveInv'
<1> DEFINE s == <<c, "serve">>
<1>1. MoveInv /\ list' = list /\ heap' = heap /\ joined' = joined /\ race' = race /\ frame' = frame
  BY DEF ListInv, lists
<1>2. s \in Goroutines /\ Pump(c) \in Goroutines /\ s # Pump(c)
  BY GoroutineParts
<1>3. /\ GoroutineTypes'
      /\ pc'[s] = "done" /\ it'[s] = Idle /\ pc'[Pump(c)] = "read" /\ it'[Pump(c)] = it[Pump(c)]
      /\ \A o \in Goroutines \ {s, Pump(c)} : pc'[o] = pc[o] /\ it'[o] = it[o]
  <2> HIDE DEF s
  <2>1. pc' = [pc EXCEPT ![s] = "done", ![Pump(c)] = "read"] /\ it' = [it EXCEPT ![s] = Idle]
    BY DEF StartPumps, Pump, s
  <2> QED BY <2>1, <1>1, <1>2, IdleOK DEF MoveInv, GoroutineTypes, Labels
<1> HIDE DEF s
<1>4. ASSUME NEW o \in Goroutines
      PROVE  pc'[o] \in {"done", "read"} \/ (pc'[o] = pc[o] /\ it'[o] = it[o])
  BY <1>3
<1>5. RoundsOK'
  <2>1. ASSUME NEW o \in Goroutines PROVE RoundOK(o, pc[o], it[o])'
    BY <1>1, <1>4 DEF MoveInv, RoundsOK, RoundOK, LoopListAt, UpdateListAt
  <2> QED BY <2>1 DEF RoundsOK
<1>6. AllPending'
  <2>1. ASSUME NEW o \in Goroutines PROVE PendingOK(o, pc[o], it[o])'
    <3>1. CASE pc'[o] \in {"done", "read"}
      BY <3>1 DEF PendingOK, UpdateListAt
    <3>2. CASE pc'[o] = pc[o] /\ it'[o] = it[o]
      <4>1. PendingOK(o, pc'[o], it'[o])
        BY <3>2, <1>1 DEF MoveInv, AllPending
      <4> QED BY <4>1, <1>1 DEF PendingOK, Shown
    <3> QED BY <3>1, <3>2, <1>4
  <2> QED BY <2>1 DEF AllPending
<1>7. FramesOK'
  <2>1. ASSUME NEW d \in Conn PROVE FrameOK(d, pc'[Pump(d)], frame'[d])
    BY <1>1, <1>4, GoroutineParts DEF MoveInv, FramesOK, FrameOK
  <2> QED BY <2>1 DEF FramesOK, FrameOK
<1>8. Fresh'
  <2>1. ASSUME NEW d \in Conn, pc'[<<d, "serve">>] \in {"new", "append"} PROVE d \notin joined
    BY <2>1, <1>1, <1>4, GoroutineParts DEF MoveInv, Fresh
  <2> QED BY <2>1, <1>1 DEF Fresh
<1> QED BY <1>3, <1>5, <1>6, <1>7, <1>8 DEF MoveInv

\* An announcement writes ids to watchers.
LEMMA TellOK ==
  ASSUME SocketTypes, NEW targets, NEW event, NEW id, targets # {} => id \in Ids,
         Tell(targets, event, id), UNCHANGED <<ws, inbox, direct>>
  PROVE  SocketTypes'
BY DEF SocketTypes, Tell

\* One round of a loop of announcements, whatever its exit leads to.
LEMMA AnnounceRoundOK ==
  ASSUME ListInv, NEW g \in Goroutines, NEW event, NEW id, Touches(g) # {} => id \in Ids,
         Tell(Touches(g), event, id), MoveInv',
         UNCHANGED <<lists, ws, inbox, direct, proxyState, channel, input, crashed>>
  PROVE  ListInv'
<1>1. StoreInv' /\ QueueInv'
  BY StoreStays, QueueStays
<1>2. SocketTypes'
  BY TellOK DEF ListInv
<1>3. InputTypes' /\ ProxyTypes'
  BY DEF ListInv, InputTypes, ProxyTypes, proxyState, input
<1> QED BY <1>1, <1>2, <1>3 DEF ListInv

\* A loop whose goroutine needs no frame.
LEMMA EnterPlainLoopOK ==
  ASSUME ListInv, UNCHANGED <<lists, frame>>, NEW g \in Goroutines, NEW k,
         NEW label \in {"toControls", "toProxies", "ownPeers", "proxyPeers", "toProxy", "findControl"},
         k = LoopListAt(label), Goto(g, label, RangeOver(k))
  PROVE  MoveInv'
<1>1. label \in Labels /\ LoopListAt(label) \in Lists
  BY DEF Labels, LoopListAt, Lists
<1>2. \A c \in Conn : FrameOK(c, label, frame[c])
  BY DEF FrameOK
<1> QED BY <1>1, <1>2, EnterLoopOK

\* The id of a connection is an id.
LEMMA IdsOK == \A c \in Conn : Id[c] \in Ids
BY DEF Ids

----------------------------------------------------------------------------
(* One lemma per action: addConnection.                                    *)

LEMMA AcceptOK ==
  ASSUME ListInv, NEW c \in Conn, Accept(c)
  PROVE  ListInv'
<1> DEFINE g == <<c, "serve">>
           r == RangeOver(Kind(c))
<1>1. /\ g \in Goroutines /\ g[1] = c /\ pc[g] = "new" /\ Goto(g, "append", r)
      /\ UNCHANGED <<lists, view, inbox, direct, proxyState, channel, input, crashed>>
      /\ ws' = [ws EXCEPT ![c] = IF c \in BadUpgrade THEN "nil" ELSE "open"]
  BY GoroutineParts DEF Accept, At
<1>2. Kind(c) \in Lists /\ r \in LoopState /\ InHeap(heap[Kind(c)], r)
      /\ r.arr = list[Kind(c)].arr /\ r.len = list[Kind(c)].len
  BY RangeOverOK, Kinds DEF ListInv, StoreInv
<1>3. MoveInv'
  <2> HIDE DEF g, r
  <2>1. RoundOK(g, "append", r) /\ PendingOK(g, "append", r)
    BY <1>1, <1>2 DEF RoundOK, PendingOK, UpdateListAt, LoopListAt
  <2>2. \A d \in Conn : FrameOK(d, "append", frame'[d]) /\ frame'[d] = frame[d]
    BY <1>1 DEF FrameOK, input
  <2> QED BY <1>1, <1>2, <2>1, <2>2, GotoOK DEF Labels
<1>4. StoreInv' /\ QueueInv'
  BY <1>1, StoreStays, QueueStays
<1>5. InputTypes' /\ SocketTypes' /\ ProxyTypes'
  BY <1>1 DEF ListInv, InputTypes, SocketTypes, ProxyTypes, proxyState, input
<1> QED BY <1>3, <1>4, <1>5 DEF ListInv

LEMMA PeerToControlsOK ==
  ASSUME ListInv, NEW g \in Goroutines, PeerToControls(g)
  PROVE  ListInv'
<1>1. /\ pc[g] = "toControls"
      /\ Tell(Touches(g), Event(g), Id[g[1]])
      /\ IF Last(it[g]) THEN Goto(g, "toProxies", RangeOver("proxies"))
                        ELSE Goto(g, "toControls", NextRound(LoopList(g), it[g]))
      /\ UNCHANGED <<lists, ws, inbox, direct, proxyState, channel, input, crashed>>
      /\ UNCHANGED <<lists, frame>>
  BY DEF PeerToControls, AnnounceRound, At, input
<1>2. MoveInv'
  BY <1>1, EnterPlainLoopOK, NextRoundGotoOK DEF LoopListAt, Lists, Labels
<1>3. Id[g[1]] \in Ids
  BY IdsOK, GoroutineParts
<1> QED BY <1>1, <1>2, <1>3, AnnounceRoundOK

LEMMA PeerToProxiesOK ==
  ASSUME ListInv, NEW g \in Goroutines, PeerToProxies(g)
  PROVE  ListInv'
<1>1. /\ pc[g] = "toProxies"
      /\ Tell(Touches(g), Event(g), Id[g[1]])
      /\ IF Last(it[g]) THEN IF g[2] = "serve" THEN StartPumps(g[1]) ELSE Goto(g, "close", Idle)
                        ELSE Goto(g, "toProxies", NextRound(LoopList(g), it[g]))
      /\ UNCHANGED <<lists, ws, inbox, direct, proxyState, channel, input, crashed>>
      /\ UNCHANGED <<lists, frame>>
  BY DEF PeerToProxies, AnnounceRound, At, input
<1>2. MoveInv'
  BY <1>1, StartPumpsOK, RestOK, NextRoundGotoOK, GoroutineParts DEF LoopListAt, Lists, Labels
<1>3. Id[g[1]] \in Ids
  BY IdsOK, GoroutineParts
<1> QED BY <1>1, <1>2, <1>3, AnnounceRoundOK

\* The element at hand has an id.
LEMMA TouchedIdOK ==
  ASSUME ListInv, NEW g \in Goroutines, Touches(g) # {}
  PROVE  Id[it[g].cur] \in Ids
<1>1. it[g].cur # Nil
  BY DEF Touches
<1>2. it[g].cur \in Conn
  BY <1>1 DEF ListInv, MoveInv, GoroutineTypes, LoopState
<1> QED BY <1>2, IdsOK

LEMMA ControlOwnPeersOK ==
  ASSUME ListInv, NEW c \in Controls, ControlOwnPeers(c)
  PROVE  ListInv'
<1> DEFINE g == <<c, "serve">>
<1>1. /\ pc[g] = "ownPeers"
      /\ Tell(Touches(g), "connect", Id[it[g].cur])
      /\ IF Last(it[g]) THEN Goto(g, "proxyPeers", RangeOver("proxies"))
                        ELSE Goto(g, "ownPeers", NextRound(LoopList(g), it[g]))
      /\ UNCHANGED <<lists, ws, inbox, direct, proxyState, channel, input, crashed>>
      /\ UNCHANGED <<lists, frame>>
  BY DEF ControlOwnPeers, AnnounceRound, At, input
<1>2. g \in Goroutines
  BY GoroutineParts DEF Conn
<1> HIDE DEF g
<1>3. MoveInv'
  BY <1>1, <1>2, EnterPlainLoopOK, NextRoundGotoOK DEF LoopListAt, Lists, Labels
<1> QED BY <1>1, <1>2, <1>3, TouchedIdOK, AnnounceRoundOK

LEMMA ProxyToFarEndOK ==
  ASSUME ListInv, NEW g \in Goroutines, ProxyToFarEnd(g)
  PROVE  ListInv'
<1>1. /\ pc[g] = "toProxy"
      /\ Tell(Touches(g), Event(g), Id[it[g].cur])
      /\ IF Last(it[g]) THEN IF g[2] = "serve" THEN StartPumps(g[1]) ELSE Goto(g, "close", Idle)
                        ELSE Goto(g, "toProxy", NextRound(LoopList(g), it[g]))
      /\ UNCHANGED <<lists, ws, inbox, direct, proxyState, channel, input, crashed>>
      /\ UNCHANGED <<lists, frame>>
  BY DEF ProxyToFarEnd, AnnounceRound, At, input
<1>2. MoveInv'
  BY <1>1, StartPumpsOK, RestOK, NextRoundGotoOK, GoroutineParts DEF LoopListAt, Lists, Labels
<1> QED BY <1>1, <1>2, TouchedIdOK, AnnounceRoundOK

\* The entries of a proxy's map are remote ids.
LEMMA OwnedOK ==
  ASSUME ListInv, NEW x \in Proxies \cup {Nil}
  PROVE  Owned(x) \subseteq RemoteIds
BY DEF ListInv, ProxyTypes, Owned

LEMMA ProxyAtHandOK ==
  ASSUME ListInv, NEW c \in Controls, pc[<<c, "serve">>] = "proxyPeers"
  PROVE  Owned(it[<<c, "serve">>].cur) \subseteq RemoteIds
<1>1. RoundOK(<<c, "serve">>, "proxyPeers", it[<<c, "serve">>])
  BY GoroutineParts DEF ListInv, MoveInv, RoundsOK, Conn
<1> QED BY <1>1, OwnedOK DEF RoundOK, LoopListAt, Members

LEMMA ControlProxyPeerOK ==
  ASSUME ListInv, NEW c \in Controls, ControlProxyPeer(c)
  PROVE  ListInv'
<1> DEFINE g == <<c, "serve">>
           x == it[g].cur
<1>1. /\ UNCHANGED <<lists, sockets, proxyPeers, channel, input, pc, it, crashed>>
      /\ pc[g] = "proxyPeers"
      /\ \E r \in Owned(x) \ mapIt[c].seen :
           mapIt' = [mapIt EXCEPT ![c] = [must |-> @.must \ {r}, seen |-> @.seen \cup {r}, id |-> r]]
  BY DEF ControlProxyPeer, At
<1>2. Owned(x) \subseteq RemoteIds
  BY <1>1, ProxyAtHandOK
<1> HIDE DEF x
<1>3. PICK r \in RemoteIds :
        mapIt' = [mapIt EXCEPT ![c] = [must |-> mapIt[c].must \ {r},
                                       seen |-> mapIt[c].seen \cup {r}, id |-> r]]
  BY <1>1, <1>2
<1>4. ProxyTypes'
  BY <1>1, <1>3 DEF ListInv, ProxyTypes
<1>5. MoveInv' /\ StoreInv' /\ QueueInv'
  BY <1>1, StayOK, StoreStays, QueueStays DEF input
<1>6. InputTypes' /\ SocketTypes'
  BY <1>1 DEF ListInv, InputTypes, SocketTypes, sockets, input
<1> QED BY <1>4, <1>5, <1>6 DEF ListInv

LEMMA ControlProxyPeerSendOK ==
  ASSUME ListInv, NEW c \in Controls, ControlProxyPeerSend(c)
  PROVE  ListInv'
<1>1. /\ UNCHANGED <<lists, ws, inbox, direct, proxyPeers, channel, input, pc, it, crashed>>
      /\ Tell({c}, "connect", mapIt[c].id) /\ mapIt[c].id # Nil
      /\ mapIt' = [mapIt EXCEPT ![c].id = Nil]
  BY DEF ControlProxyPeerSend
<1>2. mapIt[c].id \in Ids
  BY <1>1 DEF ListInv, ProxyTypes, Ids
<1>3. SocketTypes'
  BY <1>1, <1>2, TellOK DEF ListInv
<1>4. ProxyTypes'
  BY <1>1 DEF ListInv, ProxyTypes
<1>5. MoveInv' /\ StoreInv' /\ QueueInv'
  BY <1>1, StayOK, StoreStays, QueueStays DEF input
<1>6. InputTypes'
  BY <1>1 DEF ListInv, InputTypes, input
<1> QED BY <1>3, <1>4, <1>5, <1>6 DEF ListInv

LEMMA ControlNextProxyOK ==
  ASSUME ListInv, NEW c \in Controls, ControlNextProxy(c)
  PROVE  ListInv'
<1> DEFINE g == <<c, "serve">>
           r == NextRound("proxies", it[g])
<1>1. /\ pc[g] = "proxyPeers"
      /\ IF Last(it[g]) THEN /\ Goto(g, "done", Idle)
                             /\ mapIt' = [mapIt EXCEPT ![c] = NoEntry]
                        ELSE /\ Goto(g, "proxyPeers", r)
                             /\ mapIt' = [mapIt EXCEPT ![c] = [NoEntry EXCEPT !.must = Owned(r.cur)]]
      /\ UNCHANGED <<lists, sockets, proxyPeers, channel, input, crashed>>
      /\ UNCHANGED <<lists, frame>>
  BY DEF ControlNextProxy, At, input
<1>2. g \in Goroutines /\ LoopList(g) = "proxies"
  BY <1>1, GoroutineParts DEF Conn, LoopList, LoopListAt
<1>3. MoveInv'
  <2> HIDE DEF g
  <2> QED BY <1>1, <1>2, RestOK, NextRoundGotoOK DEF LoopListAt, Lists, Labels
<1>4. Owned(r.cur) \subseteq RemoteIds
  <2>1. it[g] \in LoopState /\ InHeap(heap["proxies"], it[g])
    BY <1>1, <1>2 DEF ListInv, MoveInv, GoroutineTypes, RoundsOK, RoundOK, LoopListAt
  <2>2. r.cur \in Proxies \cup {Nil}
    BY <2>1, NextRoundOK DEF ListInv, StoreInv, Lists, Members
  <2> QED BY <2>2, OwnedOK
<1>5. ProxyTypes'
  <2> HIDE DEF g, r
  <2> QED BY <1>1, <1>4 DEF ListInv, ProxyTypes, NoEntry
<1>6. StoreInv' /\ QueueInv'
  BY <1>1, StoreStays, QueueStays
<1>7. InputTypes' /\ SocketTypes'
  BY <1>1 DEF ListInv, InputTypes, SocketTypes, sockets, input
<1> QED BY <1>3, <1>5, <1>6, <1>7 DEF ListInv

----------------------------------------------------------------------------
(* One lemma per action: the read pumps.                                   *)

\* The pump of a connection is a goroutine of its own.
LEMMA PumpParts ==
  ASSUME NEW c \in Conn
  PROVE  /\ Pump(c) \in Goroutines /\ Pump(c)[1] = c /\ Pump(c)[2] = "read"
         /\ \A d \in Conn : Pump(d) = Pump(c) => d = c
BY DEF Pump, Goroutines

\* A frame is read and its handling begins.
LEMMA ReadsOK ==
  ASSUME ListInv, NEW c \in Conn, NEW f \in Frame, NEW r \in LoopState,
         NEW label \in {"notify", "enqueue", "relay", "inform"},
         Reads(c, f, label, r), RoundOK(Pump(c), label, r), FrameOK(c, label, f), ProxyTypes'
  PROVE  ListInv'
<1>1. /\ inputs' = [inputs EXCEPT ![c] = @ + 1] /\ inputs[c] < MaxInput
      /\ frame' = [frame EXCEPT ![c] = f]
      /\ Goto(Pump(c), label, r)
      /\ UNCHANGED <<lists, sockets, mapIt, channel, notified, crashed>>
  BY DEF Reads
<1>2. /\ frame \in [Conn -> Frame \cup {Nil}] /\ inputs \in [Conn -> 0..MaxInput]
      /\ notified \subseteq Urls /\ crashed \in {"no", "bounds", "nilws", "noControllers", "malformed"}
  BY DEF ListInv, InputTypes
<1>3. InputTypes'
  <2>1. frame' \in [Conn -> Frame \cup {Nil}]
    BY <1>1, <1>2
  <2>2. inputs' \in [Conn -> 0..MaxInput]
    BY <1>1, <1>2, ConstantTypes
  <2> QED BY <1>1, <1>2, <2>1, <2>2 DEF InputTypes
<1>4. MoveInv'
  <2>1. PendingOK(Pump(c), label, r) /\ label \in Labels
    BY DEF PendingOK, UpdateListAt, Labels
  <2>2. \A d \in Conn : Pump(d) # Pump(c) => frame'[d] = frame[d]
    BY <1>1, <1>2, PumpParts
  <2>3. \A d \in Conn : Pump(d) = Pump(c) => FrameOK(d, label, frame'[d])
    <3>1. frame'[c] = f
      BY <1>1, <1>2
    <3> QED BY <3>1, PumpParts
  <2> QED BY <1>1, <2>1, <2>2, <2>3, PumpParts, GotoOK
<1>5. StoreInv' /\ QueueInv'
  BY <1>1, StoreStays, QueueStays
<1>6. SocketTypes'
  BY <1>1 DEF ListInv, SocketTypes, sockets
<1> QED BY <1>3, <1>4, <1>5, <1>6 DEF ListInv

\* What follows the arrival of a text.
LEMMA NotifyOrEnqueueOK ==
  ASSUME NEW m \in Payloads
  PROVE  /\ NotifyOrEnqueue(m) \in {"notify", "enqueue"}
         /\ NotifyOrEnqueue(m) = "notify" => m \in Urls
BY DEF NotifyOrEnqueue

LEMMA PlainRoundOK ==
  ASSUME NEW g, NEW label \in {"notify", "enqueue"}
  PROVE  RoundOK(g, label, Idle)
BY DEF RoundOK, LoopListAt, UpdateListAt

LEMMA PeerReadsOK ==
  ASSUME ListInv, NEW p \in Peers, PeerReads(p)
  PROVE  ListInv'
<1>1. PICK m \in Payloads :
        /\ Reads(p, [action |-> "broadcast", source |-> Id[p], target |-> Nil, payload |-> m],
                 NotifyOrEnqueue(m), Idle)
        /\ UNCHANGED proxyPeers
  BY DEF PeerReads
<1> DEFINE f == [action |-> "broadcast", source |-> Id[p], target |-> Nil, payload |-> m]
<1>2. p \in Conn /\ f \in Frame
  BY IdsOK DEF Conn, Frame
<1>3. FrameOK(p, NotifyOrEnqueue(m), f)
  BY <1>2, NotifyOrEnqueueOK DEF FrameOK
<1>4. ProxyTypes'
  BY <1>1 DEF ListInv, ProxyTypes, Reads
<1> QED BY <1>1, <1>2, <1>3, <1>4, NotifyOrEnqueueOK, PlainRoundOK, IdleOK, ReadsOK

\* A loop over the controls begins with a frame to relay or to pass on.
LEMMA RangeRoundOK ==
  ASSUME ListInv, NEW g, NEW label \in {"relay", "inform"}
  PROVE  RoundOK(g, label, RangeOver("controllers")) /\ RangeOver("controllers") \in LoopState
<1>1. /\ RangeOver("controllers") \in LoopState
      /\ InHeap(heap["controllers"], RangeOver("controllers")) /\ RangeOver("controllers").cur = Nil
  BY RangeOverOK DEF ListInv, StoreInv, Lists
<1> QED BY <1>1 DEF RoundOK, LoopListAt, UpdateListAt

LEMMA ControlReadsOK ==
  ASSUME ListInv, NEW c \in Controls, ControlReads(c)
  PROVE  ListInv'
<1>1. PICK t \in Ids :
        /\ Reads(c, [action |-> "message", source |-> Id[c], target |-> t, payload |-> Nil],
                 "relay", RangeOver("controllers"))
        /\ UNCHANGED proxyPeers
  BY DEF ControlReads
<1> DEFINE f == [action |-> "message", source |-> Id[c], target |-> t, payload |-> Nil]
<1>2. c \in Conn /\ f \in Frame /\ FrameOK(c, "relay", f)
  BY IdsOK DEF Conn, Frame, FrameOK
<1>3. ProxyTypes'
  BY <1>1 DEF ListInv, ProxyTypes, Reads
<1> QED BY <1>1, <1>2, <1>3, RangeRoundOK, ReadsOK

LEMMA ProxyReadsOK ==
  ASSUME ListInv, NEW x \in Proxies, ProxyReads(x)
  PROVE  ListInv'
<1>0. x \in Conn /\ Id[x] \in Ids /\ RemoteIds \subseteq Ids
  BY IdsOK DEF Conn, Ids
<1>1. ASSUME NEW a \in {"connect", "disconnect"}, NEW r \in RemoteIds,
             Reads(x, [action |-> a, source |-> Id[x], target |-> r, payload |-> Nil],
                   "inform", RangeOver("controllers")),
             proxyPeers' = [proxyPeers EXCEPT ![x] = IF a = "connect" THEN @ \cup {r} ELSE @ \ {r}]
      PROVE  ListInv'
  <2> DEFINE f == [action |-> a, source |-> Id[x], target |-> r, payload |-> Nil]
  <2>1. f \in Frame /\ FrameOK(x, "inform", f)
    BY <1>0 DEF Frame, FrameOK
  <2>2. ProxyTypes'
    BY <1>1 DEF ListInv, ProxyTypes, Reads
  <2> QED BY <1>0, <1>1, <2>1, <2>2, RangeRoundOK, ReadsOK
<1>2. ASSUME NEW r \in RemoteIds, NEW m \in Payloads,
             Reads(x, [action |-> "message", source |-> r, target |-> Nil, payload |-> m],
                   NotifyOrEnqueue(m), Idle),
             UNCHANGED proxyPeers
      PROVE  ListInv'
  <2> DEFINE f == [action |-> "message", source |-> r, target |-> Nil, payload |-> m]
  <2>1. f \in Frame /\ FrameOK(x, NotifyOrEnqueue(m), f)
    BY <1>0, NotifyOrEnqueueOK DEF Frame, FrameOK
  <2>2. ProxyTypes'
    BY <1>2 DEF ListInv, ProxyTypes, Reads
  <2> QED BY <1>0, <1>2, <2>1, <2>2, NotifyOrEnqueueOK, PlainRoundOK, IdleOK, ReadsOK
<1>3. ASSUME NEW r \in RemoteIds, NEW t \in Ids,
             Reads(x, [action |-> "directmessage", source |-> r, target |-> t, payload |-> Nil],
                   "relay", RangeOver("controllers")),
             UNCHANGED proxyPeers
      PROVE  ListInv'
  <2> DEFINE f == [action |-> "directmessage", source |-> r, target |-> t, payload |-> Nil]
  <2>1. f \in Frame /\ FrameOK(x, "relay", f)
    BY <1>0 DEF Frame, FrameOK
  <2>2. ProxyTypes'
    BY <1>3 DEF ListInv, ProxyTypes, Reads
  <2> QED BY <1>0, <1>3, <2>1, <2>2, RangeRoundOK, ReadsOK
<1> QED BY <1>1, <1>2, <1>3 DEF ProxyReads

\* The frame a pump holds at a control point.
LEMMA HeldFrameOK ==
  ASSUME ListInv, NEW c \in Conn
  PROVE  FrameOK(c, pc[Pump(c)], frame[c])
BY DEF ListInv, MoveInv, FramesOK

LEMMA NotifyOK ==
  ASSUME ListInv, NEW c \in Conn, Notify(c)
  PROVE  ListInv'
<1>1. /\ pc[Pump(c)] = "notify"
      /\ notified' = notified \cup {frame[c].payload}
      /\ \/ crashed' = "noControllers" /\ UNCHANGED <<pc, it>>
         \/ crashed' = crashed /\ Goto(Pump(c), "enqueue", Idle)
      /\ UNCHANGED <<lists, sockets, proxyState, channel, frame, inputs>>
  BY DEF Notify, At
<1>2. frame[c] \in Frame /\ frame[c].payload \in Urls /\ FrameOK(c, "enqueue", frame[c])
  BY <1>1, HeldFrameOK DEF FrameOK
<1>3. MoveInv'
  <2>1. CASE UNCHANGED <<pc, it>>
    BY <1>1, <2>1, StayOK
  <2>2. CASE Goto(Pump(c), "enqueue", Idle)
    <3>1. PendingOK(Pump(c), "enqueue", Idle) /\ "enqueue" \in Labels
      BY DEF PendingOK, UpdateListAt, Labels
    <3>2. \A d \in Conn : Pump(d) = Pump(c) => FrameOK(d, "enqueue", frame[d])
      BY <1>2, PumpParts
    <3> QED BY <1>1, <2>2, <3>1, <3>2, PumpParts, PlainRoundOK, IdleOK, GotoOK
  <2> QED BY <1>1, <2>1, <2>2
<1>4. InputTypes'
  BY <1>1, <1>2 DEF ListInv, InputTypes
<1>5. StoreInv' /\ QueueInv'
  BY <1>1, StoreStays, QueueStays
<1>6. SocketTypes' /\ ProxyTypes'
  BY <1>1 DEF ListInv, SocketTypes, ProxyTypes, sockets, proxyState
<1> QED BY <1>3, <1>4, <1>5, <1>6 DEF ListInv

LEMMA EnqueueOK ==
  ASSUME ListInv, NEW c \in Conn, Enqueue(c)
  PROVE  ListInv'
<1> DEFINE m == [source |-> frame[c].source, payload |-> frame[c].payload,
                 fromProxy |-> c \in Proxies]
<1>1. /\ pc[Pump(c)] = "enqueue"
      /\ Len(buffer) < Capacity /\ buffer' = Append(buffer, m)
      /\ Goto(Pump(c), "read", Idle)
      /\ UNCHANGED <<lists, sockets, proxyState, disp, log, since, input, crashed>>
      /\ UNCHANGED <<lists, frame>>
  BY DEF Enqueue, At, input
<1>2. m \in Message
  <2>1. frame[c] \in Frame /\ frame[c].payload \in Payloads
    BY <1>1, HeldFrameOK DEF FrameOK
  <2> QED BY <2>1 DEF Frame, Message
<1> HIDE DEF m
<1>3. QueueInv'
  <2>1. buffer \in Seq(Message) /\ Len(buffer) \in Nat
    BY LenProperties DEF ListInv, QueueInv, ChannelTypes
  <2>2. buffer' \in Seq(Message) /\ Len(buffer') = Len(buffer) + 1
    BY <1>1, <1>2, <2>1, AppendProperties
  <2>3. Len(buffer') <= Capacity
    BY <1>1, <2>1, <2>2, ConstantTypes
  <2> QED BY <1>1, <2>2, <2>3
          DEF ListInv, QueueInv, ChannelTypes, DispatchOK, DispatchList, lists
<1>4. MoveInv' /\ StoreInv'
  BY <1>1, PumpParts, RestOK, StoreStays
<1>5. InputTypes' /\ SocketTypes' /\ ProxyTypes'
  BY <1>1 DEF ListInv, InputTypes, SocketTypes, ProxyTypes, sockets, proxyState, input
<1> QED BY <1>3, <1>4, <1>5 DEF ListInv

LEMMA ProxyInformsOK ==
  ASSUME ListInv, NEW x \in Proxies, ProxyInforms(x)
  PROVE  ListInv'
<1>1. /\ pc[Pump(x)] = "inform"
      /\ Tell(Touches(Pump(x)), frame[x].action, frame[x].target)
      /\ IF Last(it[Pump(x)]) THEN Goto(Pump(x), "read", Idle)
           ELSE Goto(Pump(x), "inform", NextRound(LoopList(Pump(x)), it[Pump(x)]))
      /\ UNCHANGED <<lists, ws, inbox, direct, proxyState, channel, input, crashed>>
      /\ UNCHANGED <<lists, frame>>
  BY DEF ProxyInforms, AnnounceRound, At, input
<1>2. x \in Conn /\ Pump(x) \in Goroutines
  BY PumpParts DEF Conn
<1>3. MoveInv'
  BY <1>1, <1>2, RestOK, NextRoundGotoOK DEF LoopListAt, Lists, Labels
<1>4. frame[x].target \in Ids
  BY <1>1, <1>2, HeldFrameOK DEF FrameOK
<1> QED BY <1>1, <1>2, <1>3, <1>4, AnnounceRoundOK

\* The frame of a relay is kept until its pump reads again.
FrameKept(c) == frame' = [frame EXCEPT ![c] = IF pc'[Pump(c)] = "read" THEN Nil ELSE @]

LEMMA FrameKeptOK ==
  ASSUME ListInv, NEW c \in Conn, FrameKept(c)
  PROVE  /\ frame' \in [Conn -> Frame \cup {Nil}]
         /\ pc'[Pump(c)] # "read" => frame' = frame
         /\ \A d \in Conn : Pump(d) # Pump(c) => frame'[d] = frame[d]
<1>1. frame \in [Conn -> Frame \cup {Nil}]
  BY DEF ListInv, InputTypes
<1> QED BY <1>1 DEF FrameKept

LEMMA GotoArrives ==
  ASSUME ListInv, NEW g \in Goroutines, NEW label, NEW r, Goto(g, label, r)
  PROVE  pc'[g] = label
BY DEF ListInv, MoveInv, GoroutineTypes, Goto

\* One round of a relay, whatever its exit leads to.
LEMMA RelayRoundOK ==
  ASSUME ListInv, NEW c \in Conn, MoveInv', pc[Pump(c)] \in {"relay", "relayProxy"},
         direct' = [w \in Controls \cup Proxies |->
                      IF w \in Touches(Pump(c)) /\ ws[w] = "open"
                        THEN direct[w] \cup {<<frame[c].source, frame[c].target>>}
                        ELSE direct[w]],
         FrameKept(c),
         UNCHANGED <<lists, ws, view, inbox, proxyState, channel, inputs, notified, crashed>>
  PROVE  ListInv'
<1>1. <<frame[c].source, frame[c].target>> \in Ids \X Ids
  BY HeldFrameOK DEF FrameOK, Frame
<1>2. SocketTypes'
  BY <1>1 DEF ListInv, SocketTypes
<1>3. StoreInv' /\ QueueInv'
  BY StoreStays, QueueStays
<1>4. InputTypes' /\ ProxyTypes'
  BY FrameKeptOK DEF ListInv, InputTypes, ProxyTypes, proxyState
<1> QED BY <1>2, <1>3, <1>4 DEF ListInv

LEMMA RelayOK ==
  ASSUME ListInv, NEW c \in Conn, Relay(c)
  PROVE  ListInv'
<1> DEFINE g == Pump(c)
<1>1. /\ pc[g] = "relay"
      /\ direct' = [w \in Controls \cup Proxies |->
                      IF w \in Touches(g) /\ ws[w] = "open"
                        THEN direct[w] \cup {<<frame[c].source, frame[c].target>>}
                        ELSE direct[w]]
      /\ \/ Goto(g, "read", Idle)
         \/ Goto(g, "relay", NextRound("controllers", it[g]))
         \/ Goto(g, "relayProxy", RangeOver("proxies"))
      /\ FrameKept(c)
      /\ UNCHANGED <<lists, ws, view, inbox, proxyState, channel, inputs, notified, crashed>>
  BY DEF Relay, RelayRound, At, FrameKept
<1>2. g \in Goroutines /\ LoopList(g) = "controllers"
  BY <1>1, PumpParts DEF LoopList, LoopListAt
<1>3. \A d \in Conn : Pump(d) = g => FrameOK(d, "relayProxy", frame[d])
  BY <1>1, HeldFrameOK DEF FrameOK
<1>4. /\ pc'[g] # "read" => frame' = frame
      /\ \A d \in Conn : Pump(d) # g => frame'[d] = frame[d]
  BY <1>1, FrameKeptOK
<1>5. MoveInv'
  <2> HIDE DEF g
  <2>1. CASE Goto(g, "read", Idle)
    BY <1>1, <1>2, <1>4, <2>1, ReleaseOK
  <2>2. CASE Goto(g, "relay", NextRound("controllers", it[g]))
    <3>1. frame' = frame
      BY <1>2, <1>4, <2>2, GotoArrives
    <3> QED BY <1>1, <1>2, <2>2, <3>1, NextRoundGotoOK DEF LoopListAt, Lists, Labels
  <2>3. CASE Goto(g, "relayProxy", RangeOver("proxies"))
    <3>1. frame' = frame
      BY <1>2, <1>4, <2>3, GotoArrives
    <3> QED BY <1>1, <1>2, <1>3, <2>3, <3>1, EnterLoopOK DEF LoopListAt, Lists, Labels
  <2> QED BY <1>1, <2>1, <2>2, <2>3
<1> QED BY <1>1, <1>5, RelayRoundOK

LEMMA RelayToProxyOK ==
  ASSUME ListInv, NEW c \in Conn, RelayToProxy(c)
  PROVE  ListInv'
<1> DEFINE g == Pump(c)
<1>1. /\ pc[g] = "relayProxy"
      /\ direct' = [w \in Controls \cup Proxies |->
                      IF w \in Touches(g) /\ ws[w] = "open"
                        THEN direct[w] \cup {<<frame[c].source, frame[c].target>>}
                        ELSE direct[w]]
      /\ \/ Goto(g, "read", Idle)
         \/ Goto(g, "relayProxy", NextRound("proxies", it[g]))
      /\ FrameKept(c)
      /\ UNCHANGED <<lists, ws, view, inbox, proxyState, channel, inputs, notified, crashed>>
  BY DEF RelayToProxy, RelayRound, At, FrameKept
<1>2. g \in Goroutines /\ LoopList(g) = "proxies"
  BY <1>1, PumpParts DEF LoopList, LoopListAt
<1>3. /\ pc'[g] # "read" => frame' = frame
      /\ \A d \in Conn : Pump(d) # g => frame'[d] = frame[d]
  BY <1>1, FrameKeptOK
<1>4. MoveInv'
  <2> HIDE DEF g
  <2>1. CASE Goto(g, "read", Idle)
    BY <1>1, <1>2, <1>3, <2>1, ReleaseOK
  <2>2. CASE Goto(g, "relayProxy", NextRound("proxies", it[g]))
    <3>1. frame' = frame
      BY <1>2, <1>3, <2>2, GotoArrives
    <3> QED BY <1>1, <1>2, <2>2, <3>1, NextRoundGotoOK DEF LoopListAt, Lists, Labels
  <2> QED BY <1>1, <2>1, <2>2
<1> QED BY <1>1, <1>4, RelayRoundOK

LEMMA WritePanicsOK ==
  ASSUME ListInv, NEW g \in Goroutines, WritePanics(g)
  PROVE  ListInv'
<1>1. CASE Crash("nilws")
  BY <1>1, CrashOK
<1>2. CASE /\ Goto(g, "dead", Idle)
           /\ UNCHANGED <<lists, sockets, proxyState, channel, input, crashed>>
  <2>1. MoveInv'
    BY <1>2, RestOK DEF input
  <2> QED BY <1>2, <2>1, OnlyMoves
<1> QED BY <1>1, <1>2 DEF WritePanics

----------------------------------------------------------------------------
(* One lemma per action: removeConnection, apart from the store.           *)

\* The search for v begins at the head of its list.
LEMMA StartScanOK ==
  ASSUME ListInv, UNCHANGED <<lists, frame>>, NEW g \in Goroutines, NEW v \in Conn,
         Goto(g, "scan", [RangeOver(Kind(v)) EXCEPT !.cur = v])
  PROVE  MoveInv'
<1> DEFINE k == Kind(v)
           h == RangeOver(k)
           r == [h EXCEPT !.cur = v]
<1>1. /\ k \in Lists /\ h \in LoopState /\ InHeap(heap[k], h)
      /\ h.arr = list[k].arr /\ h.len = list[k].len
  BY Kinds, RangeOverOK DEF ListInv, StoreInv
<1> HIDE DEF k, h
<1>2. r \in LoopState /\ r.cur = v /\ r.arr = h.arr /\ r.len = h.len
  BY <1>1 DEF LoopState
<1> HIDE DEF r
<1>3. RoundOK(g, "scan", r)
  BY <1>1, <1>2 DEF RoundOK, LoopListAt, UpdateListAt, InHeap, k
<1>4. PendingOK(g, "scan", r)
  <2>1. UpdateListAt(g, "scan", r) = k
    BY <1>2 DEF UpdateListAt, k
  <2>2. list[k].len \in Nat
    BY <1>1 DEF LoopState
  <2> QED BY <1>1, <1>2, <2>1, <2>2 DEF PendingOK, Shown
<1>5. \A c \in Conn : FrameOK(c, "scan", frame[c])
  BY DEF FrameOK
<1>6. Goto(g, "scan", r) /\ "scan" \in Labels
  BY DEF k, h, r, Labels
<1> QED BY <1>2, <1>3, <1>4, <1>5, <1>6, GotoOK

LEMMA ReadFailsOK ==
  ASSUME ListInv, NEW c \in Conn, ReadFails(c)
  PROVE  ListInv'
<1>1. /\ Goto(Pump(c), "scan", [RangeOver(Kind(c)) EXCEPT !.cur = c])
      /\ UNCHANGED <<lists, sockets, proxyState, channel, input, crashed>>
      /\ UNCHANGED <<lists, frame>>
  BY DEF ReadFails, input
<1> QED BY <1>1, PumpParts, StartScanOK, OnlyMoves

\* After a removal the goroutine is in a sound round of another loop, or done.
LEMMA AfterRemovalGoto ==
  ASSUME ListInv, NEW g \in Goroutines, NEW v \in Conn, AfterRemoval(g, v)
  PROVE  \E label \in {"findControl", "close", "closeControl", "toProxy"}, r \in LoopState :
           Goto(g, label, r) /\ RoundOK(g, label, r)
<1>1. /\ RangeOver("controllers") \in LoopState /\ RangeOver("peers") \in LoopState
      /\ RoundOK(g, "findControl", RangeOver("controllers"))
      /\ RoundOK(g, "toProxy", RangeOver("peers"))
  BY RangeOverOK DEF ListInv, StoreInv, Lists, RoundOK, LoopListAt, UpdateListAt
<1>2. RoundOK(g, "close", Idle)
  BY DEF RoundOK, LoopListAt, UpdateListAt
<1>3. ASSUME v \in Controls
      PROVE  [Idle EXCEPT !.cur = v] \in LoopState /\ RoundOK(g, "closeControl", [Idle EXCEPT !.cur = v])
  <2>1. /\ [Idle EXCEPT !.cur = v] \in LoopState
        /\ [Idle EXCEPT !.cur = v].cur = v
    BY DEF Idle, LoopState
  <2> QED BY <1>3, <2>1 DEF RoundOK, LoopListAt, UpdateListAt
<1> QED BY <1>1, <1>2, <1>3, IdleOK DEF AfterRemoval

LEMMA AfterRemovalOK ==
  ASSUME ListInv, NEW g \in Goroutines, NEW v \in Conn, AfterRemoval(g, v), UNCHANGED <<lists, frame>>
  PROVE  MoveInv'
<1>1. PICK label \in {"findControl", "close", "closeControl", "toProxy"}, r \in LoopState :
        Goto(g, label, r) /\ RoundOK(g, label, r)
  BY AfterRemovalGoto
<1>2. PendingOK(g, label, r) /\ label \in Labels /\ label \notin {"new", "append"}
  BY DEF PendingOK, UpdateListAt, Labels
<1>3. \A c \in Conn : FrameOK(c, label, frame[c])
  BY DEF FrameOK
<1> QED BY <1>1, <1>2, <1>3, GotoOK

\* What a removal knows of its list.
LEMMA RemovalRound ==
  ASSUME ListInv, NEW g \in Goroutines, pc[g] \in {"scan", "cut", "cutw"}
  PROVE  LET r == it[g]
             k == Kind(r.cur)
         IN /\ r \in LoopState /\ r.cur \in Conn /\ r.arr \in Nat /\ r.len \in Nat /\ r.i \in Nat
            /\ k \in Lists /\ UpdateListAt(g, pc[g], r) = k
            /\ InHeap(heap[k], r) /\ RoundOK(g, pc[g], r) /\ PendingOK(g, pc[g], r)
            /\ list[k] \in Header /\ InHeap(heap[k], list[k]) /\ heap[k] \in Seq(Array(Members(k)))
<1>1. it[g] \in LoopState /\ RoundOK(g, pc[g], it[g]) /\ PendingOK(g, pc[g], it[g])
  BY DEF ListInv, MoveInv, GoroutineTypes, RoundsOK, AllPending
<1>2. it[g].cur \in Conn /\ it[g].arr \in Nat /\ it[g].len \in Nat /\ it[g].i \in Nat
  BY <1>1 DEF RoundOK, LoopState
<1>3. Kind(it[g].cur) \in Lists /\ UpdateListAt(g, pc[g], it[g]) = Kind(it[g].cur)
  BY <1>2, Kinds DEF UpdateListAt
<1>4. InHeap(heap[Kind(it[g].cur)], it[g])
  BY <1>1, <1>3 DEF RoundOK, Lists
<1> QED BY <1>1, <1>2, <1>3, <1>4 DEF ListInv, StoreInv, ListTypes

LEMMA ScanOK ==
  ASSUME ListInv, NEW g \in Goroutines, Scan(g)
  PROVE  ListInv'
<1> DEFINE r == it[g]
           k == Kind(r.cur)
           i == r.i + 1
           e == heap[k][r.arr].at[i]
           s == [r EXCEPT !.i = i]
<1>1. /\ pc[g] = "scan"
      /\ \/ i <= r.len /\ Id[e] = Id[r.cur] /\ Goto(g, "cut", s)
         \/ Goto(g, "scan", s)
         \/ AfterRemoval(g, r.cur)
      /\ UNCHANGED <<lists, sockets, proxyState, channel, input, crashed>>
      /\ UNCHANGED <<lists, frame>>
  BY DEF Scan, At, input
<1>2. /\ r \in LoopState /\ r.cur \in Conn /\ r.arr \in Nat /\ r.len \in Nat /\ r.i \in Nat
      /\ k \in Lists /\ UpdateListAt(g, "scan", r) = k
      /\ InHeap(heap[k], r) /\ PendingOK(g, "scan", r)
      /\ list[k] \in Header
  BY <1>1, RemovalRound
<1>3. /\ s \in LoopState /\ s.arr = r.arr /\ s.len = r.len /\ s.cur = r.cur /\ s.i = i
      /\ i \in Nat /\ i >= 1
  BY <1>2 DEF LoopState
<1>4. /\ RoundOK(g, "scan", s) /\ RoundOK(g, "cut", s)
      /\ UpdateListAt(g, "scan", s) = k /\ UpdateListAt(g, "cut", s) = k
  <2> HIDE DEF s, i, r
  <2> QED BY <1>2, <1>3 DEF RoundOK, LoopListAt, UpdateListAt, InHeap
<1>5. PendingOK(g, "scan", s)
  <2> HIDE DEF s, i, r, k
  <2> QED BY <1>2, <1>3, <1>4 DEF PendingOK, Shown
<1>6. ASSUME i <= r.len, Id[e] = Id[r.cur] PROVE PendingOK(g, "cut", s)
  <2>1. ASSUME k \notin race PROVE i <= list[k].len /\ Id[Shown(k, list[k], i)] = Id[r.cur]
    <3>1. /\ r.len <= list[k].len
          /\ \A j \in 1..r.len : Shown(k, r, j) = Shown(k, list[k], j)
      BY <2>1, <1>2 DEF PendingOK, Lists
    <3>2. i \in 1..r.len /\ list[k].len \in Nat
      <4>1. list[k].len \in Nat
        BY <1>2 DEF Header
      <4> HIDE DEF r, k, i
      <4> QED BY <4>1, <1>2, <1>3, <1>6
    <3>3. Shown(k, r, i) = e
      BY DEF Shown
    <3>4. Shown(k, list[k], i) = e
      <4> HIDE DEF r, k, i, e
      <4> QED BY <3>1, <3>2, <3>3
    <3>5. i <= list[k].len
      <4> HIDE DEF r, k, i, e
      <4> QED BY <3>1, <3>2, <1>2, <1>6
    <3> QED BY <3>4, <3>5, <1>6
  <2> HIDE DEF s, i, r, k
  <2> QED BY <2>1, <1>3, <1>4 DEF PendingOK
<1>7. \A c \in Conn : FrameOK(c, "scan", frame[c]) /\ FrameOK(c, "cut", frame[c])
  BY DEF FrameOK
<1>8. MoveInv'
  <2>1. CASE i <= r.len /\ Id[e] = Id[r.cur] /\ Goto(g, "cut", s)
    <3>1. PendingOK(g, "cut", s) /\ "cut" \in Labels
      BY <2>1, <1>6 DEF Labels
    <3> HIDE DEF s
    <3> QED BY <2>1, <3>1, <1>1, <1>3, <1>4, <1>7, GotoOK
  <2>2. CASE Goto(g, "scan", s)
    <3> HIDE DEF s
    <3> QED BY <2>2, <1>1, <1>3, <1>4, <1>5, <1>7, GotoOK DEF Labels
  <2>3. CASE AfterRemoval(g, r.cur)
    BY <2>3, <1>1, <1>2, AfterRemovalOK
  <2> QED BY <1>1, <2>1, <2>2, <2>3
<1> QED BY <1>1, <1>8, OnlyMoves

LEMMA CutOK ==
  ASSUME ListInv, NEW g \in Goroutines, Cut(g)
  PROVE  ListInv'
<1> DEFINE r == it[g]
           k == Kind(r.cur)
           h == list[k]
           s == [arr |-> h.arr, len |-> h.len, i |-> r.i, cur |-> r.cur]
<1>1. /\ pc[g] = "cut"
      /\ IF r.i > h.len THEN Crash("bounds")
           ELSE /\ Goto(g, "cutw", s)
                /\ UNCHANGED <<lists, sockets, proxyState, channel, input, crashed>>
  BY DEF Cut, At
<1>2. /\ r \in LoopState /\ r.cur \in Conn /\ r.arr \in Nat /\ r.len \in Nat /\ r.i \in Nat
      /\ k \in Lists /\ UpdateListAt(g, "cut", r) = k
      /\ RoundOK(g, "cut", r) /\ PendingOK(g, "cut", r)
      /\ h \in Header /\ InHeap(heap[k], h)
  BY <1>1, RemovalRound
<1>3. CASE r.i > h.len
  <2>1. race # {}
    <3>1. k \notin race => r.i <= h.len
      BY <1>2 DEF PendingOK, Lists
    <3>2. h.len \in Nat
      BY <1>2 DEF Header
    <3> QED BY <3>1, <3>2, <1>2, <1>3
  <2>2. Crash("bounds")
    BY <1>1, <1>3
  <2>3. MoveInv' /\ QueueInv'
    BY <2>2, StayOK, QueueStays DEF Crash, input
  <2>4. StoreInv'
    BY <2>1, <2>2, ListsStay DEF Crash, StoreInv, lists, BoundsPanicNeedsRace
  <2>5. InputTypes' /\ SocketTypes' /\ ProxyTypes'
    BY <2>2 DEF Crash, ListInv, InputTypes, SocketTypes, ProxyTypes, sockets, proxyState, input
  <2> QED BY <2>3, <2>4, <2>5 DEF ListInv
<1>4. CASE ~(r.i > h.len)
  <2>1. /\ s \in LoopState /\ s.arr = h.arr /\ s.len = h.len /\ s.cur = r.cur /\ s.i = r.i
        /\ h.len \in Nat /\ r.i <= h.len
    BY <1>2, <1>4 DEF LoopState, Header
  <2>2. RoundOK(g, "cutw", s) /\ UpdateListAt(g, "cutw", s) = k
    <3> HIDE DEF s, r, h
    <3> QED BY <1>2, <2>1 DEF RoundOK, LoopListAt, UpdateListAt, InHeap
  <2>3. PendingOK(g, "cutw", s)
    <3>1. k \notin race => Id[Shown(k, h, r.i)] = Id[r.cur]
      BY <1>2 DEF PendingOK, Lists
    <3> HIDE DEF s, r, k
    <3> QED BY <3>1, <2>1, <2>2 DEF PendingOK
  <2>4. \A c \in Conn : FrameOK(c, "cutw", frame[c])
    BY DEF FrameOK
  <2>5. /\ Goto(g, "cutw", s) /\ "cutw" \in Labels
        /\ UNCHANGED <<lists, sockets, proxyState, channel, input, crashed>>
        /\ UNCHANGED <<lists, frame>>
    BY <1>1, <1>4 DEF Labels, input
  <2> HIDE DEF s
  <2>6. MoveInv'
    BY <2>1, <2>2, <2>3, <2>4, <2>5, GotoOK
  <2> QED BY <2>5, <2>6, OnlyMoves
<1> QED BY <1>3, <1>4

LEMMA FindControlOK ==
  ASSUME ListInv, NEW g \in Goroutines, FindControl(g)
  PROVE  ListInv'
<1> DEFINE r == it[g]
           e == NextRound("controllers", r).cur
           s == [r EXCEPT !.i = @ + 1]
<1>1. /\ pc[g] = "findControl"
      /\ \/ e # Nil /\ Goto(g, "scan", [RangeOver("controllers") EXCEPT !.cur = e])
         \/ Goto(g, "findControl", s)
         \/ Goto(g, "toControls", RangeOver("controllers"))
      /\ UNCHANGED <<lists, sockets, proxyState, channel, input, crashed>>
      /\ UNCHANGED <<lists, frame>>
  BY DEF FindControl, At, input
<1>2. /\ r \in LoopState /\ RoundOK(g, "findControl", r)
      /\ InHeap(heap["controllers"], r)
  BY <1>1 DEF ListInv, MoveInv, GoroutineTypes, RoundsOK, RoundOK, LoopListAt
<1>3. e \in Controls \cup {Nil}
  BY <1>2, NextRoundOK DEF ListInv, StoreInv, Lists, Members
<1>4. MoveInv'
  <2>1. CASE e # Nil /\ Goto(g, "scan", [RangeOver("controllers") EXCEPT !.cur = e])
    <3>1. e \in Conn /\ Kind(e) = "controllers"
      BY <2>1, <1>3, Kinds DEF Lists, Members, Conn
    <3> HIDE DEF e
    <3> QED BY <2>1, <3>1, <1>1, StartScanOK
  <2>2. CASE Goto(g, "findControl", s)
    <3>1. s \in LoopState /\ s.arr = r.arr /\ s.len = r.len /\ s.cur = r.cur
      BY <1>2 DEF LoopState
    <3>2. RoundOK(g, "findControl", s) /\ PendingOK(g, "findControl", s) /\ "findControl" \in Labels
      <4> HIDE DEF s, r
      <4> QED BY <3>1, <1>2 DEF RoundOK, PendingOK, LoopListAt, UpdateListAt, InHeap, Labels
    <3>3. \A c \in Conn : FrameOK(c, "findControl", frame[c])
      BY DEF FrameOK
    <3> HIDE DEF s
    <3> QED BY <2>2, <3>1, <3>2, <3>3, <1>1, GotoOK
  <2>3. CASE Goto(g, "toControls", RangeOver("controllers"))
    BY <2>3, <1>1, EnterPlainLoopOK DEF LoopListAt
  <2> HIDE DEF s, e
  <2> QED BY <1>1, <2>1, <2>2, <2>3
<1> QED BY <1>1, <1>4, OnlyMoves

\* A websocket is closed.
LEMMA ClosedOK ==
  ASSUME ListInv, NEW c \in Conn, MoveInv', ws' = [ws EXCEPT ![c] = "closed"],
         UNCHANGED <<lists, view, inbox, direct, proxyState, channel, input, crashed>>
  PROVE  ListInv'
<1>1. StoreInv' /\ QueueInv'
  BY StoreStays, QueueStays
<1>2. InputTypes' /\ SocketTypes' /\ ProxyTypes'
  BY DEF ListInv, InputTypes, SocketTypes, ProxyTypes, proxyState, input
<1> QED BY <1>1, <1>2 DEF ListInv

LEMMA CloseControlOK ==
  ASSUME ListInv, NEW g \in Goroutines, CloseControl(g)
  PROVE  ListInv'
<1>1. /\ pc[g] = "closeControl"
      /\ ws' = [ws EXCEPT ![it[g].cur] = "closed"]
      /\ Goto(g, "toControls", RangeOver("controllers"))
      /\ UNCHANGED <<lists, view, inbox, direct, proxyState, channel, input, crashed>>
      /\ UNCHANGED <<lists, frame>>
  BY DEF CloseControl, At, input
<1>2. it[g].cur \in Conn
  BY <1>1 DEF ListInv, MoveInv, RoundsOK, RoundOK, Conn
<1>3. MoveInv'
  BY <1>1, EnterPlainLoopOK DEF LoopListAt
<1> QED BY <1>1, <1>2, <1>3, ClosedOK

LEMMA CloseOK ==
  ASSUME ListInv, NEW c \in Conn, Close(c)
  PROVE  ListInv'
<1>1. /\ ws' = [ws EXCEPT ![c] = "closed"]
      /\ Goto(Pump(c), "done", Idle)
      /\ UNCHANGED <<lists, view, inbox, direct, proxyState, channel, input, crashed>>
      /\ UNCHANGED <<lists, frame>>
  BY DEF Close, input
<1>2. MoveInv'
  BY <1>1, PumpParts, RestOK
<1> QED BY <1>1, <1>2, ClosedOK

----------------------------------------------------------------------------
(* The two steps that change a list.                                       *)

\* Where a goroutine may go when its update is stored.
After == {"toControls", "toProxy", "ownPeers", "done", "read", "findControl", "close", "closeControl"}

\* What an update of list k leaves sound: headers copied earlier stay readable.
LEMMA UpdateKeepsRounds ==
  ASSUME ListInv, NEW k \in Lists, ListTypes', Grows(heap[k], heap'[k]),
         \A j \in Lists \ {k} : heap'[j] = heap[j],
         GoroutineTypes', UNCHANGED <<frame, disp, log>>,
         \A o \in Goroutines : \/ pc'[o] = pc[o] /\ it'[o] = it[o]
                               \/ pc'[o] \in After /\ RoundOK(o, pc'[o], it'[o])
  PROVE  RoundsOK' /\ FramesOK' /\ DispatchOK'
<1>1. ASSUME NEW j \in Lists, NEW r, r.len \in Nat, InHeap(heap[j], r)
      PROVE  InHeap(heap'[j], r)
  <2>1. heap[k] \in Seq(Array(Members(k))) /\ heap'[k] \in Seq(Array(Members(k)))
    BY DEF ListInv, StoreInv, ListTypes
  <2> QED BY <1>1, <2>1, GrowsKeepsHeaders
<1>2. ASSUME NEW o \in Goroutines PROVE RoundOK(o, pc[o], it[o])'
  <2>1. RoundOK(o, pc'[o], it'[o])
    BY DEF ListInv, MoveInv, RoundsOK
  <2>2. it'[o].len \in Nat
    BY DEF GoroutineTypes, LoopState
  <2>3. /\ LoopListAt(pc'[o]) # "none" => LoopListAt(pc'[o]) \in Lists
        /\ UpdateListAt(o, pc'[o], it'[o]) # "none" => UpdateListAt(o, pc'[o], it'[o]) \in Lists
    BY <2>1, Kinds, GoroutineParts DEF RoundOK, LoopListAt, UpdateListAt, Lists
  <2>4. /\ LoopListAt(pc'[o]) # "none" => InHeap(heap'[LoopListAt(pc'[o])], it'[o])
        /\ UpdateListAt(o, pc'[o], it'[o]) # "none" => InHeap(heap'[UpdateListAt(o, pc'[o], it'[o])], it'[o])
    BY <1>1, <2>1, <2>2, <2>3 DEF RoundOK
  <2> QED BY <2>1, <2>4 DEF RoundOK
<1>3. ASSUME NEW c \in Conn PROVE FrameOK(c, pc'[Pump(c)], frame'[c])
  BY GoroutineParts DEF ListInv, MoveInv, FramesOK, FrameOK, After
<1>4. DispatchOK'
  <2>1. ASSUME disp.pc # "idle" PROVE InHeap(heap'[DispatchList], disp.it)
    <3>1. InHeap(heap[DispatchList], disp.it) /\ disp.it.len \in Nat /\ DispatchList \in Lists
      BY <2>1 DEF ListInv, QueueInv, DispatchOK, ChannelTypes, LoopState, DispatchList, Lists
    <3> QED BY <1>1, <3>1
  <2> QED BY <2>1 DEF DispatchOK, DispatchList, ListInv, QueueInv
<1> QED BY <1>2, <1>3, <1>4 DEF RoundsOK, FramesOK, FrameOK

\* On a list that stays as it is nothing changes for a pending update.
LEMMA PendingElsewhere ==
  ASSUME ListInv, NEW o \in Goroutines, pc'[o] = pc[o], it'[o] = it[o], race \subseteq race',
         LET k == UpdateList(o) IN k # "none" => heap'[k] = heap[k] /\ list'[k] = list[k]
  PROVE  PendingOK(o, pc[o], it[o])'
<1>1. PendingOK(o, pc'[o], it'[o])
  BY DEF ListInv, MoveInv, AllPending
<1>2. UpdateList(o) = UpdateListAt(o, pc'[o], it'[o])
  BY DEF UpdateList
<1>3. ASSUME NEW k, k = UpdateListAt(o, pc'[o], it'[o]), k # "none", k \notin race'
      PROVE  k \notin race /\ heap'[k] = heap[k] /\ list'[k] = list[k]
  BY <1>2, <1>3
<1> QED BY <1>1, <1>3 DEF PendingOK, Shown

----------------------------------------------------------------------------
\* The header of a pending append.
Loaded(g) == [arr |-> it[g].arr, len |-> it[g].len]

LEMMA LoadedOK ==
  ASSUME ListInv, NEW c \in Conn, pc[<<c, "serve">>] = "append"
  PROVE  LET g == <<c, "serve">>
             k == Kind(c)
         IN /\ g \in Goroutines /\ k \in Lists /\ c \in Members(k) /\ c \notin joined
            /\ heap[k] \in Seq(Array(Members(k)))
            /\ Loaded(g) \in Header /\ InHeap(heap[k], Loaded(g))
            /\ k \notin race => list[k] = Loaded(g)
<1> DEFINE g == <<c, "serve">>
           k == Kind(c)
<1>1. g \in Goroutines /\ g[1] = c /\ k \in Lists /\ c \in Members(k)
  BY GoroutineParts, Kinds
<1>2. /\ it[g] \in LoopState /\ RoundOK(g, "append", it[g]) /\ PendingOK(g, "append", it[g])
      /\ c \notin joined /\ heap[k] \in Seq(Array(Members(k))) /\ list[k] \in Header
  BY <1>1 DEF ListInv, MoveInv, GoroutineTypes, RoundsOK, AllPending, Fresh, StoreInv, ListTypes
<1>3. UpdateListAt(g, "append", it[g]) = k /\ k # "none"
  BY <1>1 DEF UpdateListAt, Lists
<1> HIDE DEF g, k
<1>4. InHeap(heap[k], it[g]) /\ it[g].arr \in Nat /\ it[g].len \in Nat
  BY <1>2, <1>3 DEF RoundOK, LoopState
<1>5. Loaded(g) \in Header /\ InHeap(heap[k], Loaded(g))
  BY <1>4 DEF Loaded, Header, InHeap
<1>6. k \notin race => list[k] = Loaded(g)
  BY <1>2, <1>3 DEF PendingOK, Loaded, Header
<1> QED BY <1>1, <1>2, <1>5, <1>6 DEF g, k

\* The store of an append: the list keeps what it showed and shows c as well,
\* if no other update of it was under way.
LEMMA JoinsOK ==
  ASSUME ListInv, NEW c \in Conn, Joins(c), GoroutineTypes',
         since' \in [Peers \cup Proxies -> Nat],
         pc'[<<c, "serve">>] \in After,
         \A o \in Goroutines : \/ pc'[o] = pc[o] /\ it'[o] = it[o]
                               \/ pc'[o] \in After /\ RoundOK(o, pc'[o], it'[o])
  PROVE  ListInv'
<1> DEFINE g == <<c, "serve">>
           k == Kind(c)
           h == Loaded(g)
           hk == AppendHeap(heap[k], h, c)
           hd == AppendHeader(heap[k], h)
<1>1. /\ pc[g] = "append"
      /\ heap' = [heap EXCEPT ![k] = hk]
      /\ list' = [list EXCEPT ![k] = hd]
      /\ joined' = joined \cup {c}
      /\ race' = IF \E o \in Goroutines \ {g} : Updating(o, k) THEN race \cup {k} ELSE race
      /\ UNCHANGED <<sockets, proxyState, buffer, disp, log, input, crashed>>
  BY DEF Joins, At, Loaded
<1>2. /\ g \in Goroutines /\ k \in Lists /\ c \in Members(k) /\ c \notin joined
      /\ heap[k] \in Seq(Array(Members(k)))
      /\ h \in Header /\ InHeap(heap[k], h)
      /\ k \notin race => list[k] = h
  BY <1>1, LoadedOK
<1>3. /\ hk \in Seq(Array(Members(k)))
      /\ Grows(heap[k], hk)
      /\ hd \in Header /\ InHeap(hk, hd) /\ hd.len = h.len + 1
      /\ \A j \in 1..h.len : hk[hd.arr].at[j] = heap[k][h.arr].at[j]
      /\ \A n \in 1..Len(heap[k]) : \A j \in 1..Len(heap[k][n].at) :
           n # h.arr \/ j # h.len + 1 => hk[n].at[j] = heap[k][n].at[j]
  <2> HIDE DEF k, h
  <2>1. hk \in Seq(Array(Members(k))) /\ Grows(heap[k], hk)
    BY <1>2, AppendFacts
  <2>2. hd \in Header /\ InHeap(hk, hd) /\ hd.len = h.len + 1
    BY <1>2, AppendFacts
  <2>3. \A j \in 1..h.len : hk[hd.arr].at[j] = heap[k][h.arr].at[j]
    BY <1>2, AppendFacts
  <2>4. \A n \in 1..Len(heap[k]) : \A j \in 1..Len(heap[k][n].at) :
          n # h.arr \/ j # h.len + 1 => hk[n].at[j] = heap[k][n].at[j]
    BY <1>2, AppendFacts
  <2> QED BY <2>1, <2>2, <2>3, <2>4
<1>4. /\ Elements(hk, hd) = Elements(heap[k], h) \cup {c}
      /\ Distinct(heap[k], h) /\ c \notin Elements(heap[k], h) => Distinct(hk, hd)
  <2> HIDE DEF k, h
  <2> QED BY <1>2, AppendElements
<1> HIDE DEF k, h, hk, hd
<1>5. /\ DOMAIN heap = Lists /\ list \in [Lists -> Header] /\ race \subseteq Lists /\ joined \subseteq Conn
      /\ \A j \in Lists : heap[j] \in Seq(Array(Members(j))) /\ InHeap(heap[j], list[j])
      /\ ListsExact /\ BoundsPanicNeedsRace
  BY DEF ListInv, StoreInv, ListTypes
<1>6. /\ heap'[k] = hk /\ list'[k] = hd /\ race \subseteq race'
      /\ \A j \in Lists \ {k} : heap'[j] = heap[j] /\ list'[j] = list[j]
  BY <1>1, <1>2, <1>5
<1>7. ListTypes'
  <2>1. list' \in [Lists -> Header] /\ DOMAIN heap' = Lists
    BY <1>1, <1>2, <1>3, <1>5
  <2>2. \A j \in Lists : heap'[j] \in Seq(Array(Members(j))) /\ InHeap(heap'[j], list'[j])
    BY <1>2, <1>3, <1>5, <1>6
  <2>3. joined' \subseteq Conn /\ race' \subseteq Lists
    BY <1>1, <1>2, <1>5
  <2> QED BY <2>1, <2>2, <2>3 DEF ListTypes
<1>8. ListsExact'
  <2>1. ASSUME DistinctIds, NEW j \in Lists \ race'
        PROVE  Distinct(heap'[j], list'[j]) /\ Elements(heap'[j], list'[j]) = joined' \cap Members(j)
    <3>1. Distinct(heap[j], list[j]) /\ Elements(heap[j], list[j]) = joined \cap Members(j)
      BY <2>1, <1>5, <1>6 DEF ListsExact
    <3>2. CASE j = k
      BY <3>1, <3>2, <1>1, <1>2, <1>4, <1>6
    <3>3. CASE j # k
      <4>1. c \notin Members(j)
        BY <3>3, Kinds DEF k
      <4> QED BY <3>1, <3>3, <4>1, <1>1, <1>6
    <3> QED BY <3>2, <3>3
  <2> QED BY <2>1 DEF ListsExact, DistinctIds
<1>9. BoundsPanicNeedsRace'
  BY <1>1, <1>5, <1>6 DEF BoundsPanicNeedsRace
<1>10. RoundsOK' /\ FramesOK' /\ DispatchOK'
  BY <1>1, <1>2, <1>3, <1>6, <1>7, UpdateKeepsRounds DEF input
<1>11. AllPending'
  <2>1. ASSUME NEW o \in Goroutines PROVE PendingOK(o, pc[o], it[o])'
    <3>1. CASE pc'[o] \in After
      BY <3>1 DEF PendingOK, UpdateListAt, After
    <3>2. CASE pc'[o] \notin After
      <4>1. pc'[o] = pc[o] /\ it'[o] = it[o] /\ o # g
        BY <3>2
      <4>2. CASE UpdateList(o) # k
        <5>1. UpdateList(o) # "none" => UpdateList(o) \in Lists
          BY Kinds, GoroutineParts DEF ListInv, MoveInv, RoundsOK, RoundOK, UpdateList, UpdateListAt
        <5> QED BY <4>1, <4>2, <5>1, <1>6, PendingElsewhere
      <4>3. CASE UpdateList(o) = k /\ k \in race'
        BY <4>1, <4>3 DEF PendingOK, UpdateList
      <4>4. CASE UpdateList(o) = k /\ k \notin race'
        <5>1. ~Updating(o, k) /\ k \notin race
          BY <4>1, <4>4, <1>1
        <5>2. pc[o] \in {"scan", "cut"}
          BY <4>4, <5>1, <1>2 DEF Updating, UpdateList, UpdateListAt, Lists
        <5> DEFINE r == it[o]
        <5>3. /\ InHeap(heap[k], r) /\ r.len \in Nat /\ r.i \in Nat /\ r.arr \in Nat
              /\ RoundOK(o, pc[o], r) /\ PendingOK(o, pc[o], r) /\ UpdateListAt(o, pc[o], r) = k
          BY <5>2, <4>4, RemovalRound DEF UpdateList
        <5>4. list[k] = h /\ h.len \in Nat /\ k # "none"
          BY <5>1, <1>2 DEF Header, Lists
        <5> HIDE DEF r
        <5>5. CASE pc[o] = "scan"
          <6>1. r.len <= h.len /\ \A j \in 1..r.len : Shown(k, r, j) = Shown(k, h, j)
            BY <5>1, <5>3, <5>4, <5>5 DEF PendingOK
          <6>2. \A j \in 1..r.len : hk[r.arr].at[j] = heap[k][r.arr].at[j]
            <7>1. r.arr \in 1..Len(heap[k]) /\ Len(heap[k][r.arr].at) \in Nat
                  /\ r.len <= Len(heap[k][r.arr].at)
              BY <5>3, <1>2, ElementOfSeq, ArrayParts DEF InHeap
            <7>2. ASSUME NEW j \in 1..r.len
                  PROVE  j \in 1..Len(heap[k][r.arr].at) /\ j # h.len + 1
              BY <7>1, <6>1, <5>3, <5>4
            <7> QED BY <7>1, <7>2, <1>3
          <6>3. r.len <= hd.len /\ \A j \in 1..r.len : hk[r.arr].at[j] = hk[hd.arr].at[j]
            BY <6>1, <6>2, <5>3, <5>4, <1>3 DEF Shown
          <6>4. UpdateListAt(o, pc'[o], it'[o]) = k /\ pc'[o] = "scan" /\ it'[o] = r
            BY <4>1, <5>3, <5>5 DEF r
          <6> QED BY <6>3, <6>4, <1>6 DEF PendingOK, Shown
        <5>6. CASE pc[o] = "cut"
          <6>1. r.i <= h.len /\ Id[Shown(k, h, r.i)] = Id[r.cur] /\ r.i >= 1
            BY <5>1, <5>3, <5>4, <5>6 DEF PendingOK, RoundOK
          <6>2. r.i <= hd.len /\ Id[hk[hd.arr].at[r.i]] = Id[r.cur]
            <7>1. r.i \in 1..h.len /\ r.i <= hd.len
              BY <6>1, <5>3, <5>4, <1>3
            <7>2. hk[hd.arr].at[r.i] = heap[k][h.arr].at[r.i]
              BY <7>1, <1>3
            <7> QED BY <6>1, <7>1, <7>2 DEF Shown
          <6>3. UpdateListAt(o, pc'[o], it'[o]) = k /\ pc'[o] = "cut" /\ it'[o] = r
            BY <4>1, <5>3, <5>6 DEF r
          <6> QED BY <6>2, <6>3, <1>6 DEF PendingOK, Shown
        <5> QED BY <5>2, <5>5, <5>6
      <4> QED BY <4>2, <4>3, <4>4
    <3> QED BY <3>1, <3>2
  <2> QED BY <2>1 DEF AllPending
<1>12. Fresh'
  <2>1. ASSUME NEW d \in Conn, pc'[<<d, "serve">>] \in {"new", "append"}
        PROVE  d \notin joined'
    <3>1. d # c /\ pc'[<<d, "serve">>] = pc[<<d, "serve">>]
      BY <2>1, GoroutineParts DEF After
    <3> QED BY <3>1, <2>1, <1>1 DEF ListInv, MoveInv, Fresh
  <2> QED BY <2>1 DEF Fresh
<1>13. ChannelTypes'
  BY <1>1 DEF ListInv, QueueInv, ChannelTypes
<1>14. InputTypes' /\ SocketTypes' /\ ProxyTypes'
  BY <1>1 DEF ListInv, InputTypes, SocketTypes, ProxyTypes, sockets, proxyState, input
<1> QED BY <1>7, <1>8, <1>9, <1>10, <1>11, <1>12, <1>13, <1>14 DEF ListInv, MoveInv, StoreInv, QueueInv

\* A goroutine that moves on after an update.
LEMMA GotoMoves ==
  ASSUME ListInv, NEW g \in Goroutines, NEW label \in After, NEW r \in LoopState,
         Goto(g, label, r), RoundOK(g, label, r)
  PROVE  /\ GoroutineTypes' /\ pc'[g] \in After
         /\ \A o \in Goroutines : \/ pc'[o] = pc[o] /\ it'[o] = it[o]
                                  \/ pc'[o] \in After /\ RoundOK(o, pc'[o], it'[o])
<1>1. GoroutineTypes /\ label \in Labels
  BY DEF ListInv, MoveInv, After, Labels
<1>2. /\ pc'[g] = label /\ it'[g] = r /\ GoroutineTypes'
      /\ \A o \in Goroutines \ {g} : pc'[o] = pc[o] /\ it'[o] = it[o]
  BY <1>1 DEF Goto, GoroutineTypes
<1> QED BY <1>2

\* The round of a goroutine that enters a loop.
LEMMA EnterRound ==
  ASSUME ListInv, NEW g, NEW label \in {"toControls", "toProxies", "ownPeers", "proxyPeers", "toProxy", "findControl"}
  PROVE  LET r == RangeOver(LoopListAt(label)) IN r \in LoopState /\ RoundOK(g, label, r)
<1>1. LoopListAt(label) \in Lists
  BY DEF LoopListAt, Lists
<1>2. /\ RangeOver(LoopListAt(label)) \in LoopState /\ RangeOver(LoopListAt(label)).cur = Nil
      /\ InHeap(heap[LoopListAt(label)], RangeOver(LoopListAt(label)))
  BY <1>1, RangeOverOK DEF ListInv, StoreInv
<1> QED BY <1>2 DEF RoundOK, UpdateListAt

LEMMA AddPeerOK ==
  ASSUME ListInv, NEW p \in Peers, AddPeer(p)
  PROVE  ListInv'
<1>1. /\ Joins(p) /\ p \in Conn /\ <<p, "serve">> \in Goroutines
      /\ since' = [since EXCEPT ![p] = Len(log)]
      /\ Goto(<<p, "serve">>, "toControls", RangeOver("controllers"))
  BY GoroutineParts DEF AddPeer, Conn
<1>2. since' \in [Peers \cup Proxies -> Nat]
  <2>1. Len(log) \in Nat /\ since \in [Peers \cup Proxies -> Nat]
    BY LenProperties DEF ListInv, QueueInv, ChannelTypes
  <2> QED BY <2>1, <1>1
<1>3. /\ RangeOver("controllers") \in LoopState
      /\ RoundOK(<<p, "serve">>, "toControls", RangeOver("controllers"))
  BY EnterRound DEF LoopListAt
<1> QED BY <1>1, <1>2, <1>3, GotoMoves, JoinsOK DEF After

\* The two program counters of a connection whose pumps start.
LEMMA TwoMoves ==
  ASSUME ListInv, NEW c \in Conn, NEW label \in After, NEW r \in LoopState,
         pc' = [pc EXCEPT ![<<c, "serve">>] = label, ![<<c, "read">>] = "read"],
         it' = [it EXCEPT ![<<c, "serve">>] = r],
         RoundOK(<<c, "serve">>, label, r)
  PROVE  /\ GoroutineTypes' /\ pc'[<<c, "serve">>] \in After
         /\ \A o \in Goroutines : \/ pc'[o] = pc[o] /\ it'[o] = it[o]
                                  \/ pc'[o] \in After /\ RoundOK(o, pc'[o], it'[o])
<1> DEFINE s == <<c, "serve">>
           q == Pump(c)
<1>1. GoroutineTypes /\ label \in Labels /\ s \in Goroutines /\ q \in Goroutines /\ s # q
  BY GoroutineParts DEF ListInv, MoveInv, After, Labels
<1>2. pc' = [pc EXCEPT ![s] = label, ![q] = "read"] /\ it' = [it EXCEPT ![s] = r]
  BY DEF Pump
<1>3. RoundOK(s, label, r)
  OBVIOUS
<1> HIDE DEF s, q
<1>4. /\ pc'[s] = label /\ it'[s] = r /\ pc'[q] = "read" /\ it'[q] = it[q] /\ GoroutineTypes'
      /\ \A o \in Goroutines \ {s, q} : pc'[o] = pc[o] /\ it'[o] = it[o]
  <2>a. pc \in [Goroutines -> Labels] /\ it \in [Goroutines -> LoopState]
    BY <1>1 DEF GoroutineTypes
  <2>b. "read" \in Labels
    BY DEF Labels
  <2>c. pc' \in [Goroutines -> Labels]
    BY <1>1, <1>2, <2>a, <2>b
  <2>d. it' \in [Goroutines -> LoopState]
    BY <1>1, <1>2, <2>a
  <2>1. /\ pc \in [Goroutines -> Labels] /\ it \in [Goroutines -> LoopState]
        /\ pc' \in [Goroutines -> Labels] /\ it' \in [Goroutines -> LoopState]
    BY <2>a, <2>c, <2>d
  <2>2. pc'[s] = label /\ pc'[q] = "read" /\ \A o \in Goroutines \ {s, q} : pc'[o] = pc[o]
    BY <1>1, <1>2, <2>1
  <2>3. it'[s] = r /\ it'[q] = it[q] /\ \A o \in Goroutines \ {s, q} : it'[o] = it[o]
    BY <1>1, <1>2, <2>1
  <2> QED BY <2>1, <2>2, <2>3 DEF GoroutineTypes
<1>5. RoundOK(q, "read", it'[q])
  BY DEF RoundOK, LoopListAt, UpdateListAt
<1>6. \A o \in Goroutines : \/ pc'[o] = pc[o] /\ it'[o] = it[o]
                            \/ pc'[o] \in After /\ RoundOK(o, pc'[o], it'[o])
  BY <1>3, <1>4, <1>5 DEF After
<1> QED BY <1>4, <1>6 DEF s

LEMMA AddControlOK ==
  ASSUME ListInv, NEW c \in Controls, AddControl(c)
  PROVE  ListInv'
<1>1. /\ Joins(c) /\ c \in Conn
      /\ pc' = [pc EXCEPT ![<<c, "serve">>] = "ownPeers", ![<<c, "read">>] = "read"]
      /\ it' = [it EXCEPT ![<<c, "serve">>] = RangeOver("peers")]
      /\ UNCHANGED since
  BY DEF AddControl, Conn
<1>2. since' \in [Peers \cup Proxies -> Nat]
  BY <1>1 DEF ListInv, QueueInv, ChannelTypes
<1>3. RangeOver("peers") \in LoopState /\ RoundOK(<<c, "serve">>, "ownPeers", RangeOver("peers"))
  BY EnterRound DEF LoopListAt
<1> QED BY <1>1, <1>2, <1>3, TwoMoves, JoinsOK DEF After

LEMMA AddProxyOK ==
  ASSUME ListInv, NEW x \in Proxies, AddProxy(x)
  PROVE  ListInv'
<1> DEFINE n == Len(log) - (IF disp.pc = "local" THEN 1 ELSE 0)
<1>1. /\ Joins(x) /\ x \in Conn /\ <<x, "serve">> \in Goroutines
      /\ since' = [since EXCEPT ![x] = n]
      /\ IF x \in Writeable THEN Goto(<<x, "serve">>, "toProxy", RangeOver("peers"))
                            ELSE StartPumps(x)
  BY GoroutineParts DEF AddProxy, Conn
<1>2. n \in Nat
  <2>1. log \in Seq(Message) /\ (disp.pc = "local" => log # << >>)
    BY DEF ListInv, QueueInv, ChannelTypes, DispatchOK
  <2>2. Len(log) \in Nat /\ (log # << >> => Len(log) # 0)
    BY <2>1, LenProperties, EmptySeq
  <2> QED BY <2>1, <2>2
<1> HIDE DEF n
<1>3. since' \in [Peers \cup Proxies -> Nat]
  BY <1>1, <1>2 DEF ListInv, QueueInv, ChannelTypes
<1>4. CASE x \in Writeable
  <2>1. RangeOver("peers") \in LoopState /\ RoundOK(<<x, "serve">>, "toProxy", RangeOver("peers"))
    BY EnterRound DEF LoopListAt
  <2> QED BY <1>1, <1>3, <1>4, <2>1, GotoMoves, JoinsOK DEF After
<1>5. CASE x \notin Writeable
  <2>1. RoundOK(<<x, "serve">>, "done", Idle)
    BY DEF RoundOK, LoopListAt, UpdateListAt
  <2> QED BY <1>1, <1>3, <1>5, <2>1, IdleOK, TwoMoves, JoinsOK DEF After, StartPumps
<1> QED BY <1>4, <1>5

\* The store of a removal: the connection that is taken out is the one the
\* goroutine looked for, if nobody else used the list meanwhile.
LEMMA CutStoreOK ==
  ASSUME ListInv, NEW g \in Goroutines, CutStore(g)
  PROVE  ListInv'
<1> DEFINE r == it[g]
           k == Kind(r.cur)
           h == Loaded(g)
           hk == RemoveHeap(heap[k], h, r.i)
           hd == RemoveHeader(h)
<1>1. /\ pc[g] = "cutw"
      /\ heap' = [heap EXCEPT ![k] = hk]
      /\ list' = [list EXCEPT ![k] = hd]
      /\ joined' = joined \ {r.cur}
      /\ race' = IF DispatchList = k \/ \E o \in Goroutines \ {g} : InUse(o, k)
                   THEN race \cup {k} ELSE race
      /\ AfterRemoval(g, r.cur)
      /\ UNCHANGED <<sockets, proxyState, channel, input, crashed>>
  BY DEF CutStore, At, Loaded
<1>2. /\ r \in LoopState /\ r.cur \in Conn /\ r.arr \in Nat /\ r.len \in Nat /\ r.i \in Nat
      /\ k \in Lists /\ UpdateListAt(g, "cutw", r) = k
      /\ InHeap(heap[k], r) /\ RoundOK(g, "cutw", r) /\ PendingOK(g, "cutw", r)
      /\ list[k] \in Header /\ heap[k] \in Seq(Array(Members(k)))
  BY <1>1, RemovalRound
<1>3. /\ h \in Header /\ InHeap(heap[k], h) /\ r.i \in 1..h.len
      /\ k \notin race => list[k] = h /\ Id[heap[k][h.arr].at[r.i]] = Id[r.cur]
  <2>1. h \in Header /\ h.arr = r.arr /\ h.len = r.len
    BY <1>2 DEF Loaded, Header
  <2>2. r.i \in 1..h.len
    BY <1>2, <2>1 DEF RoundOK
  <2>3. InHeap(heap[k], h)
    BY <1>2, <2>1 DEF InHeap
  <2>4. ASSUME k \notin race PROVE list[k] = h /\ Id[heap[k][h.arr].at[r.i]] = Id[r.cur]
    <3>1. list[k].arr = r.arr /\ list[k].len = r.len /\ Id[Shown(k, list[k], r.i)] = Id[r.cur]
      BY <1>2, <2>4 DEF PendingOK, Lists
    <3>2. list[k] = h
      BY <3>1, <2>1, <1>2 DEF Header
    <3> QED BY <3>1, <3>2 DEF Shown
  <2> QED BY <2>1, <2>2, <2>3, <2>4
<1>4. /\ hk \in Seq(Array(Members(k))) /\ Grows(heap[k], hk)
      /\ hd \in Header /\ InHeap(hk, hd)
  <2> HIDE DEF k, h, r
  <2>1. hk \in Seq(Array(Members(k))) /\ Grows(heap[k], hk)
    BY <1>2, <1>3, RemoveFacts
  <2>2. hd \in Header /\ InHeap(hk, hd)
    BY <1>2, <1>3, RemoveFacts
  <2> QED BY <2>1, <2>2
<1>5. Distinct(heap[k], h) => /\ Elements(hk, hd) = Elements(heap[k], h) \ {heap[k][h.arr].at[r.i]}
                              /\ Distinct(hk, hd)
  <2> HIDE DEF k, h, r
  <2> QED BY <1>2, <1>3, RemoveElements
<1>6. heap[k][h.arr].at[r.i] \in Elements(heap[k], h)
  BY <1>3 DEF Elements
<1> DEFINE v == r.cur
<1>7. /\ v \in Conn /\ v \in Members(k) /\ \A j \in Lists \ {k} : v \notin Members(j)
  BY <1>2, Kinds
<1>8. joined' = joined \ {v} /\ AfterRemoval(g, v)
  BY <1>1
<1>9. k \notin race => Id[heap[k][h.arr].at[r.i]] = Id[v]
  BY <1>3
<1> HIDE DEF k, h, hk, hd, v
<1>10. /\ DOMAIN heap = Lists /\ list \in [Lists -> Header] /\ race \subseteq Lists /\ joined \subseteq Conn
       /\ \A j \in Lists : heap[j] \in Seq(Array(Members(j))) /\ InHeap(heap[j], list[j])
       /\ ListsExact /\ BoundsPanicNeedsRace
  BY DEF ListInv, StoreInv, ListTypes
<1>11. /\ heap'[k] = hk /\ list'[k] = hd /\ race \subseteq race'
       /\ \A j \in Lists \ {k} : heap'[j] = heap[j] /\ list'[j] = list[j]
  BY <1>1, <1>2, <1>10
<1>12. ListTypes'
  <2>1. list' \in [Lists -> Header] /\ DOMAIN heap' = Lists
    BY <1>1, <1>2, <1>4, <1>10
  <2>2. \A j \in Lists : heap'[j] \in Seq(Array(Members(j))) /\ InHeap(heap'[j], list'[j])
    BY <1>2, <1>4, <1>10, <1>11
  <2>3. joined' \subseteq Conn /\ race' \subseteq Lists
    BY <1>1, <1>2, <1>10
  <2> QED BY <2>1, <2>2, <2>3 DEF ListTypes
<1>13. ListsExact'
  <2>1. ASSUME DistinctIds, NEW j \in Lists \ race'
        PROVE  Distinct(heap'[j], list'[j]) /\ Elements(heap'[j], list'[j]) = joined' \cap Members(j)
    <3>1. Distinct(heap[j], list[j]) /\ Elements(heap[j], list[j]) = joined \cap Members(j)
      BY <2>1, <1>10, <1>11 DEF ListsExact
    <3>2. CASE j = k
      <4>1. list[k] = h /\ k \notin race
        BY <3>2, <2>1, <1>3, <1>11
      <4>2. heap[k][h.arr].at[r.i] = v
        <5>1. heap[k][h.arr].at[r.i] \in Members(k)
          BY <3>1, <3>2, <4>1, <1>6
        <5> HIDE DEF r
        <5> QED BY <5>1, <4>1, <1>2, <1>7, <1>9, <2>1 DEF DistinctIds
      <4>3. Elements(hk, hd) = (joined \cap Members(k)) \ {v} /\ Distinct(hk, hd)
        BY <3>1, <3>2, <4>1, <4>2, <1>5
      <4> QED BY <4>3, <3>2, <1>8, <1>11
    <3>3. CASE j # k
      BY <3>1, <3>3, <2>1, <1>7, <1>8, <1>11
    <3> QED BY <3>2, <3>3
  <2> QED BY <2>1 DEF ListsExact, DistinctIds
<1>14. BoundsPanicNeedsRace'
  BY <1>1, <1>10, <1>11 DEF BoundsPanicNeedsRace
<1>15. /\ GoroutineTypes' /\ pc'[g] \in After
       /\ \A o \in Goroutines : \/ pc'[o] = pc[o] /\ it'[o] = it[o]
                                \/ pc'[o] \in After /\ RoundOK(o, pc'[o], it'[o])
  <2>1. PICK label \in {"findControl", "close", "closeControl", "toProxy"}, s \in LoopState :
          Goto(g, label, s) /\ RoundOK(g, label, s)
    BY <1>7, <1>8, AfterRemovalGoto
  <2> QED BY <2>1, GotoMoves DEF After
<1>16. RoundsOK' /\ FramesOK' /\ DispatchOK'
  BY <1>1, <1>2, <1>4, <1>11, <1>12, <1>15, UpdateKeepsRounds DEF input, channel
<1>17. AllPending'
  <2>1. ASSUME NEW o \in Goroutines PROVE PendingOK(o, pc[o], it[o])'
    <3>1. CASE pc'[o] \in After
      BY <3>1 DEF PendingOK, UpdateListAt, After
    <3>2. CASE pc'[o] \notin After
      <4>1. pc'[o] = pc[o] /\ it'[o] = it[o] /\ o # g
        BY <3>2, <1>15
      <4>2. CASE UpdateList(o) # k
        <5>1. UpdateList(o) # "none" => UpdateList(o) \in Lists
          BY Kinds, GoroutineParts DEF ListInv, MoveInv, RoundsOK, RoundOK, UpdateList, UpdateListAt
        <5> QED BY <4>1, <4>2, <5>1, <1>11, PendingElsewhere
      <4>3. CASE UpdateList(o) = k
        <5>1. k \in race'
          BY <4>1, <4>3, <1>1 DEF InUse
        <5> QED BY <4>1, <4>3, <5>1 DEF PendingOK, UpdateList
      <4> QED BY <4>2, <4>3
    <3> QED BY <3>1, <3>2
  <2> QED BY <2>1 DEF AllPending
<1>18. Fresh'
  <2>1. ASSUME NEW d \in Conn, pc'[<<d, "serve">>] \in {"new", "append"}
        PROVE  d \notin joined'
    <3>1. pc'[<<d, "serve">>] = pc[<<d, "serve">>]
      BY <2>1, <1>15, GoroutineParts DEF After
    <3> QED BY <3>1, <2>1, <1>8 DEF ListInv, MoveInv, Fresh
  <2> QED BY <2>1 DEF Fresh
<1>19. ChannelTypes' /\ InputTypes' /\ SocketTypes' /\ ProxyTypes'
  BY <1>1 DEF ListInv, QueueInv, ChannelTypes, InputTypes, SocketTypes, ProxyTypes,
              channel, sockets, proxyState, input
<1> QED BY <1>12, <1>13, <1>14, <1>15, <1>16, <1>17, <1>18, <1>19 DEF ListInv, MoveInv, StoreInv, QueueInv

----------------------------------------------------------------------------
(* One lemma per action: the dispatcher.                                   *)

\* A step of the dispatcher moves no goroutine and changes no list.
LEMMA DispatcherOK ==
  ASSUME ListInv, UNCHANGED <<lists, ws, view, direct, since, proxyState, input, pc, it, crashed>>,
         buffer' \in Seq(Message), Len(buffer') <= Capacity, log' \in Seq(Message),
         inbox' \in [Peers \cup Writeable -> Seq(Message)],
         disp' \in [pc : {"idle", "local", "remote"}, msg : Message \cup {Nil}, it : LoopState],
         DispatchOK'
  PROVE  ListInv'
<1>1. MoveInv' /\ StoreInv'
  BY StayOK, StoreStays DEF input
<1>2. QueueInv'
  BY DEF ListInv, QueueInv, ChannelTypes
<1>3. InputTypes' /\ SocketTypes' /\ ProxyTypes'
  BY DEF ListInv, InputTypes, SocketTypes, ProxyTypes, proxyState, input
<1> QED BY <1>1, <1>2, <1>3 DEF ListInv

LEMMA DispatchStepOK ==
  ASSUME ListInv, Dispatch
  PROVE  ListInv'
<1>1. /\ buffer # << >> /\ buffer' = Tail(buffer) /\ log' = Append(log, Head(buffer))
      /\ disp' = [pc |-> "local", msg |-> Head(buffer), it |-> RangeOver("peers")]
      /\ UNCHANGED <<lists, sockets, proxyState, since, input, pc, it, crashed>>
  BY DEF Dispatch
<1>2. /\ buffer \in Seq(Message) /\ Len(buffer) <= Capacity /\ log \in Seq(Message)
      /\ inbox \in [Peers \cup Writeable -> Seq(Message)]
  BY DEF ListInv, QueueInv, ChannelTypes, SocketTypes
<1>3. Head(buffer) \in Message /\ buffer' \in Seq(Message) /\ Len(buffer') = Len(buffer) - 1
      /\ Len(buffer) \in Nat
  BY <1>1, <1>2, HeadTailProperties, LenProperties
<1>4. Len(buffer') <= Capacity
  BY <1>2, <1>3, ConstantTypes
<1>5. log' \in Seq(Message) /\ log' # << >>
  <2>1. log' \in Seq(Message) /\ Len(log') = Len(log) + 1 /\ Len(log) \in Nat
    BY <1>1, <1>2, <1>3, AppendProperties, LenProperties
  <2> QED BY <2>1, EmptySeq
<1>6. RangeOver("peers") \in LoopState /\ InHeap(heap["peers"], RangeOver("peers"))
  BY RangeOverOK DEF ListInv, StoreInv, Lists
<1>7. disp' \in [pc : {"idle", "local", "remote"}, msg : Message \cup {Nil}, it : LoopState]
  BY <1>1, <1>3, <1>6
<1>8. DispatchOK'
  BY <1>1, <1>3, <1>5, <1>6 DEF DispatchOK, DispatchList, lists
<1> QED BY <1>1, <1>2, <1>3, <1>4, <1>5, <1>7, <1>8, DispatcherOK DEF sockets

\* A message written by the dispatcher.
LEMMA BroadcastRoundOK ==
  ASSUME ListInv, disp.pc \in {"local", "remote"},
         inbox' = [x \in Peers \cup Writeable |->
                     IF x \in DispatchTouches /\ ws[x] = "open"
                       THEN Append(inbox[x], disp.msg) ELSE inbox[x]],
         \/ disp' = NoDispatch
         \/ disp' = [disp EXCEPT !.it = NextRound(DispatchList, @)]
         \/ disp' = [disp EXCEPT !.pc = "remote", !.it = RangeOver("proxies")],
         UNCHANGED <<lists, ws, view, direct, proxyState, buffer, log, since, input, pc, it, crashed>>
  PROVE  ListInv'
<1> DEFINE D == [pc : {"idle", "local", "remote"}, msg : Message \cup {Nil}, it : LoopState]
<1>1. /\ disp \in D /\ disp.msg \in Message /\ DispatchList \in Lists
      /\ InHeap(heap[DispatchList], disp.it) /\ disp.it \in LoopState /\ log # << >>
      /\ buffer \in Seq(Message) /\ Len(buffer) <= Capacity /\ log \in Seq(Message)
      /\ inbox \in [Peers \cup Writeable -> Seq(Message)]
  BY DEF ListInv, QueueInv, ChannelTypes, DispatchOK, DispatchList, Lists, SocketTypes
<1>2. inbox' \in [Peers \cup Writeable -> Seq(Message)]
  BY <1>1, AppendProperties
<1>3. UNCHANGED <<lists, ws, view, direct, since, proxyState, input, pc, it, crashed>>
  OBVIOUS
<1>4. CASE disp' = NoDispatch
  <2>1. disp' \in D /\ DispatchOK'
    BY <1>4, IdleOK DEF NoDispatch, DispatchOK
  <2> QED BY <2>1, <1>1, <1>2, <1>3, DispatcherOK
<1>5. CASE disp' = [disp EXCEPT !.it = NextRound(DispatchList, @)]
  <2> DEFINE r == NextRound(DispatchList, disp.it)
  <2>1. r \in LoopState /\ InHeap(heap[DispatchList], r)
    BY <1>1, NextRoundOK DEF ListInv, StoreInv
  <2>2. disp' = [disp EXCEPT !.it = r]
    BY <1>5
  <2> HIDE DEF r
  <2>3. disp' \in D /\ disp'.pc = disp.pc /\ disp'.msg = disp.msg /\ disp'.it = r
    BY <1>1, <2>1, <2>2
  <2>4. DispatchOK'
    BY <2>1, <2>3, <1>1 DEF DispatchOK, DispatchList, lists
  <2> QED BY <2>3, <2>4, <1>1, <1>2, <1>3, DispatcherOK
<1>6. CASE disp' = [disp EXCEPT !.pc = "remote", !.it = RangeOver("proxies")]
  <2> DEFINE r == RangeOver("proxies")
  <2>1. r \in LoopState /\ InHeap(heap["proxies"], r)
    BY RangeOverOK DEF ListInv, StoreInv, Lists
  <2>2. disp' = [disp EXCEPT !.pc = "remote", !.it = r]
    BY <1>6
  <2> HIDE DEF r
  <2>3. disp' \in D /\ disp'.pc = "remote" /\ disp'.msg = disp.msg /\ disp'.it = r
    BY <1>1, <2>1, <2>2
  <2>4. DispatchOK'
    BY <2>1, <2>3, <1>1 DEF DispatchOK, DispatchList, lists
  <2> QED BY <2>3, <2>4, <1>1, <1>2, <1>3, DispatcherOK
<1> QED BY <1>4, <1>5, <1>6

LEMMA LocalBroadcastOK ==
  ASSUME ListInv, LocalBroadcast
  PROVE  ListInv'
BY BroadcastRoundOK DEF LocalBroadcast, BroadcastRound

LEMMA RemoteBroadcastOK ==
  ASSUME ListInv, RemoteBroadcast
  PROVE  ListInv'
BY BroadcastRoundOK DEF RemoteBroadcast, BroadcastRound

----------------------------------------------------------------------------
(* The invariant and what follows from it.                                 *)

LEMMA InitOK == Init => ListInv
<1> SUFFICES ASSUME Init PROVE ListInv
  OBVIOUS
<1>1. /\ EmptySlice \in Header /\ EmptySlice.len = 0 /\ EmptySlice.arr = 1
      /\ \A T : EmptyHeap \in Seq(Array(T)) /\ InHeap(EmptyHeap, EmptySlice)
  <2>1. ASSUME NEW T PROVE EmptyHeap \in Seq(Array(T)) /\ InHeap(EmptyHeap, EmptySlice)
    <3>1. [cap |-> 0, at |-> << >>] \in Array(T)
      BY DEF Array
    <3> QED BY <3>1 DEF EmptyHeap, EmptySlice, InHeap
  <2> QED BY <2>1 DEF EmptySlice, Header
<1>2. StoreInv
  <2>1. ListTypes
    BY <1>1 DEF Init, ListTypes
  <2>2. ASSUME NEW k \in Lists
        PROVE  Distinct(heap[k], list[k]) /\ Elements(heap[k], list[k]) = joined \cap Members(k)
    <3>1. list[k].len = 0 /\ joined = {}
      BY <1>1 DEF Init
    <3>2. 1..list[k].len = {}
      BY <3>1
    <3> QED BY <3>1, <3>2 DEF Distinct, Elements
  <2>3. BoundsPanicNeedsRace
    BY DEF Init, BoundsPanicNeedsRace
  <2> QED BY <2>1, <2>2, <2>3 DEF StoreInv, ListsExact
<1>3. GoroutineTypes /\ \A g \in Goroutines : pc[g] \in {"new", "none"}
  BY IdleOK DEF Init, GoroutineTypes, Labels
<1>4. RoundsOK /\ AllPending
  BY <1>3 DEF RoundsOK, RoundOK, AllPending, PendingOK, LoopListAt, UpdateListAt
<1>5. FramesOK /\ Fresh
  BY <1>3, GoroutineParts DEF FramesOK, FrameOK, Fresh, Init
<1>6. QueueInv
  BY IdleOK, ConstantTypes DEF Init, QueueInv, ChannelTypes, DispatchOK, NoDispatch
<1>7. InputTypes /\ SocketTypes /\ ProxyTypes
  BY ConstantTypes DEF Init, InputTypes, SocketTypes, ProxyTypes, NoEntry
<1> QED BY <1>2, <1>3, <1>4, <1>5, <1>6, <1>7 DEF ListInv, MoveInv

LEMMA StutterOK ==
  ASSUME ListInv, UNCHANGED vars
  PROVE  ListInv'
<1>1. UNCHANGED <<lists, sockets, proxyState, channel, input, pc, it, crashed>>
  BY DEF vars
<1> QED BY <1>1, StayOK, OnlyMoves DEF input

LEMMA StepOK == ListInv /\ [Next]_vars => ListInv'
<1> SUFFICES ASSUME ListInv, [Next]_vars PROVE ListInv'
  OBVIOUS
<1>0. Peers \subseteq Conn /\ Controls \subseteq Conn /\ Proxies \subseteq Conn
  BY DEF Conn
<1>1. ASSUME NEW c \in Conn, Accept(c) \/ ReadFails(c) PROVE ListInv'
  BY <1>1, AcceptOK, ReadFailsOK
<1>2. ASSUME NEW p \in Peers, PeerReads(p) PROVE ListInv'
  BY <1>2, PeerReadsOK
<1>3. ASSUME NEW c \in Controls, ControlReads(c) \/ ControlReadsMalformed(c) PROVE ListInv'
  BY <1>3, ControlReadsOK, CrashOK DEF ControlReadsMalformed
<1>4. ASSUME NEW x \in Proxies, ProxyReads(x) PROVE ListInv'
  BY <1>4, ProxyReadsOK
<1>5. ASSUME Dispatcher PROVE ListInv'
  BY <1>5, DispatchStepOK, LocalBroadcastOK, RemoteBroadcastOK, CrashOK DEF Dispatcher, DispatchPanics
<1>6. ASSUME NEW c \in Conn, Teardown(c) \/ Panics(c) PROVE ListInv'
  <2>1. Pump(c) \in Goroutines
    BY GoroutineParts
  <2> QED BY <1>6, <2>1, ScanOK, CutOK, CutStoreOK, CloseOK, CrashOK, WritePanicsOK
          DEF Teardown, Panics, PumpPanics
<1>7. ASSUME NEW p \in Peers, PeerServe(p) \/ PeerPump(p) PROVE ListInv'
  <2>1. <<p, "serve">> \in Goroutines /\ Pump(p) \in Goroutines /\ p \in Conn
    BY <1>0, GoroutineParts
  <2>2. CASE PeerServe(p)
    BY <2>1, <2>2, AddPeerOK, PeerToControlsOK, PeerToProxiesOK, WritePanicsOK DEF PeerServe
  <2>3. CASE PeerPump(p)
    BY <2>1, <2>3, <1>6, NotifyOK, EnqueueOK, FindControlOK, CloseControlOK, PeerToControlsOK,
       PeerToProxiesOK DEF PeerPump
  <2> QED BY <1>7, <2>2, <2>3
<1>8. ASSUME NEW c \in Controls, ControlServe(c) \/ ControlPump(c) PROVE ListInv'
  <2>1. <<c, "serve">> \in Goroutines /\ c \in Conn
    BY <1>0, GoroutineParts
  <2>2. CASE ControlServe(c)
    BY <2>1, <2>2, AddControlOK, ControlOwnPeersOK, ControlProxyPeerOK, ControlProxyPeerSendOK,
       ControlNextProxyOK, WritePanicsOK DEF ControlServe
  <2>3. CASE ControlPump(c)
    BY <2>1, <2>3, <1>6, RelayOK, RelayToProxyOK DEF ControlPump
  <2> QED BY <1>8, <2>2, <2>3
<1>9. ASSUME NEW x \in Proxies, ProxyServe(x) \/ ProxyPump(x) PROVE ListInv'
  <2>1. <<x, "serve">> \in Goroutines /\ Pump(x) \in Goroutines /\ x \in Conn
    BY <1>0, GoroutineParts
  <2>2. CASE ProxyServe(x)
    BY <2>1, <2>2, AddProxyOK, ProxyToFarEndOK, WritePanicsOK DEF ProxyServe
  <2>3. CASE ProxyPump(x)
    BY <2>1, <2>3, <1>6, ProxyInformsOK, NotifyOK, EnqueueOK, RelayOK, ProxyToFarEndOK DEF ProxyPump
  <2> QED BY <1>9, <2>2, <2>3
<1>10. CASE UNCHANGED vars
  BY <1>10, StutterOK
<1> QED BY <1>1, <1>2, <1>3, <1>4, <1>5, <1>7, <1>8, <1>9, <1>10 DEF Next, ClientStep

\* ListInv holds in every state of a named websocket.
THEOREM ListInvariant == Spec => []ListInv
BY InitOK, StepOK, PTL DEF Spec

\* Every variable keeps its type, the headers in the lists are readable, and
\* broadcastBuffer never holds more than its capacity, whatever the number of
\* connections (socket.go:26-43, 67).
THEOREM TypeCorrect == Spec => []TypeOK
<1>1. ListInv => TypeOK
  BY DEF ListInv, MoveInv, StoreInv, QueueInv, TypeOK
<1> QED BY <1>1, ListInvariant, PTL

\* Every list whose updates never overlapped another use holds exactly the
\* connections that joined and did not leave, each of them once: appends and
\* removals by index and by id are correct where they are not concurrent
\* (peer.go:147, 171-176; control.go:131, 155-160; proxy.go:213, 229-234).
THEOREM ListsCorrect == Spec => []ListsExact
<1>1. ListInv => ListsExact
  BY DEF ListInv, StoreInv
<1> QED BY <1>1, ListInvariant, PTL

-----------------------------------------------------------------------------
(* What the members get.                                                   *)

Facts == INSTANCE SequenceFacts

\* Filter is the operator the facts about sequences are about.
LEMMA SameFilter ==
  ASSUME NEW s, NEW T
  PROVE  Filter(s, T) = Facts!Filter(s, T)
BY DEF Filter, Facts!Filter

LEMMA NothingOfNothing ==
  ASSUME NEW T
  PROVE  Filter(<< >>, T) = << >>
BY SameFilter, Facts!FilterEmpty

LEMMA Kept1 ==
  ASSUME NEW S, NEW s \in Seq(S), NEW e \in S, NEW T
  PROVE  Filter(Append(s, e), T) = IF e \in T THEN Append(Filter(s, T), e) ELSE Filter(s, T)
<1>1. Facts!Filter(Append(s, e), T) =
        IF e \in T THEN Append(Facts!Filter(s, T), e) ELSE Facts!Filter(s, T)
  BY Facts!FilterAppend
<1> QED BY <1>1, SameFilter

\* One more message of the log: kept at the end, or dropped.
LEMMA OneMore ==
  ASSUME NEW S, NEW s \in Seq(S), NEW n \in Nat, NEW m \in 1..Len(s), n < m, NEW T
  PROVE  Filter(SubSeq(s, n + 1, m), T) =
           IF s[m] \in T THEN Append(Filter(SubSeq(s, n + 1, m - 1), T), s[m])
                         ELSE Filter(SubSeq(s, n + 1, m - 1), T)
<1> DEFINE q == SubSeq(s, n + 1, m - 1)
<1>1. Len(s) \in Nat /\ s[m] \in S
  BY LenProperties, ElementOfSeq
<1>2. q \in Seq(S) /\ Len(q) = (m - 1) - n /\ \A j \in 1..((m - 1) - n) : q[j] = s[n + j]
  BY <1>1, SubSeqProperties
<1> DEFINE p == SubSeq(s, n + 1, m)
<1>3. p \in Seq(S) /\ Len(p) = m - n /\ \A j \in 1..(m - n) : p[j] = s[n + j]
  BY <1>1, SubSeqProperties
<1> HIDE DEF p, q
<1>4. p = Append(q, s[m])
  <2>1. /\ Append(q, s[m]) \in Seq(S) /\ Len(Append(q, s[m])) = m - n
        /\ \A j \in 1..(m - n) : Append(q, s[m])[j] = IF j = m - n THEN s[m] ELSE q[j]
    BY <1>1, <1>2, AppendProperties
  <2>2. \A j \in 1..(m - n) : p[j] = Append(q, s[m])[j]
    BY <1>2, <1>3, <2>1
  <2> QED BY <1>3, <2>1, <2>2, SeqEqual
<1>5. Filter(Append(q, s[m]), T) = IF s[m] \in T THEN Append(Filter(q, T), s[m]) ELSE Filter(q, T)
  <2> DEFINE e == s[m]
  <2>1. q \in Seq(S) /\ e \in S
    BY <1>1, <1>2
  <2> HIDE DEF e
  <2>2. Filter(Append(q, e), T) = IF e \in T THEN Append(Filter(q, T), e) ELSE Filter(q, T)
    BY <2>1, Kept1
  <2> QED BY <2>2 DEF e
<1> QED BY <1>4, <1>5 DEF p, q


----------------------------------------------------------------------------
(* Loops over a list without a race.                                       *)

\* A loop begins with all of its list.
LEMMA RangeSees ==
  ASSUME ListInv, NEW k \in Lists
  PROVE  RoundSees(k, RangeOver(k))
<1>1. list[k] \in Header /\ RangeOver(k).arr = list[k].arr /\ RangeOver(k).len = list[k].len
      /\ RangeOver(k).i = 0 /\ RangeOver(k).cur = Nil
  BY RangeOverOK DEF ListInv, StoreInv, ListTypes
<1>2. list[k].len \in Nat
  BY <1>1 DEF Header
<1> QED BY <1>1, <1>2 DEF RoundSees, Shown

\* Its next round loads the next element.
LEMMA NextSees ==
  ASSUME NEW k \in Lists, NEW r \in LoopState, RoundSees(k, r), ~Last(r)
  PROVE  /\ RoundSees(k, NextRound(k, r)) /\ NextRound(k, r).i = r.i + 1
         /\ NextRound(k, r).arr = r.arr /\ NextRound(k, r).len = r.len
<1>1. r = [arr |-> r.arr, len |-> r.len, i |-> r.i, cur |-> r.cur] /\ r.i \in Nat /\ r.len \in Nat
  BY DEF LoopState
<1>2. r.i < r.len
  BY <1>1 DEF Last
<1>3. /\ NextRound(k, r).arr = r.arr /\ NextRound(k, r).len = r.len
      /\ NextRound(k, r).i = r.i + 1 /\ NextRound(k, r).cur = Shown(k, r, r.i + 1)
  BY <1>1, <1>2 DEF NextRound, Shown
<1> QED BY <1>1, <1>2, <1>3 DEF RoundSees, Shown

\* On a list without a race a loop sees connections that are in the list.
LEMMA SeesMembers ==
  ASSUME ListInv, DistinctIds, NEW k \in Lists \ race, NEW r \in LoopState, RoundSees(k, r)
  PROVE  /\ \A j \in 1..r.len : Shown(k, r, j) \in joined \cap Members(k)
         /\ \A i, j \in 1..r.len : Shown(k, r, i) = Shown(k, r, j) => i = j
<1>1. /\ list[k].len \in Nat /\ r.len \in Nat /\ r.len <= list[k].len
      /\ \A j \in 1..r.len : Shown(k, r, j) = Shown(k, list[k], j)
  BY DEF ListInv, StoreInv, ListTypes, Header, LoopState, RoundSees
<1>2. /\ Distinct(heap[k], list[k])
      /\ Elements(heap[k], list[k]) = joined \cap Members(k)
  BY DEF ListInv, StoreInv, ListsExact
<1>3. \A j \in 1..r.len : j \in 1..list[k].len
  BY <1>1
<1> QED BY <1>1, <1>2, <1>3 DEF Distinct, Elements, Shown

\* Whoever is in a list without a race is shown by its header.
LEMMA MemberShown ==
  ASSUME ListInv, DistinctIds, NEW c \in joined, Kind(c) \notin race
  PROVE  \E j \in 1..list[Kind(c)].len : Shown(Kind(c), list[Kind(c)], j) = c
<1>1. c \in Conn /\ Kind(c) \in Lists /\ c \in Members(Kind(c))
  BY Kinds DEF ListInv, StoreInv, ListTypes
<1> QED BY <1>1 DEF ListInv, StoreInv, ListsExact, Elements, Shown

\* An append to list k leaves what a header shows as it was, and the list begins as before.
LEMMA JoinKeepsSeen ==
  ASSUME ListInv, NEW c \in Conn, Joins(c), NEW k \in Lists, k \notin race',
         NEW r \in LoopState, InHeap(heap[k], r), r.len <= list[k].len,
         \A j \in 1..r.len : Shown(k, r, j) = Shown(k, list[k], j)
  PROVE  /\ r.len <= list'[k].len
         /\ \A j \in 1..r.len : heap'[k][r.arr].at[j] = Shown(k, r, j)
         /\ \A j \in 1..r.len : heap'[k][list'[k].arr].at[j] = Shown(k, r, j)
<1> DEFINE g == <<c, "serve">>
           q == Kind(c)
           h == Loaded(g)
           hk == AppendHeap(heap[q], h, c)
           hd == AppendHeader(heap[q], h)
<1>1. /\ pc[g] = "append"
      /\ heap' = [heap EXCEPT ![q] = hk]
      /\ list' = [list EXCEPT ![q] = hd]
      /\ race' = IF \E o \in Goroutines \ {g} : Updating(o, q) THEN race \cup {q} ELSE race
  BY DEF Joins, At, Loaded
<1>2. /\ q \in Lists /\ heap[q] \in Seq(Array(Members(q)))
      /\ h \in Header /\ InHeap(heap[q], h) /\ (q \notin race => list[q] = h)
      /\ c \in Members(q)
  BY <1>1, LoadedOK
<1>3. list \in [Lists -> Header] /\ DOMAIN heap = Lists
  BY DEF ListInv, StoreInv, ListTypes
<1>4. CASE k # q
  <2>1. heap'[k] = heap[k] /\ list'[k] = list[k]
    BY <1>1, <1>2, <1>3, <1>4
  <2> QED BY <2>1 DEF Shown
<1>5. CASE k = q
  <2>1. list[k] = h /\ heap'[k] = hk /\ list'[k] = hd
    BY <1>1, <1>2, <1>3, <1>5
  <2> HIDE DEF g, q, h
  <2>2. /\ hd \in Header /\ hd.len = h.len + 1
        /\ \A j \in 1..h.len : hk[hd.arr].at[j] = heap[q][h.arr].at[j]
        /\ \A n \in 1..Len(heap[q]) : \A j \in 1..Len(heap[q][n].at) :
             n # h.arr \/ j # h.len + 1 => hk[n].at[j] = heap[q][n].at[j]
    BY <1>2, AppendFacts
  <2>3. /\ r.arr \in 1..Len(heap[q]) /\ Len(heap[q][r.arr].at) \in Nat /\ r.len \in Nat
        /\ r.len <= Len(heap[q][r.arr].at) /\ h.len \in Nat
    BY <1>2, <1>5, ElementOfSeq, ArrayParts DEF InHeap, LoopState, Header
  <2> HIDE DEF hk, hd
  <2>4. ASSUME NEW j \in 1..r.len
        PROVE  j \in 1..h.len /\ j \in 1..Len(heap[q][r.arr].at) /\ j # h.len + 1
    BY <2>1, <2>3
  <2>5. \A j \in 1..r.len : hk[r.arr].at[j] = heap[k][r.arr].at[j]
    BY <2>2, <2>3, <2>4, <1>5
  <2>6. \A j \in 1..r.len : hk[hd.arr].at[j] = Shown(k, list[k], j)
    BY <2>1, <2>2, <2>4, <1>5 DEF Shown
  <2>7. r.len <= hd.len
    BY <2>1, <2>2, <2>3
  <2> QED BY <2>1, <2>5, <2>6, <2>7 DEF Shown
<1> QED BY <1>4, <1>5

\* A removal leaves every list without a race as it was, except for the list it
\* is made from, which then nobody is using.
LEMMA CutElsewhere ==
  ASSUME ListInv, NEW g \in Goroutines, CutStore(g), NEW k \in Lists, k \notin race'
  PROVE  /\ k \notin race
         /\ \/ heap'[k] = heap[k] /\ list'[k] = list[k]
            \/ /\ k = Kind(it[g].cur) /\ DispatchList # k
               /\ \A o \in Goroutines \ {g} : ~InUse(o, k)
<1> DEFINE q == Kind(it[g].cur)
<1>1. /\ \E x : heap' = [heap EXCEPT ![q] = x]
      /\ \E x : list' = [list EXCEPT ![q] = x]
      /\ race' = IF DispatchList = q \/ \E o \in Goroutines \ {g} : InUse(o, q)
                   THEN race \cup {q} ELSE race
  BY DEF CutStore
<1>2. DOMAIN heap = Lists /\ DOMAIN list = Lists
  BY DEF ListInv, StoreInv, ListTypes
<1> QED BY <1>1, <1>2
----------------------------------------------------------------------------
(* Steps that change no list: what they may not do to the broadcasts.      *)

Calm ==
  /\ UNCHANGED <<lists, disp, log, since, inbox>>
  /\ buffer' = buffer \/ \E m \in Message : buffer' = Append(buffer, m)
  /\ \A c \in Conn :
       pc'[<<c, "serve">>] \in {"new", "append"} => pc[<<c, "serve">>] \in {"new", "append"}
  /\ PumpsOK' /\ Opened'

\* One goroutine moves.
LEMMA PumpMoves ==
  ASSUME ListInv, PumpsOK, UNCHANGED lists,
         NEW g \in Goroutines, NEW label, NEW r, Goto(g, label, r),
         g[2] = "serve" /\ label \in {"new", "append"} => pc[g] \in {"new", "append"},
         g[2] = "read" => PumpOK(g[1], label, r)
  PROVE  /\ PumpsOK'
         /\ \A c \in Conn :
              pc'[<<c, "serve">>] \in {"new", "append"} =>
                /\ pc[<<c, "serve">>] \in {"new", "append"}
                /\ g # <<c, "serve">> => pc[<<c, "serve">>] = pc'[<<c, "serve">>]
<1>1. /\ pc'[g] = label /\ it'[g] = r
      /\ \A o \in Goroutines \ {g} : pc'[o] = pc[o] /\ it'[o] = it[o]
      /\ list' = list /\ heap' = heap /\ joined' = joined /\ race' = race
  BY DEF Goto, ListInv, MoveInv, GoroutineTypes, lists
<1>2. ASSUME NEW c \in Conn
      PROVE  pc'[<<c, "serve">>] \in {"new", "append"} =>
               /\ pc[<<c, "serve">>] \in {"new", "append"}
               /\ g # <<c, "serve">> => pc[<<c, "serve">>] = pc'[<<c, "serve">>]
  <2>1. <<c, "serve">> \in Goroutines /\ <<c, "serve">>[2] = "serve"
    BY GoroutineParts
  <2> QED BY <1>1, <2>1
<1>3. ASSUME NEW c \in Conn PROVE PumpOK(c, pc[Pump(c)], it[Pump(c)])'
  <2>1. Pump(c) \in Goroutines /\ Pump(c)[1] = c /\ Pump(c)[2] = "read"
    BY PumpParts
  <2>2. PumpOK(c, pc'[Pump(c)], it'[Pump(c)])
    <3>1. CASE Pump(c) = g
      BY <1>1, <2>1, <3>1
    <3>2. CASE Pump(c) # g
      BY <1>1, <2>1, <3>2 DEF PumpsOK
    <3> QED BY <3>1, <3>2
  <2> QED BY <1>1, <1>2, <2>2 DEF PumpOK, PastRemoval, Shown
<1> QED BY <1>2, <1>3 DEF PumpsOK

\* A connection's goroutine ends addConnection and its pump starts.
LEMMA PumpStarts ==
  ASSUME ListInv, PumpsOK, UNCHANGED lists, NEW d \in Conn, StartPumps(d)
  PROVE  /\ PumpsOK'
         /\ \A c \in Conn :
              pc'[<<c, "serve">>] \in {"new", "append"} =>
                pc[<<c, "serve">>] \in {"new", "append"} /\ pc[<<c, "serve">>] = pc'[<<c, "serve">>]
<1> DEFINE s == <<d, "serve">>
           q == Pump(d)
<1>0. s \in Goroutines /\ q \in Goroutines /\ s # q /\ GoroutineTypes
  BY GoroutineParts DEF ListInv, MoveInv
<1>1. /\ pc'[s] = "done" /\ pc'[q] = "read"
      /\ \A o \in Goroutines \ {s, q} : pc'[o] = pc[o] /\ it'[o] = it[o]
      /\ list' = list /\ heap' = heap /\ joined' = joined /\ race' = race
  <2>1. pc' = [pc EXCEPT ![s] = "done", ![q] = "read"] /\ it' = [it EXCEPT ![s] = Idle]
    BY DEF StartPumps, Pump
  <2> HIDE DEF s, q
  <2> QED BY <1>0, <2>1 DEF lists, GoroutineTypes
<1>2. ASSUME NEW c \in Conn
      PROVE  pc'[<<c, "serve">>] \in {"new", "append"} =>
               c # d /\ pc[<<c, "serve">>] \in {"new", "append"} /\ pc[<<c, "serve">>] = pc'[<<c, "serve">>]
  <2>1. <<c, "serve">> \in Goroutines /\ <<c, "serve">> # q
    BY GoroutineParts
  <2>2. c # d => <<c, "serve">> # s
    OBVIOUS
  <2> HIDE DEF q
  <2> QED BY <1>1, <2>1, <2>2
<1>3. ASSUME NEW c \in Conn PROVE PumpOK(c, pc[Pump(c)], it[Pump(c)])'
  <2>1. Pump(c) \in Goroutines /\ Pump(c) # s /\ (Pump(c) = q => c = d)
    BY PumpParts, GoroutineParts
  <2>2. CASE Pump(c) = q
    BY <1>1, <1>2, <2>1, <2>2 DEF PumpOK, PastRemoval, Removing
  <2>3. CASE Pump(c) # q
    <3>1. PumpOK(c, pc'[Pump(c)], it'[Pump(c)])
      BY <1>1, <2>1, <2>3 DEF PumpsOK
    <3> QED BY <1>1, <1>2, <3>1 DEF PumpOK, PastRemoval, Shown
  <2> QED BY <2>2, <2>3
<1> QED BY <1>2, <1>3 DEF PumpsOK

\* No goroutine moves.
LEMMA PumpsStay ==
  ASSUME PumpsOK, UNCHANGED <<lists, pc, it>>
  PROVE  /\ PumpsOK'
         /\ \A c \in Conn :
              pc'[<<c, "serve">>] \in {"new", "append"} => pc[<<c, "serve">>] \in {"new", "append"}
<1>1. list' = list /\ heap' = heap /\ joined' = joined /\ race' = race /\ pc' = pc /\ it' = it
  BY DEF lists
<1>2. ASSUME NEW c \in Conn PROVE PumpOK(c, pc[Pump(c)], it[Pump(c)])'
  <2>1. PumpOK(c, pc'[Pump(c)], it'[Pump(c)])
    BY <1>1 DEF PumpsOK
  <2> QED BY <1>1, <2>1 DEF PumpOK, PastRemoval, Shown
<1> QED BY <1>1, <1>2 DEF PumpsOK

\* A pump that serves frames is in no removal.
LEMMA PumpServes ==
  ASSUME PumpsOK, NEW c \in Conn, pc[Pump(c)] # "none", NEW r,
         NEW label \in {"read", "notify", "enqueue", "inform", "relay", "relayProxy"}
  PROVE  PumpOK(c, label, r)
BY DEF PumpsOK, PumpOK, PastRemoval, Removing

\* A pump past the removal of its own connection stays past it.
LEMMA PumpGone ==
  ASSUME PumpsOK, NEW c \in Conn, PastRemoval(c, pc[Pump(c)], it[Pump(c)]), NEW r, NEW label,
         PastRemoval(c, label, r), label \in Removing => c \in Peers /\ r.cur \in Controls
  PROVE  PumpOK(c, label, r)
BY DEF PumpsOK, PumpOK, PastRemoval, Removing

\* The search begins at the head of a list that shows the connection.
LEMMA PumpBegins ==
  ASSUME ListInv, DistinctIds, PumpsOK, NEW c \in Conn, pc[Pump(c)] = "read"
  PROVE  PumpOK(c, "scan", [RangeOver(Kind(c)) EXCEPT !.cur = c])
<1> DEFINE h == RangeOver(Kind(c))
           r == [h EXCEPT !.cur = c]
<1>1. h \in LoopState /\ h.arr = list[Kind(c)].arr /\ h.len = list[Kind(c)].len /\ h.i = 0
  BY RangeOverOK, Kinds DEF ListInv, StoreInv
<1> HIDE DEF h
<1>2. r.arr = list[Kind(c)].arr /\ r.len = list[Kind(c)].len /\ r.i = 0 /\ r.cur = c
  BY <1>1 DEF LoopState
<1> HIDE DEF r
<1>3. c \in joined /\ Kind(c) \notin race => \E j \in (r.i + 1)..r.len : Shown(Kind(c), r, j) = c
  BY <1>2, MemberShown DEF Shown
<1>4. PumpOK(c, "scan", r)
  BY <1>2, <1>3 DEF PumpsOK, PumpOK, PastRemoval, Removing
<1> QED BY <1>4 DEF r, h
----------------------------------------------------------------------------
(* One lemma per action: the steps that are calm.                          *)

LEMMA OpenedStays ==
  ASSUME Opened, UNCHANGED <<lists, ws>>,
         \A c \in Conn : pc'[<<c, "serve">>] = "append" => pc[<<c, "serve">>] = "append"
  PROVE  Opened'
BY DEF Opened, lists

LEMMA CalmMove ==
  ASSUME ListInv, PumpsOK, Opened, UNCHANGED <<lists, ws, inbox, channel>>,
         NEW g \in Goroutines, NEW label, NEW r, Goto(g, label, r),
         g[2] = "serve" => label \notin {"new", "append"},
         g[2] = "read" => PumpOK(g[1], label, r)
  PROVE  Calm
<1>1. pc'[g] = label
  BY DEF ListInv, MoveInv, GoroutineTypes, Goto
<1>2. \A c \in Conn : pc'[<<c, "serve">>] \in {"new", "append"} => g # <<c, "serve">>
  BY <1>1
<1> QED BY <1>2, PumpMoves, OpenedStays DEF Calm, channel

LEMMA CalmStay ==
  ASSUME PumpsOK, Opened, UNCHANGED <<lists, ws, inbox, channel, pc, it>>
  PROVE  Calm
BY PumpsStay, OpenedStays DEF Calm, channel

LEMMA CalmCrash ==
  ASSUME PumpsOK, Opened, NEW why, Crash(why)
  PROVE  Calm
BY CalmStay DEF Crash, sockets

\* A goroutine that is adding its connection, or tells of it.
LEMMA ServeMoves ==
  ASSUME ListInv, PumpsOK, Opened, UNCHANGED <<lists, ws, inbox, channel>>,
         NEW c \in Conn, NEW label, NEW r, Goto(<<c, "serve">>, label, r), label \notin {"new", "append"}
  PROVE  Calm
<1>1. <<c, "serve">> \in Goroutines /\ <<c, "serve">>[2] = "serve"
  BY GoroutineParts
<1> QED BY <1>1, CalmMove

\* A pump.
LEMMA PumpMovesOn ==
  ASSUME ListInv, PumpsOK, Opened, UNCHANGED <<lists, ws, inbox, channel>>,
         NEW c \in Conn, NEW label, NEW r, Goto(Pump(c), label, r), PumpOK(c, label, r)
  PROVE  Calm
BY PumpParts, CalmMove

LEMMA PumpServesOn ==
  ASSUME ListInv, PumpsOK, Opened, UNCHANGED <<lists, ws, inbox, channel>>,
         NEW c \in Conn, pc[Pump(c)] # "none", NEW r,
         NEW label \in {"read", "notify", "enqueue", "inform", "relay", "relayProxy"},
         Goto(Pump(c), label, r)
  PROVE  Calm
BY PumpServes, PumpMovesOn

LEMMA PumpGoneOn ==
  ASSUME ListInv, PumpsOK, Opened, UNCHANGED <<lists, ws, inbox, channel>>,
         NEW c \in Conn, PastRemoval(c, pc[Pump(c)], it[Pump(c)]), NEW r, NEW label,
         PastRemoval(c, label, r), label \notin Removing, Goto(Pump(c), label, r)
  PROVE  Calm
BY PumpGone, PumpMovesOn

\* A connection that is accepted has not joined.
LEMMA AcceptCalm ==
  ASSUME ListInv, PumpsOK, Opened, NEW c \in Conn, Accept(c)
  PROVE  Calm
<1>1. /\ pc[<<c, "serve">>] = "new"
      /\ ws' = [ws EXCEPT ![c] = IF c \in BadUpgrade THEN "nil" ELSE "open"]
      /\ Goto(<<c, "serve">>, "append", RangeOver(Kind(c)))
      /\ UNCHANGED <<lists, view, inbox, direct, proxyState, channel, input, crashed>>
  BY DEF Accept, At
<1>2. <<c, "serve">> \in Goroutines /\ <<c, "serve">>[2] = "serve"
  BY GoroutineParts
<1>3. c \notin joined /\ joined \subseteq Conn /\ ws \in [Conn -> {"none", "open", "closed", "nil"}]
  BY <1>1 DEF ListInv, MoveInv, Fresh, StoreInv, ListTypes, SocketTypes
<1>4. /\ ws'[c] \in {"open", "nil"}
      /\ \A d \in Conn \ {c} : ws'[d] = ws[d]
  BY <1>1, <1>3
<1>5. /\ PumpsOK'
      /\ \A d \in Conn : pc'[<<d, "serve">>] \in {"new", "append"} =>
           /\ pc[<<d, "serve">>] \in {"new", "append"}
           /\ <<c, "serve">> # <<d, "serve">> => pc[<<d, "serve">>] = pc'[<<d, "serve">>]
  BY <1>1, <1>2, PumpMoves
<1>6. Opened'
  BY <1>1, <1>3, <1>4, <1>5 DEF Opened, lists
<1> QED BY <1>1, <1>5, <1>6 DEF Calm, channel

LEMMA ReadFailsCalm ==
  ASSUME ListInv, DistinctIds, PumpsOK, Opened, NEW c \in Conn, ReadFails(c)
  PROVE  Calm
<1>1. /\ pc[Pump(c)] = "read"
      /\ Goto(Pump(c), "scan", [RangeOver(Kind(c)) EXCEPT !.cur = c])
      /\ UNCHANGED <<lists, ws, inbox, channel>>
  BY DEF ReadFails, At, sockets
<1> QED BY <1>1, PumpBegins, PumpMovesOn

LEMMA ReadsCalm ==
  ASSUME ListInv, PumpsOK, Opened, NEW c \in Conn, NEW f, NEW r,
         NEW label \in {"notify", "enqueue", "relay", "inform"}, Reads(c, f, label, r)
  PROVE  Calm
<1>1. /\ pc[Pump(c)] = "read" /\ Goto(Pump(c), label, r)
      /\ UNCHANGED <<lists, ws, inbox, channel>>
  BY DEF Reads, At, sockets
<1> QED BY <1>1, PumpServesOn

LEMMA ClientCalm ==
  ASSUME ListInv, PumpsOK, Opened
  PROVE  /\ \A p \in Peers : PeerReads(p) => Calm
         /\ \A c \in Controls : ControlReads(c) \/ ControlReadsMalformed(c) => Calm
         /\ \A x \in Proxies : ProxyReads(x) => Calm
<1>0. Peers \subseteq Conn /\ Controls \subseteq Conn /\ Proxies \subseteq Conn
  BY DEF Conn
<1>1. ASSUME NEW p \in Peers, PeerReads(p) PROVE Calm
  <2>1. PICK m \in Payloads :
          Reads(p, [action |-> "broadcast", source |-> Id[p], target |-> Nil, payload |-> m],
                NotifyOrEnqueue(m), Idle)
    BY <1>1 DEF PeerReads
  <2> QED BY <1>0, <2>1, NotifyOrEnqueueOK, ReadsCalm
<1>2. ASSUME NEW c \in Controls, ControlReads(c) PROVE Calm
  <2>1. PICK t \in Ids :
          Reads(c, [action |-> "message", source |-> Id[c], target |-> t, payload |-> Nil],
                "relay", RangeOver("controllers"))
    BY <1>2 DEF ControlReads
  <2> QED BY <1>0, <2>1, ReadsCalm
<1>3. ASSUME NEW c \in Controls, ControlReadsMalformed(c) PROVE Calm
  BY <1>3, CalmCrash DEF ControlReadsMalformed
<1>4. ASSUME NEW x \in Proxies, ProxyReads(x) PROVE Calm
  <2>1. ASSUME NEW a \in {"connect", "disconnect"}, NEW r \in RemoteIds,
               Reads(x, [action |-> a, source |-> Id[x], target |-> r, payload |-> Nil],
                     "inform", RangeOver("controllers"))
        PROVE  Calm
    BY <1>0, <2>1, ReadsCalm
  <2>2. ASSUME NEW r \in RemoteIds, NEW m \in Payloads,
               Reads(x, [action |-> "message", source |-> r, target |-> Nil, payload |-> m],
                     NotifyOrEnqueue(m), Idle)
        PROVE  Calm
    BY <1>0, <2>2, NotifyOrEnqueueOK, ReadsCalm
  <2>3. ASSUME NEW r \in RemoteIds, NEW t \in Ids,
               Reads(x, [action |-> "directmessage", source |-> r, target |-> t, payload |-> Nil],
                     "relay", RangeOver("controllers"))
        PROVE  Calm
    BY <1>0, <2>3, ReadsCalm
  <2> QED BY <1>4, <2>1, <2>2, <2>3 DEF ProxyReads
<1> QED BY <1>1, <1>2, <1>3, <1>4

LEMMA NotifyCalm ==
  ASSUME ListInv, PumpsOK, Opened, NEW c \in Conn, Notify(c)
  PROVE  Calm
<1>1. /\ pc[Pump(c)] = "notify"
      /\ Goto(Pump(c), "enqueue", Idle) \/ UNCHANGED <<pc, it>>
      /\ UNCHANGED <<lists, ws, inbox, channel>>
  BY DEF Notify, At, sockets
<1> QED BY <1>1, PumpServesOn, CalmStay

LEMMA EnqueueCalm ==
  ASSUME ListInv, PumpsOK, Opened, NEW c \in Conn, Enqueue(c)
  PROVE  Calm
<1> DEFINE m == [source |-> frame[c].source, payload |-> frame[c].payload, fromProxy |-> c \in Proxies]
<1>1. /\ pc[Pump(c)] = "enqueue"
      /\ buffer' = Append(buffer, m)
      /\ Goto(Pump(c), "read", Idle)
      /\ UNCHANGED <<lists, sockets, proxyState, disp, log, since, input, crashed>>
  BY DEF Enqueue, At
<1>2. m \in Message
  BY <1>1, HeldFrameOK DEF FrameOK, Frame, Message
<1> HIDE DEF m
<1>3. Pump(c) \in Goroutines /\ Pump(c)[1] = c /\ Pump(c)[2] = "read"
  BY PumpParts
<1>4. PumpOK(c, "read", Idle)
  BY <1>1, PumpServes
<1>5. /\ PumpsOK'
      /\ \A d \in Conn : pc'[<<d, "serve">>] \in {"new", "append"} =>
           /\ pc[<<d, "serve">>] \in {"new", "append"}
           /\ Pump(c) # <<d, "serve">> => pc[<<d, "serve">>] = pc'[<<d, "serve">>]
  BY <1>1, <1>3, <1>4, PumpMoves
<1>6. Opened'
  BY <1>1, <1>5, GoroutineParts, OpenedStays DEF sockets
<1> QED BY <1>1, <1>2, <1>5, <1>6 DEF Calm, sockets

\* A connection ends its addConnection.
LEMMA StartsCalm ==
  ASSUME ListInv, PumpsOK, Opened, UNCHANGED <<lists, ws, inbox, channel>>, NEW c \in Conn, StartPumps(c)
  PROVE  Calm
BY PumpStarts, OpenedStays DEF Calm, channel

LEMMA PeerToControlsCalm ==
  ASSUME ListInv, PumpsOK, Opened, NEW p \in Conn, NEW g \in {<<p, "serve">>, Pump(p)}, PeerToControls(g)
  PROVE  Calm
<1>1. /\ pc[g] = "toControls"
      /\ IF Last(it[g]) THEN Goto(g, "toProxies", RangeOver("proxies"))
                        ELSE Goto(g, "toControls", NextRound(LoopList(g), it[g]))
      /\ UNCHANGED <<lists, ws, inbox, channel>>
  BY DEF PeerToControls, AnnounceRound, At
<1>2. CASE g = <<p, "serve">>
  BY <1>1, <1>2, ServeMoves
<1>3. CASE g = Pump(p)
  BY <1>1, <1>3, PumpGoneOn DEF PastRemoval, Removing
<1> QED BY <1>2, <1>3

\* The last loop of an announcement: the pump starts, or the websocket is closed.
LEMMA LastLoopCalm ==
  ASSUME ListInv, PumpsOK, Opened, NEW c \in Conn, NEW g \in {<<c, "serve">>, Pump(c)},
         NEW label \in {"toProxies", "toProxy"}, pc[g] = label,
         UNCHANGED <<lists, ws, inbox, channel>>,
         IF Last(it[g]) THEN IF g[2] = "serve" THEN StartPumps(g[1]) ELSE Goto(g, "close", Idle)
                        ELSE Goto(g, label, NextRound(LoopList(g), it[g]))
  PROVE  Calm
<1>1. CASE g = <<c, "serve">>
  BY <1>1, ServeMoves, StartsCalm
<1>2. CASE g = Pump(c)
  <2>1. g[2] # "serve"
    BY <1>2 DEF Pump
  <2> QED BY <1>2, <2>1, PumpGoneOn DEF PastRemoval, Removing
<1> QED BY <1>1, <1>2

LEMMA PeerToProxiesCalm ==
  ASSUME ListInv, PumpsOK, Opened, NEW p \in Conn, NEW g \in {<<p, "serve">>, Pump(p)}, PeerToProxies(g)
  PROVE  Calm
BY LastLoopCalm DEF PeerToProxies, AnnounceRound, At

LEMMA ProxyToFarEndCalm ==
  ASSUME ListInv, PumpsOK, Opened, NEW x \in Conn, NEW g \in {<<x, "serve">>, Pump(x)}, ProxyToFarEnd(g)
  PROVE  Calm
BY LastLoopCalm DEF ProxyToFarEnd, AnnounceRound, At

LEMMA ControlServeCalm ==
  ASSUME ListInv, PumpsOK, Opened, NEW c \in Conn,
         \/ ControlOwnPeers(c) \/ ControlProxyPeer(c) \/ ControlProxyPeerSend(c) \/ ControlNextProxy(c)
  PROVE  Calm
<1> DEFINE g == <<c, "serve">>
<1>1. CASE ControlOwnPeers(c)
  <2>1. /\ IF Last(it[g]) THEN Goto(g, "proxyPeers", RangeOver("proxies"))
                          ELSE Goto(g, "ownPeers", NextRound(LoopList(g), it[g]))
        /\ UNCHANGED <<lists, ws, inbox, channel>>
    BY <1>1 DEF ControlOwnPeers, AnnounceRound
  <2> QED BY <2>1, ServeMoves
<1>2. CASE ControlProxyPeer(c) \/ ControlProxyPeerSend(c)
  BY <1>2, CalmStay DEF ControlProxyPeer, ControlProxyPeerSend, sockets
<1>3. CASE ControlNextProxy(c)
  <2>1. /\ Goto(g, "done", Idle) \/ Goto(g, "proxyPeers", NextRound("proxies", it[g]))
        /\ UNCHANGED <<lists, ws, inbox, channel>>
    BY <1>3 DEF ControlNextProxy, sockets
  <2> QED BY <2>1, ServeMoves
<1> QED BY <1>1, <1>2, <1>3

LEMMA ProxyInformsCalm ==
  ASSUME ListInv, PumpsOK, Opened, NEW x \in Conn, ProxyInforms(x)
  PROVE  Calm
<1>1. /\ pc[Pump(x)] = "inform"
      /\ IF Last(it[Pump(x)]) THEN Goto(Pump(x), "read", Idle)
           ELSE Goto(Pump(x), "inform", NextRound(LoopList(Pump(x)), it[Pump(x)]))
      /\ UNCHANGED <<lists, ws, inbox, channel>>
  BY DEF ProxyInforms, AnnounceRound, At
<1> QED BY <1>1, PumpServesOn

LEMMA RelayCalm ==
  ASSUME ListInv, PumpsOK, Opened, NEW c \in Conn, Relay(c) \/ RelayToProxy(c)
  PROVE  Calm
<1>1. /\ pc[Pump(c)] \in {"relay", "relayProxy"}
      /\ UNCHANGED <<lists, ws, inbox, channel>>
      /\ \/ Goto(Pump(c), "read", Idle)
         \/ Goto(Pump(c), "relayProxy", RangeOver("proxies"))
         \/ Goto(Pump(c), "relay", NextRound("controllers", it[Pump(c)]))
         \/ Goto(Pump(c), "relayProxy", NextRound("proxies", it[Pump(c)]))
  BY DEF Relay, RelayToProxy, RelayRound, At
<1> QED BY <1>1, PumpServesOn

LEMMA WritePanicsCalm ==
  ASSUME ListInv, PumpsOK, Opened, NEW c \in Conn, NEW g \in {<<c, "serve">>, Pump(c)}, WritePanics(g)
  PROVE  Calm
<1>1. CASE g = <<c, "serve">>
  <2>1. Goto(g, "dead", Idle) /\ UNCHANGED <<lists, ws, inbox, channel>>
    BY <1>1 DEF WritePanics, sockets
  <2> QED BY <1>1, <2>1, ServeMoves
<1>2. CASE g = Pump(c)
  <2>1. g[2] # "serve"
    BY <1>2 DEF Pump
  <2> QED BY <2>1, CalmCrash DEF WritePanics
<1> QED BY <1>1, <1>2

\* Where a pump goes after a removal its own connection is gone.
LEMMA AfterRemovalPast ==
  ASSUME NEW c \in Conn, NEW v, AfterRemoval(Pump(c), v)
  PROVE  \E label \in {"findControl", "close", "closeControl", "toProxy"} : \E r :
           Goto(Pump(c), label, r)
BY DEF AfterRemoval

\* A pump that goes on after a removal, its own connection being gone.
LEMMA GoesOn ==
  ASSUME ListInv, PumpsOK, Opened, UNCHANGED <<lists, ws, inbox, channel>>, NEW c \in Conn,
         pc[Pump(c)] # "none", c \notin joined \/ Kind(c) \in race, NEW r,
         NEW label \in {"findControl", "close", "closeControl", "toProxy"}, Goto(Pump(c), label, r)
  PROVE  Calm
<1>1. PumpOK(c, label, r)
  BY DEF PumpsOK, PumpOK, Removing
<1> QED BY <1>1, PumpMovesOn

LEMMA ScanCalm ==
  ASSUME ListInv, DistinctIds, PumpsOK, Opened, NEW c \in Conn, Scan(Pump(c))
  PROVE  Calm
<1> DEFINE g == Pump(c)
           r == it[g]
           k == Kind(r.cur)
           i == r.i + 1
           e == heap[k][r.arr].at[i]
           s == [r EXCEPT !.i = i]
<1>1. /\ pc[g] = "scan"
      /\ \/ i <= r.len /\ Id[e] = Id[r.cur] /\ Goto(g, "cut", s)
         \/ i <= r.len /\ Id[e] # Id[r.cur] /\ Goto(g, "scan", s)
         \/ i > r.len /\ AfterRemoval(g, r.cur)
      /\ UNCHANGED <<lists, ws, inbox, channel>>
  BY DEF Scan, At, sockets
<1>2. g \in Goroutines /\ r \in LoopState /\ r.i \in Nat /\ r.len \in Nat
  BY <1>1, PumpParts, RemovalRound
<1>3. s.arr = r.arr /\ s.len = r.len /\ s.i = i /\ s.cur = r.cur
  BY <1>2 DEF LoopState
<1>4. PumpOK(c, "scan", r)
  BY <1>1 DEF PumpsOK
<1>5. pc[<<c, "serve">>] \notin {"new", "append"}
  BY <1>1 DEF PumpsOK, PumpOK
<1> HIDE DEF s
<1>6. CASE i <= r.len /\ Id[e] = Id[r.cur] /\ Goto(g, "cut", s)
  <2>1. PumpOK(c, "cut", s)
    BY <1>3, <1>4, <1>5 DEF PumpOK, PastRemoval, Removing
  <2> QED BY <1>1, <1>6, <2>1, PumpMovesOn
<1>7. CASE i <= r.len /\ Id[e] # Id[r.cur] /\ Goto(g, "scan", s)
  <2>1. ASSUME c \in joined, Kind(c) \notin race
        PROVE  \E j \in (s.i + 1)..s.len : Shown(Kind(c), s, j) = c
    <3>1. r.cur = c
      BY <1>4, <2>1 DEF PumpOK, PastRemoval, Removing
    <3>2. PICK j \in (r.i + 1)..r.len : Shown(Kind(c), r, j) = c
      BY <1>4, <2>1 DEF PumpOK
    <3>3. j # i
      BY <1>7, <3>1, <3>2 DEF Shown
    <3>4. j \in (s.i + 1)..s.len /\ Shown(Kind(c), s, j) = c
      BY <1>2, <1>3, <3>2, <3>3 DEF Shown
    <3> QED BY <3>4
  <2>2. PumpOK(c, "scan", s)
    BY <1>3, <1>4, <1>5, <2>1 DEF PumpOK, PastRemoval, Removing
  <2> QED BY <1>1, <1>7, <2>2, PumpMovesOn
<1>8. CASE i > r.len /\ AfterRemoval(g, r.cur)
  <2>1. (r.i + 1)..r.len = {}
    BY <1>2, <1>8
  <2>2. c \notin joined \/ Kind(c) \in race
    BY <1>4, <2>1 DEF PumpOK
  <2> QED BY <1>1, <1>8, <2>2, AfterRemovalPast, GoesOn
<1> QED BY <1>1, <1>6, <1>7, <1>8

LEMMA CutCalm ==
  ASSUME ListInv, PumpsOK, Opened, NEW c \in Conn, Cut(Pump(c))
  PROVE  Calm
<1> DEFINE g == Pump(c)
           r == it[g]
           h == list[Kind(r.cur)]
           s == [arr |-> h.arr, len |-> h.len, i |-> r.i, cur |-> r.cur]
<1>1. /\ pc[g] = "cut"
      /\ \/ Crash("bounds")
         \/ Goto(g, "cutw", s) /\ UNCHANGED <<lists, ws, inbox, channel>>
  BY DEF Cut, At, sockets
<1>2. PumpOK(c, "cutw", s)
  BY <1>1 DEF PumpsOK, PumpOK, PastRemoval, Removing
<1> HIDE DEF s
<1> QED BY <1>1, <1>2, CalmCrash, PumpMovesOn

LEMMA FindControlCalm ==
  ASSUME ListInv, PumpsOK, Opened, NEW p \in Peers, FindControl(Pump(p))
  PROVE  Calm
<1> DEFINE g == Pump(p)
           r == it[g]
           e == NextRound("controllers", r).cur
           h == RangeOver("controllers")
<1>1. /\ pc[g] = "findControl"
      /\ \/ e # Nil /\ Goto(g, "scan", [h EXCEPT !.cur = e])
         \/ Goto(g, "findControl", [r EXCEPT !.i = @ + 1])
         \/ Goto(g, "toControls", h)
      /\ UNCHANGED <<lists, ws, inbox, channel>>
  BY DEF FindControl, At, sockets
<1>2. p \in Conn /\ g \in Goroutines
  BY PumpParts DEF Conn
<1>3. /\ r \in LoopState /\ InHeap(heap["controllers"], r)
  BY <1>1, <1>2 DEF ListInv, MoveInv, GoroutineTypes, RoundsOK, RoundOK, LoopListAt
<1>4. e \in Controls \cup {Nil}
  BY <1>3, NextRoundOK DEF ListInv, StoreInv, Lists, Members
<1>5. h \in LoopState
  BY RangeOverOK DEF ListInv, StoreInv, Lists
<1>6. CASE e # Nil /\ Goto(g, "scan", [h EXCEPT !.cur = e])
  <2>1. e \in Controls /\ e # p
    BY <1>4, <1>6, KindsDisjoint
  <2> HIDE DEF h, e
  <2>2. [h EXCEPT !.cur = e].cur = e
    BY <1>5 DEF LoopState
  <2>3. PastRemoval(p, "scan", [h EXCEPT !.cur = e]) /\ PastRemoval(p, pc[g], it[g])
    BY <1>1, <2>1, <2>2 DEF PastRemoval, Removing
  <2>4. PumpOK(p, "scan", [h EXCEPT !.cur = e])
    BY <1>2, <2>1, <2>2, <2>3, PumpGone
  <2> QED BY <1>1, <1>2, <1>6, <2>4, PumpMovesOn
<1>7. CASE Goto(g, "findControl", [r EXCEPT !.i = @ + 1])
  BY <1>1, <1>2, <1>7, PumpGoneOn DEF PastRemoval, Removing
<1>8. CASE Goto(g, "toControls", h)
  BY <1>1, <1>2, <1>8, PumpGoneOn DEF PastRemoval, Removing
<1> QED BY <1>1, <1>6, <1>7, <1>8

\* The websocket that is closed belongs to nobody who is still owed messages.
LEMMA CloseCalm ==
  ASSUME ListInv, PumpsOK, Opened, NEW c \in Conn, Close(c) \/ CloseControl(Pump(c))
  PROVE  Calm
<1> DEFINE d == IF pc[Pump(c)] = "close" THEN c ELSE it[Pump(c)].cur
<1>1. /\ pc[Pump(c)] \in {"close", "closeControl"}
      /\ ws' = [ws EXCEPT ![d] = "closed"]
      /\ \/ Goto(Pump(c), "done", Idle)
         \/ Goto(Pump(c), "toControls", RangeOver("controllers"))
      /\ UNCHANGED <<lists, inbox, channel>>
  BY DEF Close, CloseControl, At
<1>2. /\ d \in joined => d \in Controls \/ Kind(d) \in race
      /\ pc[<<d, "serve">>] = "append" => d \in Controls
  <2>1. CASE pc[Pump(c)] = "close"
    BY <2>1 DEF PumpsOK, PumpOK, PastRemoval
  <2>2. CASE pc[Pump(c)] = "closeControl"
    BY <2>2, PumpParts DEF ListInv, MoveInv, RoundsOK, RoundOK
  <2> QED BY <1>1, <2>1, <2>2
<1>3. ASSUME NEW r, NEW label \in {"done", "toControls"}, Goto(Pump(c), label, r) PROVE Calm
  <2>1. PumpOK(c, label, r)
    BY <1>1, PumpGone DEF PastRemoval, Removing
  <2>2. /\ PumpsOK'
        /\ \A b \in Conn : pc'[<<b, "serve">>] \in {"new", "append"} =>
             /\ pc[<<b, "serve">>] \in {"new", "append"}
             /\ pc[<<b, "serve">>] = pc'[<<b, "serve">>]
    BY <1>1, <1>3, <2>1, PumpParts, GoroutineParts, PumpMoves
  <2>3. Opened'
    <3> HIDE DEF d
    <3> QED BY <1>1, <1>2, <2>2 DEF Opened, lists, ListInv, SocketTypes
  <2> QED BY <1>1, <2>2, <2>3 DEF Calm, channel
<1> QED BY <1>1, <1>3

----------------------------------------------------------------------------
(* The steps that change a list.                                           *)

\* The pumps when a connection joins.
LEMMA JoinsPumps ==
  ASSUME ListInv, DistinctIds, PumpsOK, Opened, NEW c \in Conn, Joins(c),
         pc'[<<c, "serve">>] \in After, pc'[Pump(c)] \in {"none", "read"},
         \A o \in Goroutines \ {<<c, "serve">>, Pump(c)} : pc'[o] = pc[o] /\ it'[o] = it[o]
  PROVE  PumpsOK' /\ Opened'
<1>1. /\ joined' = joined \cup {c} /\ race \subseteq race' /\ ws' = ws
      /\ pc[<<c, "serve">>] = "append"
  BY DEF Joins, At, sockets
<1>2. ASSUME NEW d \in Conn
      PROVE  pc'[<<d, "serve">>] \in {"new", "append"} =>
               d # c /\ pc[<<d, "serve">>] = pc'[<<d, "serve">>]
  <2>1. <<d, "serve">> \in Goroutines /\ <<d, "serve">> # Pump(c) /\ (d # c => <<d, "serve">> # <<c, "serve">>)
    BY GoroutineParts
  <2> QED BY <2>1 DEF After
<1>3. ASSUME NEW d \in Conn PROVE PumpOK(d, pc[Pump(d)], it[Pump(d)])'
  <2>1. Pump(d) \in Goroutines /\ Pump(d) # <<c, "serve">> /\ (Pump(d) = Pump(c) => d = c)
    BY PumpParts, GoroutineParts
  <2>2. CASE d = c
    BY <1>2, <2>2 DEF PumpOK, PastRemoval, Removing
  <2>3. CASE d # c
    <3> DEFINE r == it[Pump(d)]
    <3>1. pc'[Pump(d)] = pc[Pump(d)] /\ it'[Pump(d)] = r
      BY <2>1, <2>3
    <3>2. PumpOK(d, pc[Pump(d)], r)
      BY DEF PumpsOK
    <3>3. ASSUME pc[Pump(d)] = "scan", d \in joined, Kind(d) \notin race'
          PROVE  \E j \in (r.i + 1)..r.len : heap'[Kind(d)][r.arr].at[j] = d
      <4>1. Kind(d) \notin race /\ r.cur = d
        BY <1>1, <3>2, <3>3 DEF PumpOK, PastRemoval, Removing
      <4>2. /\ r \in LoopState /\ Kind(d) \in Lists /\ InHeap(heap[Kind(d)], r)
            /\ UpdateListAt(Pump(d), "scan", r) = Kind(d) /\ PendingOK(Pump(d), "scan", r)
        BY <2>1, <3>3, <4>1, RemovalRound
      <4> HIDE DEF r
      <4>3. /\ r.len <= list[Kind(d)].len
            /\ \A j \in 1..r.len : Shown(Kind(d), r, j) = Shown(Kind(d), list[Kind(d)], j)
        BY <4>1, <4>2 DEF PendingOK, Lists
      <4>4. \A j \in 1..r.len : heap'[Kind(d)][r.arr].at[j] = Shown(Kind(d), r, j)
        BY <3>3, <4>2, <4>3, JoinKeepsSeen
      <4>5. PICK j \in (r.i + 1)..r.len : Shown(Kind(d), r, j) = d
        BY <3>2, <3>3, <4>1 DEF PumpOK, r
      <4>6. j \in 1..r.len
        BY <4>2 DEF LoopState
      <4> QED BY <4>4, <4>5, <4>6
    <3> HIDE DEF r
    <3>4. d \in joined' => d \in joined
      BY <1>1, <2>3
    <3>5. PumpOK(d, pc'[Pump(d)], it'[Pump(d)])
      BY <3>1, <3>2
    <3> QED BY <1>1, <1>2, <3>1, <3>3, <3>4, <3>5 DEF PumpOK, PastRemoval, Shown
  <2> QED BY <2>2, <2>3
<1>4. Opened'
  BY <1>1, <1>2 DEF Opened
<1> QED BY <1>3, <1>4 DEF PumpsOK

\* What the dispatcher sees when a connection joins.
LEMMA JoinsSeen ==
  ASSUME ListInv, DispatchSees, NEW c \in Conn, Joins(c)
  PROVE  /\ DispatchSees'
         /\ DispatchList \notin race' \cup {"none"} =>
              \A j \in 1..disp.it.len :
                heap'[DispatchList][disp.it.arr].at[j] = Shown(DispatchList, disp.it, j)
<1> DEFINE k == DispatchList
           r == disp.it
<1>1. race \subseteq race' /\ disp' = disp /\ log' = log
  BY DEF Joins
<1>2. k' = k /\ (k # "none" => k \in Lists /\ disp.pc # "idle")
  BY <1>1 DEF DispatchList, Lists
<1>3. r \in LoopState /\ (k # "none" => InHeap(heap[k], r))
  BY <1>2 DEF ListInv, QueueInv, ChannelTypes, DispatchOK
<1>4. ASSUME k # "none", k \notin race' PROVE RoundSees(k, r)
  BY <1>1, <1>4 DEF DispatchSees
<1> HIDE DEF k, r
<1>5. ASSUME k # "none", k \notin race'
      PROVE  /\ r.len <= list'[k].len
             /\ \A j \in 1..r.len : heap'[k][r.arr].at[j] = Shown(k, r, j)
             /\ \A j \in 1..r.len : heap'[k][list'[k].arr].at[j] = Shown(k, r, j)
  BY <1>2, <1>3, <1>4, <1>5, JoinKeepsSeen DEF RoundSees
<1>6. ASSUME k # "none", k \notin race' PROVE r.i # 0 => r.i \in 1..r.len
  BY <1>3, <1>4, <1>6 DEF LoopState, RoundSees
<1>7. ASSUME k # "none", k \notin race' PROVE RoundSees(k, r)'
  <2>1. k' = k /\ r' = r
    BY <1>1, <1>2 DEF r
  <2> QED BY <1>4, <1>5, <1>6, <1>7, <2>1 DEF RoundSees, Shown
<1>8. DispatchSees'
  BY <1>1, <1>2, <1>7 DEF DispatchSees, k, r
<1> QED BY <1>5, <1>8 DEF k, r

\* What a receiver is owed when another connection joins.
LEMMA JoinsOthers ==
  ASSUME ListInv, DispatchSees, NEW c \in Conn, Joins(c),
         NEW r \in Peers \cup Writeable, r # c, Kind(r) \notin race', ReceiverOK(r),
         since'[r] = since[r],
         pc'[<<r, "serve">>] \in {"new", "append"} => pc[<<r, "serve">>] \in {"new", "append"}
  PROVE  ReceiverOK(r)'
<1>1. /\ joined' = joined \cup {c} /\ disp' = disp /\ log' = log /\ inbox' = inbox
  BY DEF Joins, sockets
<1>2. r \in Conn /\ Kind(r) \in Lists /\ Kind(r) # "none"
  BY Kinds, ConstantTypes DEF Conn, Lists
<1>3. DispatchList = Kind(r) =>
        \A j \in 1..disp.it.len : heap'[Kind(r)][disp.it.arr].at[j] = Shown(Kind(r), disp.it, j)
  BY <1>2, JoinsSeen
<1>4. Waiting(r)' = Waiting(r)
  BY <1>1, <1>3 DEF Waiting, DispatchList, Shown
<1>5. Handed(r)' = Handed(r)
  BY <1>1, <1>4 DEF Handed
<1> QED BY <1>1, <1>5 DEF ReceiverOK

\* Who joins is owed nothing yet.
LEMMA JoinsOwed ==
  ASSUME ListInv, DistinctIds, DispatchSees, NEW r \in Peers \cup Writeable, Joins(r),
         Kind(r) \notin race', ReceiverOK(r),
         pc'[<<r, "serve">>] \in After,
         since'[r] = IF r \in Peers THEN Len(log)
                     ELSE Len(log) - (IF disp.pc = "local" THEN 1 ELSE 0)
  PROVE  ReceiverOK(r)'
<1>1. /\ disp' = disp /\ log' = log /\ inbox' = inbox /\ race \subseteq race'
      /\ pc[<<r, "serve">>] = "append"
  BY DEF Joins, sockets, At
<1>2. r \in Conn /\ Kind(r) \in Lists \ race /\ Kind(r) # "none" /\ r \notin joined
  BY <1>1, Kinds, ConstantTypes, LoadedOK DEF Conn, Lists
<1>3. inbox[r] = << >>
  BY <1>1 DEF ReceiverOK
<1>4. DispatchList = Kind(r) =>
        \A j \in 1..disp.it.len : heap'[Kind(r)][disp.it.arr].at[j] # r
  <2>1. ASSUME DispatchList = Kind(r), NEW j \in 1..disp.it.len
        PROVE  heap'[Kind(r)][disp.it.arr].at[j] # r
    <3>1. RoundSees(Kind(r), disp.it) /\ disp.it \in LoopState
      BY <1>2, <2>1 DEF DispatchSees, ListInv, QueueInv, ChannelTypes
    <3>2. Shown(Kind(r), disp.it, j) # r
      BY <1>2, <3>1, SeesMembers
    <3> QED BY <1>2, <2>1, <3>2, JoinsSeen
  <2> QED BY <2>1
<1>5. r \in Peers <=> r \notin Writeable
  BY KindsDisjoint, ConstantTypes
<1>6. Kind(r) = IF r \in Peers THEN "peers" ELSE "proxies"
  BY <1>5, KindsDisjoint, ConstantTypes DEF Kind
<1>7. Waiting(r)' <=> r \in Writeable /\ disp.pc = "local"
  BY <1>1, <1>4 DEF Waiting, DispatchList, Shown
<1>8. Handed(r)' = since'[r]
  BY <1>1, <1>5, <1>7 DEF Handed
<1>9. since'[r] \in Nat
  <2>1. log \in Seq(Message) /\ Len(log) \in Nat /\ (disp.pc = "local" => Len(log) # 0)
    BY LenProperties, EmptySeq DEF ListInv, QueueInv, ChannelTypes, DispatchOK
  <2> QED BY <2>1
<1>10. Filter(SubSeq(log', since'[r] + 1, since'[r]), For(r)) = << >>
  <2>1. SubSeq(log', since'[r] + 1, since'[r]) = << >>
    BY <1>9
  <2> QED BY <2>1, NothingOfNothing
<1> QED BY <1>1, <1>3, <1>8, <1>9, <1>10 DEF ReceiverOK, After

\* A connection joins.
LEMMA JoinsGroup ==
  ASSUME ListInv, DistinctIds, GroupInv, NEW c \in Conn, Joins(c), race \subseteq race',
         pc'[<<c, "serve">>] \in After, pc'[Pump(c)] \in {"none", "read"},
         \A o \in Goroutines \ {<<c, "serve">>, Pump(c)} : pc'[o] = pc[o] /\ it'[o] = it[o],
         \A r \in (Peers \cup Writeable) \ {c} : since'[r] = since[r],
         c \in Peers => since'[c] = Len(log),
         c \in Writeable => since'[c] = Len(log) - (IF disp.pc = "local" THEN 1 ELSE 0)
  PROVE  GroupInv'
<1>1. PumpsOK /\ Opened /\ DispatchSees
      /\ \A r \in Peers \cup Writeable : Kind(r) \notin race => ReceiverOK(r)
  BY DEF GroupInv
<1>2. PumpsOK' /\ Opened' /\ DispatchSees'
  BY <1>1, JoinsPumps, JoinsSeen
<1>3. ASSUME NEW r \in Peers \cup Writeable, Kind(r) \notin race' PROVE ReceiverOK(r)'
  <2>1. ReceiverOK(r) /\ r \in Conn
    BY <1>1, <1>3, ConstantTypes DEF Conn
  <2>2. CASE r = c
    <3>1. r \in Peers <=> r \notin Writeable
      BY KindsDisjoint, ConstantTypes
    <3> QED BY <1>1, <1>3, <2>1, <2>2, <3>1, JoinsOwed
  <2>3. CASE r # c
    <3>1. pc'[<<r, "serve">>] = pc[<<r, "serve">>]
      <4>1. <<r, "serve">> \in Goroutines /\ <<r, "serve">> # Pump(c) /\ <<r, "serve">> # <<c, "serve">>
        BY <2>1, <2>3, GoroutineParts
      <4> QED BY <4>1
    <3> QED BY <1>1, <1>3, <2>1, <2>3, <3>1, JoinsOthers
  <2> QED BY <2>2, <2>3
<1> QED BY <1>2, <1>3 DEF GroupInv

LEMMA AddsGroup ==
  ASSUME ListInv, DistinctIds, GroupInv, NEW c \in Conn,
         \/ c \in Peers /\ AddPeer(c)
         \/ c \in Controls /\ AddControl(c)
         \/ c \in Proxies /\ AddProxy(c)
  PROVE  GroupInv'
<1> DEFINE s == <<c, "serve">>
           q == Pump(c)
<1>1. /\ s \in Goroutines /\ q \in Goroutines /\ s # q
      /\ pc \in [Goroutines -> Labels] /\ it \in [Goroutines -> LoopState]
      /\ since \in [Peers \cup Proxies -> Nat]
  BY GoroutineParts DEF ListInv, MoveInv, GoroutineTypes, QueueInv, ChannelTypes
<1>2. Joins(c) /\ pc[s] = "append" /\ race \subseteq race'
  BY DEF AddPeer, AddControl, AddProxy, Joins, At
<1>3. pc[q] = "none"
  BY <1>2 DEF GroupInv, PumpsOK, PumpOK
<1>4. \/ \E label \in After : \E r : Goto(s, label, r)
      \/ \E label \in After : \E r : /\ pc' = [pc EXCEPT ![s] = label, ![q] = "read"]
                                      /\ it' = [it EXCEPT ![s] = r]
  BY DEF AddPeer, AddControl, AddProxy, StartPumps, After, Pump
<1> HIDE DEF s, q
<1>5. /\ pc'[s] \in After /\ pc'[q] \in {"none", "read"}
      /\ \A o \in Goroutines \ {s, q} : pc'[o] = pc[o] /\ it'[o] = it[o]
  <2>1. CASE \E label \in After : \E r : Goto(s, label, r)
    BY <1>1, <1>3, <2>1 DEF Goto
  <2>2. CASE \E label \in After : \E r : /\ pc' = [pc EXCEPT ![s] = label, ![q] = "read"]
                                          /\ it' = [it EXCEPT ![s] = r]
    BY <1>1, <2>2
  <2> QED BY <1>4, <2>1, <2>2
<1>6. /\ \A r \in (Peers \cup Writeable) \ {c} : since'[r] = since[r]
      /\ c \in Peers => since'[c] = Len(log)
      /\ c \in Writeable => since'[c] = Len(log) - (IF disp.pc = "local" THEN 1 ELSE 0)
  <2>0. Writeable \subseteq Proxies
    BY ConstantTypes
  <2>1. CASE c \in Peers /\ AddPeer(c)
    BY <1>1, <2>0, <2>1, KindsDisjoint DEF AddPeer
  <2>2. CASE c \in Controls /\ AddControl(c)
    BY <1>1, <2>0, <2>2, KindsDisjoint DEF AddControl
  <2>3. CASE c \in Proxies /\ AddProxy(c)
    <3>1. since' = [since EXCEPT ![c] = Len(log) - (IF disp.pc = "local" THEN 1 ELSE 0)]
      BY <2>3 DEF AddProxy
    <3> QED BY <1>1, <2>0, <2>3, <3>1, KindsDisjoint
  <2> QED BY <2>1, <2>2, <2>3
<1> QED BY <1>2, <1>5, <1>6, JoinsGroup DEF s, q

\* A connection is taken out of its list.
LEMMA CutStoreGroup ==
  ASSUME ListInv, DistinctIds, GroupInv, NEW c \in Conn, CutStore(Pump(c))
  PROVE  GroupInv'
<1> DEFINE g == Pump(c)
           v == it[g].cur
<1>1. /\ pc[g] = "cutw"
      /\ joined' = joined \ {v}
      /\ AfterRemoval(g, v)
      /\ UNCHANGED <<sockets, proxyState, channel, input, crashed>>
  BY DEF CutStore, At
<1>2. g \in Goroutines /\ g[1] = c /\ g[2] = "read" /\ race \subseteq race'
  BY PumpParts DEF CutStore
<1>3. /\ PumpsOK /\ Opened /\ DispatchSees
      /\ \A r \in Peers \cup Writeable : Kind(r) \notin race => ReceiverOK(r)
      /\ PumpOK(c, "cutw", it[g])
  BY <1>1 DEF GroupInv, PumpsOK
<1>4. PICK label \in {"findControl", "close", "closeControl", "toProxy"} : \E s : Goto(g, label, s)
  BY <1>1, AfterRemovalPast
<1>5. /\ pc'[g] = label
      /\ \A o \in Goroutines \ {g} : pc'[o] = pc[o] /\ it'[o] = it[o]
  BY <1>2, <1>4 DEF Goto, ListInv, MoveInv, GoroutineTypes
<1>6. \A d \in Conn : pc'[<<d, "serve">>] = pc[<<d, "serve">>]
  BY <1>5, GoroutineParts
<1>7. c \notin joined' \/ Kind(c) \in race'
  BY <1>1, <1>2, <1>3 DEF PumpOK, PastRemoval, Removing
<1>8. PumpsOK'
  <2>1. ASSUME NEW d \in Conn PROVE PumpOK(d, pc[Pump(d)], it[Pump(d)])'
    <3>1. CASE d = c
      <4>1. pc[<<c, "serve">>] \notin {"new", "append"}
        BY <1>3 DEF PumpOK
      <4> QED BY <1>5, <1>6, <1>7, <3>1, <4>1 DEF PumpOK, Removing
    <3>2. CASE d # c
      <4> DEFINE r == it[Pump(d)]
      <4>1. /\ Pump(d) \in Goroutines /\ Pump(d) # g
            /\ pc'[Pump(d)] = pc[Pump(d)] /\ it'[Pump(d)] = r
        BY <1>5, <3>2, PumpParts
      <4>2. PumpOK(d, pc[Pump(d)], r)
        BY <1>3 DEF PumpsOK
      <4>3. d \in joined' /\ Kind(d) \notin race' => d \in joined /\ Kind(d) \notin race
        BY <1>1, <1>2
      <4>4. ASSUME pc[Pump(d)] = "scan", d \in joined', Kind(d) \notin race'
            PROVE  heap'[Kind(d)] = heap[Kind(d)]
        <5>1. r.cur = d
          BY <4>2, <4>3, <4>4 DEF PumpOK, PastRemoval, Removing
        <5>2. InUse(Pump(d), Kind(d)) /\ Kind(d) \in Lists
          BY <4>4, <5>1, Kinds DEF InUse, UpdateList, UpdateListAt
        <5> QED BY <1>2, <4>1, <4>4, <5>2, CutElsewhere
      <4> HIDE DEF r
      <4>5. PumpOK(d, pc'[Pump(d)], it'[Pump(d)])
        BY <4>1, <4>2
      <4> QED BY <1>6, <4>1, <4>3, <4>4, <4>5 DEF PumpOK, PastRemoval, Shown
    <3> QED BY <3>1, <3>2
  <2> QED BY <2>1 DEF PumpsOK
<1>9. Opened'
  BY <1>1, <1>2, <1>3, <1>6 DEF Opened, sockets
<1>10. disp' = disp /\ log' = log /\ since' = since /\ inbox' = inbox /\ DispatchList' = DispatchList
  BY <1>1 DEF channel, sockets, DispatchList
<1>11. ASSUME DispatchList # "none", DispatchList \notin race'
       PROVE  /\ DispatchList \notin race
              /\ heap'[DispatchList] = heap[DispatchList] /\ list'[DispatchList] = list[DispatchList]
  <2>1. DispatchList \in Lists
    BY <1>11 DEF DispatchList, Lists
  <2> QED BY <1>2, <1>11, <2>1, CutElsewhere
<1>12. DispatchSees'
  BY <1>3, <1>10, <1>11 DEF DispatchSees, RoundSees, Shown
<1>13. ASSUME NEW r \in Peers \cup Writeable, Kind(r) \notin race' PROVE ReceiverOK(r)'
  <2>1. ReceiverOK(r) /\ r \in Conn /\ Kind(r) # "none"
    BY <1>2, <1>3, <1>13, ConstantTypes, Kinds DEF Conn, Lists
  <2>2. Waiting(r)' = Waiting(r)
    BY <1>10, <1>11, <1>13, <2>1 DEF Waiting, Shown
  <2>3. Handed(r)' = Handed(r)
    BY <1>10, <2>2 DEF Handed
  <2> QED BY <1>1, <1>6, <1>10, <2>1, <2>3 DEF ReceiverOK
<1> QED BY <1>8, <1>9, <1>12, <1>13 DEF GroupInv

\* A calm step.
LEMMA CalmGroup ==
  ASSUME GroupInv, DistinctIds, Calm
  PROVE  GroupInv'
<1>1. /\ DispatchSees
      /\ \A r \in Peers \cup Writeable : Kind(r) \notin race => ReceiverOK(r)
  BY DEF GroupInv
<1>2. /\ list' = list /\ heap' = heap /\ joined' = joined /\ race' = race
      /\ disp' = disp /\ log' = log /\ since' = since /\ inbox' = inbox
  BY DEF Calm, lists
<1>3. DispatchSees'
  BY <1>1, <1>2 DEF DispatchSees, DispatchList, RoundSees, Shown
<1>4. ASSUME NEW r \in Peers \cup Writeable, Kind(r) \notin race' PROVE ReceiverOK(r)'
  <2>1. Handed(r)' = Handed(r)
    BY <1>2 DEF Handed, Waiting, DispatchList, Shown
  <2>2. r \in Conn
    BY ConstantTypes DEF Conn
  <2> QED BY <1>1, <1>2, <1>4, <2>1, <2>2 DEF ReceiverOK, Calm
<1> QED BY <1>3, <1>4 DEF GroupInv, Calm

----------------------------------------------------------------------------
(* The dispatcher.                                                         *)

\* A longer log begins as it did.
LEMMA LogGrows ==
  ASSUME NEW S, NEW s \in Seq(S), NEW e \in S, NEW n \in Nat, n <= Len(s)
  PROVE  SubSeq(Append(s, e), n + 1, Len(s)) = SubSeq(s, n + 1, Len(s))
<1> DEFINE r == Append(s, e)
           N == Len(s)
           p == SubSeq(r, n + 1, N)
           q == SubSeq(s, n + 1, N)
<1>1. N \in Nat /\ r \in Seq(S) /\ Len(r) = N + 1 /\ \A j \in 1..N : r[j] = s[j]
  BY LenProperties, AppendProperties
<1> HIDE DEF r
<1>2. p \in Seq(S) /\ Len(p) = N - n /\ \A j \in 1..(N - n) : p[j] = r[n + j]
  BY <1>1, SubSeqProperties
<1>3. q \in Seq(S) /\ Len(q) = N - n /\ \A j \in 1..(N - n) : q[j] = s[n + j]
  BY <1>1, SubSeqProperties
<1> HIDE DEF p, q, N
<1>4. \A j \in 1..(N - n) : p[j] = q[j]
  <2>1. ASSUME NEW j \in 1..(N - n) PROVE n + j \in 1..N
    BY <1>1
  <2> QED BY <1>1, <1>2, <1>3, <2>1
<1>5. p = q
  BY <1>2, <1>3, <1>4, SeqEqual
<1> QED BY <1>5 DEF p, q, r, N

\* The log and its last message.
LEMMA LogParts ==
  ASSUME ListInv
  PROVE  /\ log \in Seq(Message) /\ Len(log) \in Nat
         /\ disp.pc # "idle" => Len(log) \in 1..Len(log)
<1>1. log \in Seq(Message) /\ Len(log) \in Nat
  BY LenProperties DEF ListInv, QueueInv, ChannelTypes
<1>2. disp.pc # "idle" => Len(log) # 0
  BY <1>1, EmptySeq DEF ListInv, QueueInv, DispatchOK
<1> QED BY <1>1, <1>2

\* A message is taken: it is still to come for every member.
LEMMA DispatchOwed ==
  ASSUME ListInv, DistinctIds, Dispatch, NEW r \in Peers \cup Writeable, Kind(r) \notin race,
         ReceiverOK(r)
  PROVE  ReceiverOK(r)'
<1> DEFINE m == Head(buffer)
<1>1. /\ disp.pc = "idle" /\ buffer # << >> /\ log' = Append(log, m)
      /\ disp' = [pc |-> "local", msg |-> m, it |-> RangeOver("peers")]
      /\ UNCHANGED <<lists, sockets, since, pc>>
  BY DEF Dispatch
<1>2. m \in Message /\ log \in Seq(Message) /\ Len(log) \in Nat
  BY <1>1, HeadTailProperties, LogParts DEF ListInv, QueueInv, ChannelTypes
<1>3. Len(log') = Len(log) + 1
  BY <1>1, <1>2, AppendProperties
<1>4. Kind(r) \in Lists /\ r \in Conn /\ (Kind(r) = "peers" \/ r \in Writeable)
  BY Kinds, ConstantTypes DEF Conn, Kind
<1>5. Handed(r) = Len(log)
  BY <1>1, <1>4 DEF Handed, Waiting, DispatchList, Lists
<1>6. ASSUME r \in joined PROVE Handed(r)' = Len(log)
  <2>1. CASE r \in Writeable
    BY <1>1, <1>2, <1>3, <2>1 DEF Handed, Waiting
  <2>2. CASE r \notin Writeable
    <3>1. DispatchList' = "peers" /\ Kind(r) = "peers"
      BY <1>1, <1>4, <2>2 DEF DispatchList
    <3>2. disp'.it.i = 0 /\ disp'.it.arr = list["peers"].arr /\ disp'.it.len = list["peers"].len
      BY <1>1 DEF RangeOver
    <3>3. PICK j \in 1..list["peers"].len : Shown("peers", list["peers"], j) = r
      BY <1>6, <3>1, MemberShown
    <3>4. Waiting(r)'
      BY <1>1, <3>1, <3>2, <3>3 DEF Waiting, Shown, lists
    <3> QED BY <1>2, <1>3, <3>4 DEF Handed
  <2> QED BY <2>1, <2>2
<1>7. ASSUME r \in joined
      PROVE  Filter(SubSeq(log', since[r] + 1, Len(log)), For(r)) =
               Filter(SubSeq(log, since[r] + 1, Len(log)), For(r))
  <2>1. since[r] \in Nat /\ since[r] <= Len(log)
    BY <1>4, <1>5, <1>7, ConstantTypes DEF ReceiverOK, ListInv, QueueInv, ChannelTypes
  <2> HIDE DEF m
  <2> QED BY <1>1, <1>2, <2>1, LogGrows
<1> QED BY <1>1, <1>5, <1>6, <1>7 DEF ReceiverOK, lists, sockets

LEMMA DispatchGroup ==
  ASSUME ListInv, DistinctIds, GroupInv, Dispatch
  PROVE  GroupInv'
<1> DEFINE m == Head(buffer)
<1>1. /\ log' = Append(log, m)
      /\ disp' = [pc |-> "local", msg |-> m, it |-> RangeOver("peers")]
      /\ UNCHANGED <<lists, sockets, since, pc, it>> /\ buffer # << >>
  BY DEF Dispatch
<1>2. PumpsOK' /\ Opened'
  BY <1>1, PumpsStay, OpenedStays DEF GroupInv, sockets
<1>3. m \in Message /\ log \in Seq(Message)
  BY <1>1, HeadTailProperties DEF ListInv, QueueInv, ChannelTypes
<1> HIDE DEF m
<1>4. log'[Len(log')] = m
  BY <1>1, <1>3, AppendProperties, LenProperties
<1>5. RoundSees("peers", RangeOver("peers")) /\ RangeOver("peers").cur = Nil
  BY RangeSees DEF Lists, RangeOver
<1>6. DispatchSees'
  BY <1>1, <1>4, <1>5 DEF DispatchSees, DispatchList, RoundSees, Shown, lists
<1>7. ASSUME NEW r \in Peers \cup Writeable, Kind(r) \notin race' PROVE ReceiverOK(r)'
  BY <1>1, <1>7, DispatchOwed DEF GroupInv, lists
<1> QED BY <1>2, <1>6, <1>7 DEF GroupInv

\* Where the dispatcher goes after a round: on, to the proxies, or home.
Rounds ==
  \/ ~Last(disp.it) /\ disp' = [disp EXCEPT !.it = NextRound(DispatchList, @)]
  \/ /\ Last(disp.it) /\ disp.pc = "local" /\ ~disp.msg.fromProxy
     /\ disp' = [disp EXCEPT !.pc = "remote", !.it = RangeOver("proxies")]
  \/ /\ Last(disp.it) /\ (disp.pc = "remote" \/ disp.msg.fromProxy)
     /\ disp' = NoDispatch

\* This round is r's: its element is r, or it turns out that r gets nothing.
Taken(r) ==
  \/ DispatchList = Kind(r) /\ disp.it.cur = r
  \/ r \in Writeable /\ disp.pc = "local" /\ Last(disp.it) /\ disp.msg.fromProxy

\* What the dispatcher is at.
LEMMA DispatcherAt ==
  ASSUME ListInv, disp.pc # "idle"
  PROVE  /\ disp.pc \in {"local", "remote"} /\ disp.msg \in Message /\ disp.it \in LoopState
         /\ DispatchList \in Lists
         /\ DispatchList = IF disp.pc = "local" THEN "peers" ELSE "proxies"
         /\ disp = [pc |-> disp.pc, msg |-> disp.msg, it |-> disp.it]
BY DEF ListInv, QueueInv, ChannelTypes, DispatchOK, DispatchList, Lists

LEMMA ReceiverKind ==
  ASSUME NEW r \in Peers \cup Writeable
  PROVE  /\ r \in Conn /\ Kind(r) \in Lists
         /\ (r \in Writeable /\ r \notin Peers /\ Kind(r) = "proxies") \/ (r \in Peers /\ r \notin Writeable /\ Kind(r) = "peers")
BY Kinds, ConstantTypes, KindsDisjoint DEF Conn, Kind

\* A round that goes on.
LEMMA RoundOn ==
  ASSUME ListInv, DistinctIds, DispatchSees, disp.pc # "idle", UNCHANGED lists,
         NEW r \in Peers \cup Writeable, Kind(r) \notin race, ~Last(disp.it),
         disp' = [disp EXCEPT !.it = NextRound(DispatchList, @)]
  PROVE  /\ Taken(r) => Waiting(r)
         /\ Waiting(r)' <=> Waiting(r) /\ ~Taken(r)
<1> DEFINE k == DispatchList
           d == disp.it
           e == NextRound(k, d)
<1>1. /\ disp.pc \in {"local", "remote"} /\ disp.msg \in Message /\ d \in LoopState /\ k \in Lists
      /\ disp = [pc |-> disp.pc, msg |-> disp.msg, it |-> d]
  BY DispatcherAt
<1>2. disp' = [disp EXCEPT !.it = e]
  OBVIOUS
<1> HIDE DEF e
<1>3. disp'.pc = disp.pc /\ disp'.it = e
  BY <1>1, <1>2
<1>4. k' = k
  BY <1>3 DEF DispatchList
<1>5. CASE Kind(r) # k
  BY <1>3, <1>4, <1>5 DEF Waiting, Taken
<1>6. CASE Kind(r) = k
  <2>1. RoundSees(k, d) /\ r \in Conn /\ Kind(r) # "none" /\ ~(r \in Writeable /\ disp.pc = "local")
    BY <1>1, <1>6, ReceiverKind, DispatcherAt DEF DispatchSees, Lists
  <2>2. RoundSees(k, e) /\ e.i = d.i + 1 /\ e.arr = d.arr /\ e.len = d.len
    BY <1>1, <2>1, NextSees DEF e
  <2>3. \A i, j \in 1..d.len : Shown(k, d, i) = Shown(k, d, j) => i = j
    BY <1>1, <1>6, <2>1, SeesMembers
  <2>4. d.i \in Nat /\ d.len \in Nat /\ d.i <= d.len /\ r # Nil
        /\ d.cur = IF d.i = 0 THEN Nil ELSE Shown(k, d, d.i)
    BY <1>1, <2>1, KindsDisjoint DEF LoopState, RoundSees
  <2>5. \A j \in 1..d.len : heap'[k][e.arr].at[j] = Shown(k, d, j)
    BY <2>2 DEF Shown, lists
  <2> HIDE DEF k, d
  <2>6. Waiting(r) <=> \E j \in 1..d.len : d.i <= j /\ Shown(k, d, j) = r
    BY <1>6, <2>1 DEF Waiting, k, d
  <2>7. Waiting(r)' <=> \E j \in 1..d.len : d.i + 1 <= j /\ Shown(k, d, j) = r
    BY <1>3, <1>4, <1>6, <2>1, <2>2, <2>5 DEF Waiting, k, Shown
  <2>8. Taken(r) <=> d.cur = r
    BY <1>6, <2>1 DEF Taken, k, d
  <2>9. CASE d.cur = r
    <3>1. d.i \in 1..d.len /\ Shown(k, d, d.i) = r
      BY <2>4, <2>9
    <3>2. ASSUME NEW j \in 1..d.len, d.i + 1 <= j PROVE Shown(k, d, j) # r
      BY <2>3, <2>4, <3>1, <3>2
    <3> QED BY <2>4, <2>6, <2>7, <2>8, <2>9, <3>1, <3>2
  <2>10. CASE d.cur # r
    <3>1. ASSUME NEW j \in 1..d.len, d.i <= j, Shown(k, d, j) = r PROVE d.i + 1 <= j
      BY <2>4, <2>10, <3>1
    <3>2. ASSUME NEW j \in 1..d.len, d.i + 1 <= j PROVE d.i <= j
      BY <2>4, <3>2
    <3> QED BY <2>6, <2>7, <2>8, <2>10, <3>1, <3>2
  <2> QED BY <2>9, <2>10
<1> QED BY <1>5, <1>6

\* A round that ends its loop.
LEMMA RoundEnds ==
  ASSUME ListInv, DistinctIds, DispatchSees, disp.pc # "idle", UNCHANGED lists, Rounds,
         NEW r \in Peers \cup Writeable, Kind(r) \notin race, r \in joined, Last(disp.it)
  PROVE  /\ Taken(r) => Waiting(r)
         /\ Waiting(r)' <=> Waiting(r) /\ ~Taken(r)
<1> DEFINE k == DispatchList
           d == disp.it
<1>1. /\ disp.pc \in {"local", "remote"} /\ disp.msg \in Message /\ d \in LoopState /\ k \in Lists
      /\ disp = [pc |-> disp.pc, msg |-> disp.msg, it |-> d]
      /\ k = IF disp.pc = "local" THEN "peers" ELSE "proxies"
  BY DispatcherAt
<1>2. d.i \in Nat /\ d.len \in Nat /\ d.len <= d.i
  BY <1>1 DEF LoopState, Last
<1>3. ASSUME Kind(r) = k
      PROVE  (Waiting(r) <=> d.cur = r) /\ (Taken(r) <=> d.cur = r)
  <2>1. RoundSees(k, d) /\ r # Nil /\ Kind(r) # "none" /\ ~(r \in Writeable /\ disp.pc = "local")
    BY <1>1, <1>3, ReceiverKind, KindsDisjoint DEF DispatchSees, Lists
  <2>2. d.i = d.len /\ d.cur = IF d.i = 0 THEN Nil ELSE Shown(k, d, d.i)
    BY <1>2, <2>1 DEF RoundSees
  <2> HIDE DEF k, d
  <2>3. Waiting(r) <=> \E j \in 1..d.len : d.i <= j /\ Shown(k, d, j) = r
    BY <1>3, <2>1 DEF Waiting, k, d
  <2>4. \A j \in 1..d.len : d.i <= j => j = d.i
    BY <1>2, <2>2
  <2>5. Waiting(r) <=> d.cur = r
    <3>1. CASE d.i = 0
      BY <1>2, <2>1, <2>2, <2>3, <3>1
    <3>2. CASE d.i # 0
      BY <1>2, <2>2, <2>3, <2>4, <3>2
    <3> QED BY <3>1, <3>2
  <2>6. Taken(r) <=> d.cur = r
    BY <1>3, <2>1 DEF Taken, k, d
  <2> QED BY <2>5, <2>6
<1>4. CASE disp.pc = "local" /\ ~disp.msg.fromProxy
  <2>1. disp' = [disp EXCEPT !.pc = "remote", !.it = RangeOver("proxies")]
    BY <1>4 DEF Rounds
  <2>2. disp'.pc = "remote" /\ disp'.it = RangeOver("proxies")
    BY <1>1, <2>1
  <2>3. DispatchList' = "proxies"
    BY <2>2 DEF DispatchList
  <2>4. CASE r \in Writeable
    <3>1. PICK j \in 1..list["proxies"].len : Shown("proxies", list["proxies"], j) = r
      BY <2>4, ReceiverKind, MemberShown
    <3>2. list["proxies"].len \in Nat
      BY DEF ListInv, StoreInv, ListTypes, Lists, Header
    <3>3. Waiting(r)'
      <4>1. disp'.it.arr = list["proxies"].arr /\ disp'.it.len = list["proxies"].len /\ disp'.it.i = 0
        BY <2>2 DEF RangeOver
      <4>2. Kind(r) = "proxies"
        BY <2>4, ReceiverKind
      <4>3. j \in 1..disp'.it.len /\ disp'.it.i <= j /\ heap'["proxies"][disp'.it.arr].at[j] = r
        BY <3>1, <3>2, <4>1 DEF Shown, lists
      <4> QED BY <2>3, <4>2, <4>3 DEF Waiting, Shown
    <3>4. Waiting(r) /\ ~Taken(r)
      BY <1>1, <1>4, <2>4, ReceiverKind DEF Waiting, Taken
    <3> QED BY <3>3, <3>4
  <2>5. CASE r \notin Writeable
    <3>1. Kind(r) = "peers" /\ Kind(r) = k
      BY <1>1, <1>4, <2>5, ReceiverKind
    <3>2. ~Waiting(r)'
      BY <2>2, <2>3, <2>5, <3>1 DEF Waiting
    <3> QED BY <1>3, <3>1, <3>2
  <2> QED BY <2>4, <2>5
<1>5. CASE disp.pc = "remote" \/ disp.msg.fromProxy
  <2>1. disp' = NoDispatch
    BY <1>1, <1>5 DEF Rounds
  <2>2. ~Waiting(r)'
    BY <2>1, ReceiverKind DEF Waiting, NoDispatch, DispatchList, Lists
  <2>3. Taken(r) <=> Waiting(r)
    <3>1. CASE Kind(r) = k
      BY <1>3, <3>1
    <3>2. CASE Kind(r) # k
      BY <1>1, <1>5, <3>2, ReceiverKind DEF Taken, Waiting
    <3> QED BY <3>1, <3>2
  <2> QED BY <2>2, <2>3
<1> QED BY <1>1, <1>4, <1>5

\* What a round writes to r.
LEMMA RoundWrites ==
  ASSUME ListInv, DistinctIds, DispatchSees, Opened, disp.pc # "idle",
         NEW r \in Peers \cup Writeable, Kind(r) \notin race, r \in joined,
         \A x \in DispatchTouches : ws[x] # "nil",
         inbox' = [x \in Peers \cup Writeable |->
                     IF x \in DispatchTouches /\ ws[x] = "open"
                       THEN Append(inbox[x], disp.msg) ELSE inbox[x]]
  PROVE  inbox'[r] = IF Taken(r) /\ disp.msg \in For(r)
                       THEN Append(inbox[r], disp.msg) ELSE inbox[r]
<1>1. /\ disp.pc \in {"local", "remote"} /\ disp.msg \in Message
      /\ DispatchList = IF disp.pc = "local" THEN "peers" ELSE "proxies"
  BY DispatcherAt
<1>2. r \in DispatchTouches <=> disp.it.cur = r /\ DispatchList = Kind(r) /\ Id[r] # disp.msg.source
  <2>1. r # Nil /\ ((r \in Writeable /\ r \notin Peers /\ Kind(r) = "proxies")
                      \/ (r \in Peers /\ r \notin Writeable /\ Kind(r) = "peers"))
    BY ReceiverKind, KindsDisjoint
  <2>2. CASE disp.pc = "local"
    BY <1>1, <2>1, <2>2 DEF DispatchTouches, DispatchSees
  <2>3. CASE disp.pc = "remote"
    BY <1>1, <2>1, <2>3 DEF DispatchTouches
  <2> QED BY <1>1, <2>2, <2>3
<1>3. Taken(r) /\ disp.msg \in For(r) <=> r \in DispatchTouches
  <2>1. disp.msg \in For(r) <=> disp.msg.source # Id[r] /\ (r \in Writeable => ~disp.msg.fromProxy)
    BY <1>1 DEF For
  <2>2. DispatchList = Kind(r) /\ r \in Writeable => ~disp.msg.fromProxy
    BY <1>1, ReceiverKind DEF DispatchSees
  <2> QED BY <1>2, <2>1, <2>2 DEF Taken
<1>4. r \in DispatchTouches => ws[r] = "open"
  <2>1. ws[r] \in {"open", "nil"}
    BY ReceiverKind, KindsDisjoint DEF Opened, Conn, Kind
  <2> QED BY <2>1
<1> QED BY <1>3, <1>4

\* Whom a round writes to is in its list.
LEMMA TouchedJoined ==
  ASSUME ListInv, DistinctIds, DispatchSees, disp.pc # "idle",
         NEW r \in Peers \cup Writeable, Kind(r) \notin race, r \in DispatchTouches
  PROVE  r \in joined
<1>1. disp.it.cur = r /\ DispatchList = Kind(r) /\ r # Nil /\ Kind(r) \in Lists \ race
  <2>1. disp.pc = "local" => disp.it.cur \in Peers \cup {Nil}
    BY DEF DispatchSees
  <2>2. disp.pc = "remote" /\ r \in Peers => r \notin DispatchTouches
    BY ReceiverKind DEF DispatchTouches
  <2> QED BY <2>1, <2>2, DispatcherAt, ReceiverKind, KindsDisjoint DEF DispatchTouches
<1>2. RoundSees(Kind(r), disp.it) /\ disp.it \in LoopState
  BY <1>1, DispatcherAt DEF DispatchSees, Lists
<1>3. disp.it.i \in 1..disp.it.len /\ Shown(Kind(r), disp.it, disp.it.i) = r
  BY <1>1, <1>2 DEF RoundSees, LoopState
<1> QED BY <1>1, <1>2, <1>3, SeesMembers

\* Once its round has come, all r is still owed is the message at hand.
LEMMA TakenOwed ==
  ASSUME ListInv, DistinctIds, DispatchSees, disp.pc # "idle",
         NEW r \in Peers \cup Writeable, r \in joined, ReceiverOK(r), Waiting(r)
  PROVE  Owed(r) = IF disp.msg \in For(r) THEN Append(inbox[r], disp.msg) ELSE inbox[r]
<1> DEFINE n == since[r]
           m == Len(log)
           T == For(r)
<1>1. log \in Seq(Message) /\ m \in Nat /\ m \in 1..Len(log) /\ disp.msg = log[m]
  BY LogParts DEF DispatchSees
<1>2. n \in Nat /\ n <= m - 1 /\ inbox[r] = Filter(SubSeq(log, n + 1, m - 1), T)
  BY ReceiverKind, ConstantTypes DEF ReceiverOK, Handed, ListInv, QueueInv, ChannelTypes
<1>3. n < m
  BY <1>1, <1>2
<1>4. Owed(r) = Filter(SubSeq(log, n + 1, m), T)
  BY DEF Owed
<1> HIDE DEF n, m, T
<1>5. Filter(SubSeq(log, n + 1, m), T) =
        IF log[m] \in T THEN Append(Filter(SubSeq(log, n + 1, m - 1), T), log[m])
                        ELSE Filter(SubSeq(log, n + 1, m - 1), T)
  BY <1>1, <1>2, <1>3, OneMore
<1>6. Owed(r) = IF disp.msg \in T THEN Append(inbox[r], disp.msg) ELSE inbox[r]
  BY <1>1, <1>2, <1>4, <1>5
<1> QED BY <1>6 DEF T

\* r has what it is owed after the round.
LEMMA RoundOwed ==
  ASSUME ListInv, DistinctIds, DispatchSees, Opened, disp.pc # "idle", Rounds,
         NEW r \in Peers \cup Writeable, Kind(r) \notin race, ReceiverOK(r),
         \A x \in DispatchTouches : ws[x] # "nil",
         inbox' = [x \in Peers \cup Writeable |->
                     IF x \in DispatchTouches /\ ws[x] = "open"
                       THEN Append(inbox[x], disp.msg) ELSE inbox[x]],
         UNCHANGED <<lists, log, since, pc>>
  PROVE  ReceiverOK(r)'
<1>1. log \in Seq(Message) /\ Len(log) \in Nat /\ Len(log) \in 1..Len(log) /\ disp.msg = log[Len(log)]
  BY LogParts DEF DispatchSees
<1>2. ASSUME r \in joined
      PROVE  /\ since[r] <= Handed(r)'
             /\ inbox'[r] = Filter(SubSeq(log, since[r] + 1, Handed(r)'), For(r))
  <2>1. /\ Taken(r) => Waiting(r)
        /\ Waiting(r)' <=> Waiting(r) /\ ~Taken(r)
    BY <1>2, RoundOn, RoundEnds DEF Rounds
  <2>2. inbox'[r] = IF Taken(r) /\ disp.msg \in For(r)
                      THEN Append(inbox[r], disp.msg) ELSE inbox[r]
    BY <1>2, RoundWrites
  <2>3. since[r] \in Nat /\ since[r] <= Handed(r)
        /\ inbox[r] = Filter(SubSeq(log, since[r] + 1, Handed(r)), For(r))
    BY <1>2, ReceiverKind, ConstantTypes DEF ReceiverOK, ListInv, QueueInv, ChannelTypes
  <2>4. CASE Taken(r)
    <3>1. Handed(r) = Len(log) - 1 /\ Handed(r)' = Len(log)
      BY <2>1, <2>4 DEF Handed
    <3>2. since[r] < Len(log)
      BY <1>1, <2>3, <3>1
    <3>3. Owed(r) = IF disp.msg \in For(r) THEN Append(inbox[r], disp.msg) ELSE inbox[r]
      BY <1>2, <2>1, <2>4, TakenOwed
    <3> QED BY <1>1, <2>2, <2>3, <2>4, <3>1, <3>2, <3>3 DEF Owed
  <2>5. CASE ~Taken(r)
    <3>1. Handed(r)' = Handed(r)
      BY <2>1, <2>5 DEF Handed
    <3> QED BY <2>2, <2>3, <2>5, <3>1
  <2> QED BY <2>4, <2>5
<1>3. pc'[<<r, "serve">>] \in {"new", "append"} => inbox'[r] = << >>
  <2>1. ASSUME pc'[<<r, "serve">>] \in {"new", "append"} PROVE r \notin DispatchTouches
    <3>1. r \notin joined
      BY <2>1, ReceiverKind DEF ListInv, MoveInv, Fresh
    <3> QED BY <3>1, TouchedJoined
  <2> QED BY <2>1 DEF ReceiverOK
<1> QED BY <1>2, <1>3 DEF ReceiverOK, lists

\* The dispatcher's loop sees its list after a round.
LEMMA RoundSeen ==
  ASSUME ListInv, DispatchSees, disp.pc # "idle", Rounds, UNCHANGED <<lists, log>>
  PROVE  DispatchSees'
<1> DEFINE k == DispatchList
           d == disp.it
<1>1. /\ disp.pc \in {"local", "remote"} /\ disp.msg \in Message /\ d \in LoopState /\ k \in Lists
      /\ disp = [pc |-> disp.pc, msg |-> disp.msg, it |-> d]
      /\ k = IF disp.pc = "local" THEN "peers" ELSE "proxies"
      /\ InHeap(heap[k], d)
  BY DispatcherAt DEF ListInv, QueueInv, DispatchOK
<1>2. CASE ~Last(d) /\ disp' = [disp EXCEPT !.it = NextRound(k, @)]
  <2> DEFINE e == NextRound(k, d)
  <2>1. e.cur \in Members(k) \cup {Nil}
    BY <1>1, NextRoundOK DEF ListInv, StoreInv
  <2>2. RoundSees(k, d) => RoundSees(k, e)
    BY <1>1, <1>2, NextSees
  <2>3. disp' = [disp EXCEPT !.it = e]
    BY <1>2
  <2> HIDE DEF e
  <2>4. disp'.pc = disp.pc /\ disp'.msg = disp.msg /\ disp'.it = e /\ k' = k
    BY <1>1, <2>3 DEF DispatchList
  <2>5. list' = list /\ heap' = heap /\ race' = race
    BY DEF lists
  <2>6. k \notin race' \cup {"none"} => RoundSees(k, disp.it)'
    BY <1>1, <2>2, <2>4, <2>5 DEF DispatchSees, RoundSees, Shown
  <2> QED BY <1>1, <2>1, <2>4, <2>6 DEF DispatchSees, Members
<1>3. CASE disp' = [disp EXCEPT !.pc = "remote", !.it = RangeOver("proxies")] /\ ~disp.msg.fromProxy
  <2> DEFINE e == RangeOver("proxies")
  <2>1. RoundSees("proxies", e)
    BY RangeSees DEF Lists
  <2>2. disp' = [disp EXCEPT !.pc = "remote", !.it = e]
    BY <1>3
  <2> HIDE DEF e
  <2>3. disp'.pc = "remote" /\ disp'.msg = disp.msg /\ disp'.it = e /\ k' = "proxies"
    BY <1>1, <2>2 DEF DispatchList
  <2>4. RoundSees("proxies", disp.it)'
    BY <2>1, <2>3 DEF RoundSees, Shown, lists
  <2> QED BY <1>1, <1>3, <2>3, <2>4 DEF DispatchSees
<1>4. CASE disp' = NoDispatch
  BY <1>4 DEF DispatchSees, NoDispatch, DispatchList
<1> QED BY <1>2, <1>3, <1>4 DEF Rounds

LEMMA RoundGroup ==
  ASSUME ListInv, DistinctIds, GroupInv, LocalBroadcast \/ RemoteBroadcast
  PROVE  GroupInv'
<1>1. /\ disp.pc # "idle" /\ Rounds
      /\ \A x \in DispatchTouches : ws[x] # "nil"
      /\ inbox' = [x \in Peers \cup Writeable |->
                     IF x \in DispatchTouches /\ ws[x] = "open"
                       THEN Append(inbox[x], disp.msg) ELSE inbox[x]]
      /\ UNCHANGED <<lists, ws, log, since, pc, it>>
  <2>1. CASE LocalBroadcast
    BY <2>1 DEF LocalBroadcast, BroadcastRound, Rounds
  <2>2. CASE RemoteBroadcast
    BY <2>2 DEF RemoteBroadcast, BroadcastRound, Rounds
  <2> QED BY <2>1, <2>2
<1>2. PumpsOK' /\ Opened'
  BY <1>1, PumpsStay, OpenedStays DEF GroupInv
<1>3. DispatchSees'
  BY <1>1, RoundSeen DEF GroupInv
<1>4. ASSUME NEW r \in Peers \cup Writeable, Kind(r) \notin race' PROVE ReceiverOK(r)'
  BY <1>1, <1>4, RoundOwed DEF GroupInv, lists
<1> QED BY <1>2, <1>3, <1>4 DEF GroupInv

----------------------------------------------------------------------------
(* All steps.                                                              *)

Adds(c) == \/ c \in Peers /\ AddPeer(c)
           \/ c \in Controls /\ AddControl(c)
           \/ c \in Proxies /\ AddProxy(c)

\* Whatever happens is calm, changes a list, or is the dispatcher's.
LEMMA StepKinds ==
  ASSUME ListInv, DistinctIds, PumpsOK, Opened, [Next]_vars
  PROVE  \/ Calm
         \/ \E c \in Conn : Adds(c) \/ CutStore(Pump(c))
         \/ Dispatch \/ LocalBroadcast \/ RemoteBroadcast
<1>0. Peers \subseteq Conn /\ Controls \subseteq Conn /\ Proxies \subseteq Conn
  BY DEF Conn
<1> DEFINE Goal == \/ Calm
                   \/ \E c \in Conn : Adds(c) \/ CutStore(Pump(c))
                   \/ Dispatch \/ LocalBroadcast \/ RemoteBroadcast
<1>1. ASSUME NEW c \in Conn, Accept(c) \/ ReadFails(c) PROVE Calm
  BY <1>1, AcceptCalm, ReadFailsCalm
<1>2. ASSUME NEW p \in Peers, PeerReads(p) PROVE Calm
  BY <1>2, ClientCalm
<1>3. ASSUME NEW c \in Controls, ControlReads(c) \/ ControlReadsMalformed(c) PROVE Calm
  BY <1>3, ClientCalm
<1>4. ASSUME NEW x \in Proxies, ProxyReads(x) PROVE Calm
  BY <1>4, ClientCalm
<1>5. ASSUME Dispatcher PROVE Goal
  BY <1>5, CalmCrash DEF Dispatcher, DispatchPanics
<1>6. ASSUME NEW c \in Conn, Teardown(c) \/ Panics(c) PROVE Goal
  BY <1>6, ScanCalm, CutCalm, CloseCalm, CalmCrash, WritePanicsCalm DEF Teardown, Panics, PumpPanics
<1>7. ASSUME NEW p \in Peers, PeerServe(p) \/ PeerPump(p) PROVE Goal
  <2>1. CASE PeerServe(p)
    BY <1>0, <2>1, PeerToControlsCalm, PeerToProxiesCalm, WritePanicsCalm DEF PeerServe, Adds
  <2>2. CASE PeerPump(p)
    BY <1>0, <1>6, <2>2, NotifyCalm, EnqueueCalm, FindControlCalm, CloseCalm, PeerToControlsCalm,
       PeerToProxiesCalm DEF PeerPump
  <2> QED BY <1>7, <2>1, <2>2
<1>8. ASSUME NEW c \in Controls, ControlServe(c) \/ ControlPump(c) PROVE Goal
  <2>1. CASE ControlServe(c)
    BY <1>0, <2>1, ControlServeCalm, WritePanicsCalm DEF ControlServe, Adds
  <2>2. CASE ControlPump(c)
    BY <1>0, <1>6, <2>2, RelayCalm DEF ControlPump
  <2> QED BY <1>8, <2>1, <2>2
<1>9. ASSUME NEW x \in Proxies, ProxyServe(x) \/ ProxyPump(x) PROVE Goal
  <2>1. CASE ProxyServe(x)
    BY <1>0, <2>1, ProxyToFarEndCalm, WritePanicsCalm DEF ProxyServe, Adds
  <2>2. CASE ProxyPump(x)
    BY <1>0, <1>6, <2>2, ProxyInformsCalm, NotifyCalm, EnqueueCalm, RelayCalm, ProxyToFarEndCalm
       DEF ProxyPump
  <2> QED BY <1>9, <2>1, <2>2
<1>10. CASE UNCHANGED vars
  BY <1>10, CalmStay DEF vars, sockets
<1> QED BY <1>1, <1>2, <1>3, <1>4, <1>5, <1>7, <1>8, <1>9, <1>10 DEF Next, ClientStep

LEMMA GroupInitOK == Init => GroupInv
<1> SUFFICES ASSUME Init PROVE GroupInv
  OBVIOUS
<1>1. /\ joined = {} /\ disp = NoDispatch
      /\ \A c \in Conn : pc[<<c, "serve">>] = "new" /\ pc[Pump(c)] = "none"
      /\ \A r \in Peers \cup Writeable : inbox[r] = << >>
  BY GoroutineParts, PumpParts DEF Init, Pump
<1>2. PumpsOK /\ Opened
  BY <1>1 DEF PumpsOK, PumpOK, Removing, Opened
<1>3. DispatchSees
  BY <1>1 DEF DispatchSees, DispatchList, NoDispatch
<1> QED BY <1>1, <1>2, <1>3 DEF GroupInv, ReceiverOK

LEMMA GroupStepOK == ListInv /\ GroupInv /\ [Next]_vars => GroupInv'
<1> SUFFICES ASSUME ListInv, GroupInv, [Next]_vars, DistinctIds PROVE GroupInv'
  BY DEF GroupInv, DistinctIds
<1>1. PumpsOK /\ Opened
  BY DEF GroupInv
<1> QED BY <1>1, StepKinds, CalmGroup, AddsGroup, CutStoreGroup, DispatchGroup, RoundGroup DEF Adds

\* In every state the dispatcher's loop sees its list as it is, and what a
\* receiver has been written is what it is owed of the log up to the
\* dispatcher's round.
THEOREM GroupInvariant == Spec => [](ListInv /\ GroupInv)
<1>1. ListInv /\ GroupInv /\ [Next]_vars => (ListInv /\ GroupInv)'
  BY StepOK, GroupStepOK
<1> QED BY <1>1, InitOK, GroupInitOK, PTL DEF Spec

\* Who is not waiting has everything.
LEMMA NothingMissing ==
  ASSUME GroupInv, DistinctIds, NEW r \in Peers \cup Writeable, r \in joined, Kind(r) \notin race, ~Waiting(r)
  PROVE  inbox[r] = Owed(r)
BY DEF GroupInv, ReceiverOK, Handed, Owed

\* Between two rounds of localBroadcast every peer in the list has been written
\* every message dispatched since it joined, except its own, once and in order
\* (socket.go:158-184), for any number of peers and however their joining and
\* leaving falls between the rounds.
THEOREM BroadcastsReachPeers == Spec => []BroadcastExact
<1>1. ListInv /\ GroupInv => BroadcastExact
  <2> SUFFICES ASSUME ListInv, GroupInv, DistinctIds, "peers" \notin race, disp.pc # "local",
                      NEW p \in Peers \cap joined
               PROVE  inbox[p] = Owed(p)
    BY DEF BroadcastExact
  <2>1. Kind(p) = "peers" /\ p \notin Writeable
    BY ReceiverKind
  <2>2. ~Waiting(p)
    BY <2>1 DEF Waiting, DispatchList
  <2> QED BY <2>1, <2>2, NothingMissing
<1> QED BY <1>1, GroupInvariant, PTL

\* When the dispatcher is idle every writeable proxy in the list has been
\* written every message of a local peer dispatched since it joined, once and
\* in order, and none that came from a proxy (socket.go:188-204).
THEOREM BroadcastsReachProxies == Spec => []RemoteBroadcastExact
<1>1. ListInv /\ GroupInv => RemoteBroadcastExact
  <2> SUFFICES ASSUME ListInv, GroupInv, DistinctIds, "proxies" \notin race, disp.pc = "idle",
                      NEW x \in Writeable \cap joined
               PROVE  inbox[x] = Owed(x)
    BY DEF RemoteBroadcastExact
  <2>1. Kind(x) = "proxies"
    BY ReceiverKind
  <2>2. ~Waiting(x)
    BY <2>1 DEF Waiting, DispatchList
  <2> QED BY <2>1, <2>2, NothingMissing
<1> QED BY <1>1, GroupInvariant, PTL

----------------------------------------------------------------------------
(* The broadcast group.                                                    *)

Sound == DistinctIds /\ race \cap {"peers", "proxies"} = {}

\* The state of the abstract group.
SameGroup == /\ joined' \cap Receivers = joined \cap Receivers
             /\ \A r \in Receivers : since'[r] = since[r]
             /\ UNCHANGED <<buffer, log, inbox>>

LEMMA StartSame ==
  ASSUME \A r \in Receivers : since'[r] = since[r]
  PROVE  [r \in Receivers |-> since'[r]] = [r \in Receivers |-> since[r]]
OBVIOUS

LEMMA GroupStutters ==
  ASSUME SameGroup, Sound, Sound'
  PROVE  UNCHANGED Group!vars
BY StartSame DEF SameGroup, Sound, Group!vars, DistinctIds

LEMMA ReceiversSound ==
  ASSUME Sound, GroupInv, NEW r \in Receivers
  PROVE  ReceiverOK(r) /\ Kind(r) \notin race /\ DistinctIds
         /\ r \in Peers \cup Writeable
BY ReceiverKind DEF Sound, GroupInv, Receivers

\* A calm step offers a message or does nothing the group can see.
LEMMA CalmOffers ==
  ASSUME Calm, Sound, Sound'
  PROVE  [Group!Next]_(Group!vars)
<1>1. joined' = joined /\ since' = since /\ log' = log /\ inbox' = inbox
  BY DEF Calm, lists
<1>2. CASE buffer' = buffer
  BY <1>1, <1>2, GroupStutters DEF SameGroup
<1>3. CASE \E m \in Message : buffer' = Append(buffer, m)
  <2>1. PICK m \in Message : buffer' = Append(buffer, m)
    BY <1>3
  <2>2. Group!Offer(m)
    BY <1>1, <2>1, StartSame DEF Group!Offer
  <2>3. Group!Step
    BY <2>2 DEF Group!Step
  <2> QED BY <2>3 DEF Group!Next, Sound, DistinctIds
<1> QED BY <1>2, <1>3 DEF Calm

\* A receiver that is added joins the group; other connections are none of its.
LEMMA AddsJoins ==
  ASSUME ListInv, NEW c \in Conn, Adds(c), Sound, Sound'
  PROVE  [Group!Next]_(Group!vars)
<1>1. /\ Joins(c) /\ joined' = joined \cup {c}
      /\ UNCHANGED <<buffer, log, inbox>> /\ c \notin joined
  BY DEF Adds, AddPeer, AddControl, AddProxy, Joins, sockets, At, ListInv, MoveInv, Fresh
<1>2. since \in [Peers \cup Proxies -> Nat] /\ log \in Seq(Message) /\ Len(log) \in Nat
      /\ (disp.pc = "local" => Len(log) >= 1)
  BY LogParts DEF ListInv, QueueInv, ChannelTypes
<1>3. Receivers = Peers \cup Writeable /\ Writeable \subseteq Proxies
      /\ Peers \cap Controls = {} /\ Peers \cap Proxies = {} /\ Controls \cap Proxies = {}
  BY ConstantTypes, KindsDisjoint DEF Receivers
<1>4. CASE c \notin Receivers
  <2>1. \A r \in Receivers : since'[r] = since[r]
    <3>1. CASE c \in Controls /\ AddControl(c)
      BY <3>1 DEF AddControl
    <3>2. CASE c \in Proxies /\ AddProxy(c)
      <4>1. since' = [since EXCEPT ![c] = Len(log) - (IF disp.pc = "local" THEN 1 ELSE 0)]
        BY <3>2 DEF AddProxy
      <4> QED BY <1>2, <1>3, <1>4, <4>1
    <3> QED BY <1>3, <1>4, <3>1, <3>2 DEF Adds
  <2>2. SameGroup
    BY <1>1, <1>4, <2>1 DEF SameGroup
  <2> QED BY <2>2, GroupStutters
<1>5. CASE c \in Receivers
  <2> DEFINE n == IF c \in Peers THEN Len(log) ELSE Len(log) - (IF disp.pc = "local" THEN 1 ELSE 0)
  <2>1. since' = [since EXCEPT ![c] = n]
    BY <1>3, <1>5 DEF Adds, AddPeer, AddProxy
  <2>2. n \in {Len(log) - 1, Len(log)} \cap Nat
    BY <1>2
  <2> HIDE DEF n
  <2>3. [r \in Receivers |-> since'[r]] = [[r \in Receivers |-> since[r]] EXCEPT ![c] = n]
    BY <1>2, <1>3, <1>5, <2>1
  <2>4. Group!Join(c)
    BY <1>1, <1>5, <2>2, <2>3 DEF Group!Join
  <2>5. Group!Step
    BY <1>5, <2>4 DEF Group!Step
  <2> QED BY <2>5 DEF Group!Next, Sound, DistinctIds
<1> QED BY <1>4, <1>5

\* A removal of a member is its leave.
LEMMA CutLeaves ==
  ASSUME ListInv, NEW g, CutStore(g), Sound, Sound'
  PROVE  [Group!Next]_(Group!vars)
<1> DEFINE v == it[g].cur
<1>1. joined' = joined \ {v} /\ UNCHANGED <<buffer, log, inbox, since>>
  BY DEF CutStore, sockets, channel
<1>2. CASE v \in joined \cap Receivers
  <2>1. Group!Leave(v)
    BY <1>1, <1>2, StartSame DEF Group!Leave
  <2>2. Group!Step
    BY <1>2, <2>1 DEF Group!Step
  <2> QED BY <2>2 DEF Group!Next, Sound, DistinctIds
<1>3. CASE v \notin joined \cap Receivers
  <2>1. SameGroup
    BY <1>1, <1>3 DEF SameGroup
  <2> QED BY <2>1, GroupStutters
<1> QED BY <1>2, <1>3

\* What a receiver is owed is the same in the group.
LEMMA SameOwed ==
  ASSUME NEW r \in Receivers
  PROVE  Group!Owed(r) = Owed(r)
<1>1. \A s, T : Group!Filter(s, T) = Filter(s, T)
  BY DEF Group!Filter, Filter
<1> QED BY <1>1 DEF Group!Owed, Owed

\* The dispatcher takes a message when everybody has the one before.
LEMMA DispatchOrders ==
  ASSUME ListInv, GroupInv, Dispatch, Sound, Sound'
  PROVE  [Group!Next]_(Group!vars)
<1>1. /\ disp.pc = "idle" /\ buffer # << >>
      /\ buffer' = Tail(buffer) /\ log' = Append(log, Head(buffer))
      /\ UNCHANGED <<joined, since, inbox>>
  BY DEF Dispatch, lists, sockets
<1>2. ASSUME NEW r \in joined \cap Receivers PROVE Group!Served(r)
  <2>1. ReceiverOK(r) /\ Kind(r) \notin race /\ DistinctIds /\ r \in Peers \cup Writeable
    BY ReceiversSound
  <2>2. ~Waiting(r)
    BY <1>1, <2>1, ReceiverKind DEF Waiting, DispatchList, Lists
  <2>3. inbox[r] = Owed(r)
    BY <2>1, <2>2, NothingMissing
  <2> QED BY <2>3, SameOwed DEF Group!Served
<1>3. Group!Order
  BY <1>1, <1>2, StartSame DEF Group!Order
<1> QED BY <1>3 DEF Group!Next, Group!Step, Sound, DistinctIds

\* A round hands the message to at most one member.
LEMMA RoundHands ==
  ASSUME ListInv, GroupInv, LocalBroadcast \/ RemoteBroadcast, Sound, Sound'
  PROVE  [Group!Next]_(Group!vars)
<1> DEFINE T == {r \in joined \cap Receivers : Taken(r) /\ disp.msg \in For(r)}
<1>1. /\ disp.pc # "idle" /\ Rounds
      /\ \A x \in DispatchTouches : ws[x] # "nil"
      /\ inbox' = [x \in Peers \cup Writeable |->
                     IF x \in DispatchTouches /\ ws[x] = "open"
                       THEN Append(inbox[x], disp.msg) ELSE inbox[x]]
      /\ UNCHANGED <<lists, log, since, buffer>>
  <2>1. CASE LocalBroadcast
    BY <2>1 DEF LocalBroadcast, BroadcastRound, Rounds
  <2>2. CASE RemoteBroadcast
    BY <2>2 DEF RemoteBroadcast, BroadcastRound, Rounds
  <2> QED BY <2>1, <2>2
<1>2. DistinctIds /\ PumpsOK /\ Opened /\ DispatchSees
      /\ inbox \in [Receivers -> Seq(Message)] /\ disp.msg \in Message
  BY <1>1, DispatcherAt DEF Sound, GroupInv, ListInv, SocketTypes, Receivers
<1>3. ASSUME NEW r \in Receivers
      PROVE  inbox'[r] = IF r \in T THEN Append(inbox[r], disp.msg) ELSE inbox[r]
  <2>1. ReceiverOK(r) /\ Kind(r) \notin race /\ r \in Peers \cup Writeable
    BY ReceiversSound
  <2>2. CASE r \in joined
    BY <1>1, <1>2, <2>1, <2>2, RoundWrites
  <2>3. CASE r \notin joined
    BY <1>1, <1>2, <2>1, <2>3, TouchedJoined
  <2> QED BY <2>2, <2>3
<1>4. \A r, q \in T : r = q
  BY <1>2 DEF Taken, For
<1>5. inbox' \in [Receivers -> Seq(Message)] /\ joined' = joined
  BY <1>1, <1>2, AppendProperties DEF Receivers, lists
<1>6. CASE T = {}
  <2>1. inbox' = inbox
    BY <1>2, <1>3, <1>5, <1>6
  <2> QED BY <1>1, <1>5, <2>1, GroupStutters DEF SameGroup
<1>7. CASE T # {}
  <2>1. PICK r \in T : TRUE
    BY <1>7
  <2>2. r \in joined \cap Receivers /\ Taken(r) /\ disp.msg \in For(r)
    BY <2>1
  <2>3. inbox' = [inbox EXCEPT ![r] = Append(@, disp.msg)]
    BY <1>2, <1>3, <1>4, <1>5, <2>1
  <2> HIDE DEF T
  <2>4. Owed(r) = Append(inbox[r], disp.msg)
    <3>1. ReceiverOK(r) /\ Kind(r) \notin race /\ r \in Peers \cup Writeable
      BY <2>2, ReceiversSound
    <3>2. Waiting(r)
      BY <1>1, <1>2, <2>2, <3>1, RoundOn, RoundEnds DEF Rounds
    <3> QED BY <1>1, <1>2, <2>2, <3>1, <3>2, TakenOwed
  <2>5. inbox[r] \in Seq(Message) /\ Len(inbox[r]) \in Nat
        /\ Len(Owed(r)) = Len(inbox[r]) + 1 /\ Owed(r)[Len(inbox[r]) + 1] = disp.msg
    BY <1>2, <2>2, <2>4, AppendProperties, LenProperties
  <2>6. ~Group!Served(r)
    BY <2>2, <2>5, SameOwed DEF Group!Served
  <2>7. Group!Hand(r)
    <3>1. Group!Owed(r)[Len(inbox[r]) + 1] = disp.msg
      BY <2>2, <2>5, SameOwed
    <3> QED BY <1>1, <1>5, <2>2, <2>3, <2>6, <3>1, StartSame DEF Group!Hand
  <2>8. Group!Step
    BY <2>2, <2>7 DEF Group!Step
  <2> QED BY <2>8 DEF Group!Next, Sound, DistinctIds
<1> QED BY <1>6, <1>7

\* A list never gets rid of its race.
LEMMA RaceStays ==
  ASSUME ListInv, GroupInv, [Next]_vars, DistinctIds
  PROVE  race \subseteq race'
<1>1. PumpsOK /\ Opened
  BY DEF GroupInv
<1>2. Calm => race' = race
  BY DEF Calm, lists
<1>3. ASSUME NEW c \in Conn, Adds(c) \/ CutStore(Pump(c)) PROVE race \subseteq race'
  BY <1>3 DEF Adds, AddPeer, AddControl, AddProxy, Joins, CutStore
<1>4. Dispatch \/ LocalBroadcast \/ RemoteBroadcast => race' = race
  BY DEF Dispatch, LocalBroadcast, RemoteBroadcast, BroadcastRound, lists
<1> QED BY <1>1, <1>2, <1>3, <1>4, StepKinds

LEMMA GroupStarts == Init => Group!Init
<1> SUFFICES ASSUME Init PROVE Group!Init
  OBVIOUS
<1>1. joined = {} /\ buffer = << >> /\ log = << >>
  BY DEF Init
<1>2. inbox = [r \in Receivers |-> << >>]
  BY DEF Init, Receivers
<1>3. [r \in Receivers |-> since[r]] = [r \in Receivers |-> 0]
  BY ConstantTypes DEF Init, Receivers
<1> QED BY <1>1, <1>2, <1>3 DEF Group!Init, DistinctIds

LEMMA GroupFollows ==
  ListInv /\ GroupInv /\ [Next]_vars => [Group!Next]_(Group!vars)
<1> SUFFICES ASSUME ListInv, GroupInv, [Next]_vars PROVE [Group!Next]_(Group!vars)
  OBVIOUS
<1>1. CASE ~Sound'
  BY <1>1 DEF Group!Next, Sound
<1>2. CASE Sound'
  <2>1. DistinctIds
    BY <1>2 DEF Sound, DistinctIds
  <2>2. Sound
    BY <1>2, <2>1, RaceStays DEF Sound
  <2>3. PumpsOK /\ Opened
    BY <2>1 DEF GroupInv
  <2> QED BY <1>2, <2>1, <2>2, <2>3, StepKinds, CalmOffers, AddsJoins, CutLeaves, DispatchOrders, RoundHands
<1> QED BY <1>1, <1>2

\* A named websocket implements the broadcast group: as long as no update of
\* the lists of peers and proxies overlapped another use of them, everything
\* the slices, headers, goroutines and the channel do together is a step of the
\* group or invisible to it (socket.go:149-204; peer.go:145-202;
\* proxy.go:212-244).
THEOREM GroupImplemented == Spec => ImplementsGroup
<1>1. Init => Group!Init
  BY GroupStarts
<1>2. ListInv /\ GroupInv /\ [Next]_vars => [Group!Next]_(Group!vars)
  BY GroupFollows
<1> QED BY <1>1, <1>2, GroupInvariant, PTL DEF Spec, ImplementsGroup, Group!Spec

----------------------------------------------------------------------------
(* Loops that announce.                                                    *)

\* A loop begins with everybody in its list before it.
LEMMA RangeComes ==
  ASSUME ListInv, DistinctIds, NEW y \in joined, Kind(y) \notin race
  PROVE  ToCome(Kind(y), RangeOver(Kind(y)), y)
<1>1. PICK j \in 1..list[Kind(y)].len : Shown(Kind(y), list[Kind(y)], j) = y
  BY MemberShown
<1>2. y \in Conn /\ Kind(y) \in Lists
  BY Kinds DEF ListInv, StoreInv, ListTypes
<1>3. list[Kind(y)].len \in Nat
  BY <1>2 DEF ListInv, StoreInv, ListTypes, Header
<1>4. /\ RangeOver(Kind(y)).arr = list[Kind(y)].arr /\ RangeOver(Kind(y)).len = list[Kind(y)].len
      /\ RangeOver(Kind(y)).i = 0
  BY DEF RangeOver
<1> QED BY <1>1, <1>3, <1>4 DEF ToCome, Shown

\* In each round it passes the element at hand, at most.
LEMMA NextComes ==
  ASSUME NEW k \in Lists, NEW r \in LoopState, RoundSees(k, r), NEW y, ToCome(k, r, y), r.cur # y
  PROVE  ~Last(r) /\ ToCome(k, NextRound(k, r), y)
<1>1. r.i \in Nat /\ r.len \in Nat /\ r.i <= r.len
      /\ r.cur = IF r.i = 0 THEN Nil ELSE Shown(k, r, r.i)
  BY DEF LoopState, RoundSees
<1>2. PICK j \in 1..r.len : r.i <= j /\ Shown(k, r, j) = y
  BY DEF ToCome
<1>3. r.i + 1 <= j /\ r.i < r.len
  BY <1>1, <1>2
<1>4. ~Last(r)
  BY <1>1, <1>3 DEF Last
<1>5. /\ NextRound(k, r).i = r.i + 1
      /\ NextRound(k, r).arr = r.arr /\ NextRound(k, r).len = r.len
  BY <1>4, NextSees
<1> QED BY <1>2, <1>3, <1>4, <1>5 DEF ToCome, Shown

\* Where a goroutine may go in a loop.
Enters(g, label, r) ==
  \/ label \notin Loops
  \/ r = RangeOver(LoopListAt(label))
  \/ label = pc[g] /\ r = it[g]
  \/ label = pc[g] /\ ~Last(it[g]) /\ r = NextRound(LoopListAt(label), it[g])

LEMMA LoopLists == \A label \in Loops : LoopListAt(label) \in Lists
BY DEF Loops, LoopListAt, Lists

LEMMA EntersSees ==
  ASSUME ListInv, LoopsSee, NEW g \in Goroutines, NEW label, NEW r, Enters(g, label, r),
         label \in Loops, LoopListAt(label) \notin race
  PROVE  RoundSees(LoopListAt(label), r)
<1>1. LoopListAt(label) \in Lists /\ it[g] \in LoopState
  BY LoopLists DEF ListInv, MoveInv, GoroutineTypes
<1>2. CASE r = RangeOver(LoopListAt(label))
  BY <1>1, <1>2, RangeSees
<1>3. CASE label = pc[g] /\ ~Last(it[g]) /\ r = NextRound(LoopListAt(label), it[g])
  <2>1. RoundSees(LoopListAt(label), it[g])
    BY <1>3 DEF LoopsSee, LoopList
  <2> QED BY <1>1, <1>3, <2>1, NextSees
<1>4. CASE label = pc[g] /\ r = it[g]
  BY <1>4 DEF LoopsSee, LoopList
<1> QED BY <1>2, <1>3, <1>4 DEF Enters

\* One goroutine moves, or two when the second begins to read.
Moves(g, label, r) ==
  /\ pc'[g] = label /\ it'[g] = r
  /\ \A o \in Goroutines \ {g} : \/ pc'[o] = pc[o] /\ it'[o] = it[o]
                                 \/ /\ pc'[o] = "read" /\ label = "done"
                                    /\ g[2] = "serve" /\ o = Pump(g[1])

LEMMA GotoIsMove ==
  ASSUME ListInv, NEW g \in Goroutines, NEW label, NEW r, Goto(g, label, r)
  PROVE  Moves(g, label, r)
BY DEF ListInv, MoveInv, GoroutineTypes, Goto, Moves

LEMMA StartIsMove ==
  ASSUME ListInv, NEW c \in Conn, StartPumps(c)
  PROVE  Moves(<<c, "serve">>, "done", Idle)
<1>1. <<c, "serve">> \in Goroutines /\ Pump(c) \in Goroutines /\ <<c, "serve">> # Pump(c)
  BY GoroutineParts
<1>2. /\ pc' = [pc EXCEPT ![<<c, "serve">>] = "done", ![Pump(c)] = "read"]
      /\ it' = [it EXCEPT ![<<c, "serve">>] = Idle]
  BY DEF StartPumps, Pump
<1>3. <<c, "serve">>[1] = c /\ <<c, "serve">>[2] = "serve"
  OBVIOUS
<1> HIDE DEF Pump
<1> QED BY <1>1, <1>2, <1>3 DEF ListInv, MoveInv, GoroutineTypes, Moves

LEMMA LoopsMove ==
  ASSUME ListInv, LoopsSee, UNCHANGED lists, NEW g \in Goroutines, NEW label, NEW r,
         Moves(g, label, r), Enters(g, label, r)
  PROVE  LoopsSee'
<1>1. list' = list /\ heap' = heap /\ race' = race
  BY DEF lists
<1>2. label \in Loops /\ LoopListAt(label) \notin race => RoundSees(LoopListAt(label), r)
  BY EntersSees
<1>3. ASSUME NEW o \in Goroutines, pc'[o] \in Loops, LoopListAt(pc'[o]) \notin race
      PROVE  RoundSees(LoopListAt(pc'[o]), it'[o])
  <2>1. CASE o = g
    BY <1>2, <1>3, <2>1 DEF Moves
  <2>2. CASE o # g
    <3>1. pc'[o] = pc[o] /\ it'[o] = it[o]
      BY <1>3, <2>2 DEF Moves, Loops
    <3> QED BY <1>3, <3>1 DEF LoopsSee, LoopList
  <2> QED BY <2>1, <2>2
<1> QED BY <1>1, <1>3 DEF LoopsSee, LoopList, RoundSees, Shown

\* Goroutines of addConnection that stay as they are.
LEMMA ServesStay ==
  ASSUME NEW g \in Goroutines, NEW label, NEW r, Moves(g, label, r)
  PROVE  /\ \A c \in Conn : <<c, "serve">> # g =>
              pc'[<<c, "serve">>] = pc[<<c, "serve">>] /\ it'[<<c, "serve">>] = it[<<c, "serve">>]
         /\ \A c \in Conn : Pump(c) # g =>
              \/ pc'[Pump(c)] = pc[Pump(c)] /\ it'[Pump(c)] = it[Pump(c)]
              \/ pc'[Pump(c)] = "read" /\ label = "done" /\ g = <<c, "serve">>
<1>1. ASSUME NEW c \in Conn, <<c, "serve">> # g
      PROVE  pc'[<<c, "serve">>] = pc[<<c, "serve">>] /\ it'[<<c, "serve">>] = it[<<c, "serve">>]
  <2>1. <<c, "serve">> \in Goroutines /\ g[1] \in Conn /\ <<c, "serve">> # Pump(g[1])
    BY GoroutineParts
  <2> QED BY <1>1, <2>1 DEF Moves
<1>2. ASSUME NEW c \in Conn, Pump(c) # g
      PROVE  \/ pc'[Pump(c)] = pc[Pump(c)] /\ it'[Pump(c)] = it[Pump(c)]
             \/ pc'[Pump(c)] = "read" /\ label = "done" /\ g = <<c, "serve">>
  <2>1. Pump(c) \in Goroutines /\ g[1] \in Conn /\ g = <<g[1], g[2]>> /\ (Pump(c) = Pump(g[1]) => c = g[1])
    BY GoroutineParts, PumpParts
  <2> QED BY <1>2, <2>1 DEF Moves
<1> QED BY <1>1, <1>2

\* Who is to announce goes on being so, unless it has.
LEMMA AnnouncedMove ==
  ASSUME Announced, UNCHANGED lists, NEW g \in Goroutines, NEW label, NEW r, Moves(g, label, r),
         \A w \in Watchers \cap joined : ws'[w] = "open" => ws[w] = "open",
         \A w \in Watchers \cap joined, p \in Peers \cap joined :
           ws'[w] = "open" /\ MustKnow(w, p) /\ Apart(w, p) =>
             /\ Id[p] \in view[w] => Id[p] \in view'[w]
             /\ ToAnnounce(w, p, g, pc[g], it[g]) => Id[p] \in view'[w] \/ ToAnnounce(w, p, g, label, r)
  PROVE  Announced'
<1>1. list' = list /\ heap' = heap /\ joined' = joined
  BY DEF lists
<1> SUFFICES ASSUME NEW w \in Watchers \cap joined, NEW p \in Peers \cap joined,
                    ws'[w] = "open", MustKnow(w, p), Apart(w, p)
             PROVE  Id[p] \in view'[w] \/ \E o \in Goroutines : ToAnnounce(w, p, o, pc'[o], it'[o])
  BY <1>1 DEF Announced, Apart, ToAnnounce, ToTell, ToCome, Shown
<1>2. Id[p] \in view[w] \/ \E o \in Goroutines : ToAnnounce(w, p, o, pc[o], it[o])
  BY DEF Announced
<1>3. CASE Id[p] \in view[w]
  BY <1>3
<1>4. ASSUME NEW o \in Goroutines, ToAnnounce(w, p, o, pc[o], it[o])
      PROVE  Id[p] \in view'[w] \/ \E q \in Goroutines : ToAnnounce(w, p, q, pc'[q], it'[q])
  <2>1. CASE o = g
    BY <1>4, <2>1 DEF Moves
  <2>2. CASE o # g
    <3>1. w \in Conn /\ p \in Conn /\ o \in {<<w, "serve">>, <<p, "serve">>}
      BY <1>4, ConstantTypes DEF ToAnnounce, ToTell, Watchers, Conn
    <3>2. pc'[o] = pc[o] /\ it'[o] = it[o]
      BY <2>2, <3>1, ServesStay
    <3> QED BY <1>4, <3>2
  <2> QED BY <2>1, <2>2
<1> QED BY <1>2, <1>3, <1>4

\* Who is to withdraw goes on being so, and nobody tells of who is not there.
LEMMA WithdrawnMove ==
  ASSUME Withdrawn, Served, UNCHANGED lists, NEW g \in Goroutines, NEW label, NEW r, Moves(g, label, r),
         g[2] = "serve" => pc[g] # "done",
         \A w \in Watchers \cap joined : ws'[w] = "open" => ws[w] = "open",
         \A w \in Watchers \cap joined : ws'[w] = "open" =>
           \A id \in view'[w] \ RemoteIds :
             id \in view[w] \/ \E p \in Peers \cap joined : Id[p] = id /\ MustKnow(w, p),
         \A p \in Peers, w \in Watchers \cap joined :
           g = Pump(p) /\ ws'[w] = "open" /\ MustKnow(w, p) /\ Id[p] \in view'[w] /\ p \notin joined =>
             (ToWithdraw(w, p, pc[g], it[g]) => ToWithdraw(w, p, label, r))
  PROVE  Withdrawn'
<1>1. list' = list /\ heap' = heap /\ joined' = joined
  BY DEF lists
<1> SUFFICES ASSUME NEW w \in Watchers \cap joined, ws'[w] = "open", NEW id \in view'[w] \ RemoteIds
             PROVE  \E p \in Peers :
                      /\ Id[p] = id /\ MustKnow(w, p)
                      /\ p \in joined \/ ToWithdraw(w, p, pc'[Pump(p)], it'[Pump(p)])
  BY <1>1 DEF Withdrawn, ToWithdraw, ToTell, ToCome, Shown
<1>2. CASE id \notin view[w]
  BY <1>2
<1>3. CASE id \in view[w]
  <2>1. PICK p \in Peers : /\ Id[p] = id /\ MustKnow(w, p)
                           /\ p \in joined \/ ToWithdraw(w, p, pc[Pump(p)], it[Pump(p)])
    BY <1>3 DEF Withdrawn
  <2>2. ASSUME p \notin joined PROVE ToWithdraw(w, p, pc'[Pump(p)], it'[Pump(p)])
    <3>1. p \in Conn /\ ToWithdraw(w, p, pc[Pump(p)], it[Pump(p)])
      BY <2>1, <2>2 DEF Conn
    <3>2. CASE g = Pump(p)
      BY <2>1, <2>2, <3>1, <3>2 DEF Moves
    <3>3. CASE g # Pump(p)
      <4>1. pc[Pump(p)] # "none"
        BY <3>1 DEF ToWithdraw, ToTell
      <4>2. g # <<p, "serve">>
        BY <4>1 DEF Served
      <4>3. pc'[Pump(p)] = pc[Pump(p)] /\ it'[Pump(p)] = it[Pump(p)]
        BY <3>1, <3>3, <4>2, ServesStay
      <4> QED BY <3>1, <4>3
    <3> QED BY <3>2, <3>3
  <2> QED BY <2>1, <2>2
<1> QED BY <1>2, <1>3

LEMMA ServedMove ==
  ASSUME Served, UNCHANGED lists, NEW g \in Goroutines, NEW label, NEW r, Moves(g, label, r),
         g[2] = "serve" => pc[g] # "done",
         g[2] = "serve" /\ label \in {"new", "append"} => pc[g] \in {"new", "append"},
         g[2] = "serve" /\ label \in {"toControls", "toProxies"} => pc[g] \in {"toControls", "toProxies"},
         g[2] = "read" => pc[g] # "none",
         \A w \in Watchers : pc[<<w, "serve">>] \in {"new", "append"} => view'[w] = view[w]
  PROVE  Served'
<1>1. joined' = joined
  BY DEF lists
<1>2. ASSUME NEW c \in Conn, pc'[Pump(c)] # "none", pc[Pump(c)] # "none" => pc[<<c, "serve">>] = "done"
      PROVE  pc'[<<c, "serve">>] = "done"
  <2>0. Pump(c)[2] = "read" /\ Pump(c) # <<c, "serve">>
    BY PumpParts, GoroutineParts
  <2>1. CASE g = Pump(c)
    BY <1>2, <2>0, <2>1, ServesStay
  <2>2. CASE g = <<c, "serve">>
    BY <1>2, <2>0, <2>2, ServesStay DEF Moves
  <2>3. CASE g # Pump(c) /\ g # <<c, "serve">>
    BY <1>2, <2>3, ServesStay
  <2> QED BY <2>1, <2>2, <2>3
<1>3. ASSUME NEW c \in Conn
      PROVE  /\ pc'[<<c, "serve">>] \in {"new", "append"} => pc[<<c, "serve">>] \in {"new", "append"}
             /\ pc'[<<c, "serve">>] \in {"toControls", "toProxies"} =>
                  pc[<<c, "serve">>] \in {"toControls", "toProxies"}
  BY ServesStay DEF Moves
<1>4. Peers \cup Proxies \subseteq Conn /\ Watchers \subseteq Conn
  BY ConstantTypes DEF Conn, Watchers
<1> QED BY <1>1, <1>2, <1>3, <1>4 DEF Served

\* What a move owes the parts of the invariant.
KeepsServed(g, label) ==
  /\ g[2] = "serve" =>
       /\ pc[g] # "done"
       /\ label \in {"new", "append"} => pc[g] \in {"new", "append"}
       /\ label \in {"toControls", "toProxies"} => pc[g] \in {"toControls", "toProxies"}
  /\ g[2] = "read" => pc[g] # "none"
  /\ \A w \in Watchers : pc[<<w, "serve">>] \in {"new", "append"} => view'[w] = view[w]

KeepsWithdrawn(g, label, r) ==
  /\ \A w \in Watchers \cap joined : ws'[w] = "open" =>
       \A id \in view'[w] \ RemoteIds :
         id \in view[w] \/ \E p \in Peers \cap joined : Id[p] = id /\ MustKnow(w, p)
  /\ \A p \in Peers, w \in Watchers \cap joined :
       g = Pump(p) /\ ws'[w] = "open" /\ MustKnow(w, p) /\ Id[p] \in view'[w] /\ p \notin joined =>
         (ToWithdraw(w, p, pc[g], it[g]) => ToWithdraw(w, p, label, r))

KeepsAnnounced(g, label, r) ==
  \A w \in Watchers \cap joined, p \in Peers \cap joined :
    ws'[w] = "open" /\ MustKnow(w, p) /\ Apart(w, p) =>
      /\ Id[p] \in view[w] => Id[p] \in view'[w]
      /\ ToAnnounce(w, p, g, pc[g], it[g]) => Id[p] \in view'[w] \/ ToAnnounce(w, p, g, label, r)

OpensNone == \A w \in Watchers \cap joined : ws'[w] = "open" => ws[w] = "open"

LEMMA RosterMove ==
  ASSUME ListInv, DistinctIds, RosterInv, UNCHANGED lists, NEW g \in Goroutines, NEW label, NEW r,
         Moves(g, label, r), Enters(g, label, r), Informing',
         race = {} /\ Served /\ Withdrawn =>
           /\ KeepsServed(g, label) /\ OpensNone /\ KeepsWithdrawn(g, label, r)
           /\ Announced => KeepsAnnounced(g, label, r)
  PROVE  RosterInv'
<1>1. LoopsSee /\ Informing /\ (race = {} => Served /\ Withdrawn /\ Announced)
  BY DEF RosterInv
<1>2. race' = race
  BY DEF lists
<1>3. LoopsSee'
  BY <1>1, LoopsMove
<1>4. ASSUME race = {} PROVE Served'
  BY <1>1, <1>4, ServedMove DEF KeepsServed
<1>5. ASSUME race = {} PROVE Withdrawn'
  BY <1>1, <1>5, WithdrawnMove DEF KeepsServed, OpensNone, KeepsWithdrawn
<1>6. ASSUME race = {} PROVE Announced'
  BY <1>1, <1>6, AnnouncedMove DEF OpensNone, KeepsAnnounced
<1> QED BY <1>1, <1>2, <1>3, <1>4, <1>5, <1>6 DEF RosterInv

\* A step in which nobody is told anything and no goroutine moves.
LEMMA RosterStays ==
  ASSUME RosterInv, DistinctIds, UNCHANGED <<lists, pc, it, view>>, OpensNone, Informing'
  PROVE  RosterInv'
<1>1. LoopsSee /\ Informing /\ (race = {} => Served /\ Withdrawn /\ Announced)
  BY DEF RosterInv
<1>2. list' = list /\ heap' = heap /\ joined' = joined /\ race' = race /\ pc' = pc /\ it' = it /\ view' = view
  BY DEF lists
<1>3. LoopsSee'
  BY <1>1, <1>2 DEF LoopsSee, LoopList, RoundSees, Shown
<1>4. Served => Served'
  BY <1>2 DEF Served
<1>5. Withdrawn => Withdrawn'
  BY <1>2 DEF Withdrawn, ToWithdraw, ToTell, ToCome, Shown, OpensNone
<1>6. Announced => Announced'
  BY <1>2 DEF Announced, ToAnnounce, ToTell, ToCome, Shown, OpensNone
<1> QED BY <1>1, <1>2, <1>3, <1>4, <1>5, <1>6 DEF RosterInv

\* A move of a goroutine that tells nobody anything.
Leaving == {"scan", "cut", "cutw", "findControl", "closeControl"}
Telling == {"toControls", "toProxies", "ownPeers", "toProxy"}

LEMMA RosterQuiet ==
  ASSUME ListInv, DistinctIds, RosterInv, UNCHANGED <<lists, view>>,
         NEW g \in Goroutines, NEW label, NEW r,
         Moves(g, label, r), Enters(g, label, r), Informing',
         race = {} => OpensNone,
         race = {} /\ Served => KeepsServed(g, label),
         g[2] = "serve" => pc[g] # "dead" /\ (pc[g] \in Telling => label = "dead"),
         g[2] = "read" /\ g[1] \in Peers =>
           /\ pc[g] \notin Telling
           /\ pc[g] \in Leaving => label \in Leaving \/ (label = "toControls" /\ r = RangeOver("controllers"))
  PROVE  RosterInv'
<1>1. list' = list /\ heap' = heap /\ joined' = joined /\ race' = race /\ view' = view
  BY DEF lists
<1>2. ASSUME race = {}, NEW p \in Peers, NEW w \in Watchers \cap joined, g = Pump(p),
             ToWithdraw(w, p, pc[g], it[g])
      PROVE  ToWithdraw(w, p, label, r)
  <2>1. p \in Conn /\ g[2] = "read" /\ g[1] = p
    BY <1>2, PumpParts DEF Conn
  <2>2. pc[g] \in Leaving
    BY <1>2, <2>1 DEF ToWithdraw, ToTell, Telling, Leaving
  <2>3. CASE label \in Leaving
    BY <2>3 DEF ToWithdraw, ToTell, Leaving
  <2>4. CASE label = "toControls" /\ r = RangeOver("controllers")
    <3>1. w \in Writeable \/ (w \in Controls /\ Kind(w) = "controllers")
      BY KindsDisjoint DEF Watchers, Kind
    <3>2. w \in Controls => ToCome("controllers", r, w)
      BY <1>2, <2>4, <3>1, RangeComes, KindsDisjoint, ConstantTypes
    <3> QED BY <2>4, <3>1, <3>2 DEF ToWithdraw, ToTell
  <2> QED BY <2>1, <2>2, <2>3, <2>4
<1>3. KeepsWithdrawn(g, label, r) \/ race # {}
  BY <1>1, <1>2 DEF KeepsWithdrawn
<1>4. KeepsAnnounced(g, label, r)
  <2>1. ASSUME NEW w \in Watchers, NEW p \in Peers, ToAnnounce(w, p, g, pc[g], it[g])
        PROVE  ToAnnounce(w, p, g, label, r)
    <3>1. /\ g \in {<<w, "serve">>, <<p, "serve">>} /\ g[2] = "serve"
          /\ pc[g] \in Telling \cup {"dead"}
      BY <2>1 DEF ToAnnounce, ToTell, Telling
    <3> QED BY <3>1 DEF ToAnnounce, ToTell
  <2> QED BY <1>1, <2>1 DEF KeepsAnnounced
<1> QED BY <1>1, <1>3, <1>4, RosterMove

----------------------------------------------------------------------------
(* Steps that announce nothing.                                            *)

LEMMA InformingMove ==
  ASSUME Informing, NEW g \in Goroutines, NEW label, NEW r, Moves(g, label, r),
         \A x \in Conn : g # Pump(x) => frame'[x] = frame[x],
         \A x \in Conn : g = Pump(x) /\ label = "inform" => frame'[x].target \in RemoteIds
  PROVE  Informing'
<1> SUFFICES ASSUME NEW x \in Conn, pc'[Pump(x)] = "inform" PROVE frame'[x].target \in RemoteIds
  BY DEF Informing
<1>1. CASE g = Pump(x)
  BY <1>1 DEF Moves
<1>2. CASE g # Pump(x)
  <2>1. pc'[Pump(x)] = pc[Pump(x)]
    BY <1>2, ServesStay
  <2> QED BY <1>2, <2>1 DEF Informing
<1> QED BY <1>1, <1>2

LEMMA AcceptRoster ==
  ASSUME ListInv, DistinctIds, RosterInv, NEW c \in Conn, Accept(c)
  PROVE  RosterInv'
<1> DEFINE g == <<c, "serve">>
           r == RangeOver(Kind(c))
<1>1. /\ g \in Goroutines /\ g[2] = "serve" /\ pc[g] = "new" /\ Goto(g, "append", r)
      /\ UNCHANGED <<lists, view>> /\ frame' = frame
      /\ \E e : ws' = [ws EXCEPT ![c] = e]
  BY GoroutineParts DEF Accept, At, input
<1> HIDE DEF g, r
<1>2. Moves(g, "append", r) /\ Enters(g, "append", r)
  BY <1>1, GotoIsMove DEF Enters, Loops
<1>3. c \notin joined
  BY <1>1 DEF ListInv, MoveInv, Fresh, g
<1>4. OpensNone
  BY <1>1, <1>3 DEF OpensNone, ListInv, SocketTypes
<1>5. Informing'
  BY <1>1, <1>2, InformingMove, GoroutineParts DEF RosterInv, g
<1>6. KeepsServed(g, "append")
  BY <1>1 DEF KeepsServed
<1> QED BY <1>1, <1>2, <1>4, <1>5, <1>6, RosterQuiet DEF Telling

\* Steps of a pump that leave its announcements alone.
LEMMA PumpQuiet ==
  ASSUME ListInv, DistinctIds, RosterInv, UNCHANGED <<lists, view>>,
         NEW c \in Conn, NEW label, NEW r, Goto(Pump(c), label, r), Enters(Pump(c), label, r),
         \A x \in Conn \ {c} : frame'[x] = frame[x],
         label = "inform" => frame'[c].target \in RemoteIds,
         OpensNone, pc[Pump(c)] # "none",
         c \in Peers =>
           /\ pc[Pump(c)] \notin Telling
           /\ pc[Pump(c)] \in Leaving => label \in Leaving \/ (label = "toControls" /\ r = RangeOver("controllers"))
  PROVE  RosterInv'
<1> DEFINE g == Pump(c)
<1>1. g \in Goroutines /\ g[1] = c /\ g[2] = "read" /\ \A x \in Conn : x # c => g # Pump(x)
  BY PumpParts
<1> HIDE DEF g
<1>2. Moves(g, label, r)
  BY <1>1, GotoIsMove DEF g
<1>3. Informing'
  BY <1>1, <1>2, InformingMove DEF RosterInv, g
<1>4. race = {} /\ Served => KeepsServed(g, label)
  BY <1>1 DEF KeepsServed, g
<1> QED BY <1>1, <1>2, <1>3, <1>4, RosterQuiet DEF g

LEMMA ReadFailsRoster ==
  ASSUME ListInv, DistinctIds, RosterInv, NEW c \in Conn, ReadFails(c)
  PROVE  RosterInv'
<1>1. /\ pc[Pump(c)] = "read" /\ Goto(Pump(c), "scan", [RangeOver(Kind(c)) EXCEPT !.cur = c])
      /\ UNCHANGED <<lists, view>> /\ frame' = frame /\ ws' = ws
  BY DEF ReadFails, At, input, sockets
<1>2. Enters(Pump(c), "scan", [RangeOver(Kind(c)) EXCEPT !.cur = c]) /\ OpensNone
  BY <1>1 DEF Enters, Loops, OpensNone
<1> QED BY <1>1, <1>2, PumpQuiet DEF Telling, Leaving

LEMMA ReadsRoster ==
  ASSUME ListInv, DistinctIds, RosterInv, NEW c \in Conn, NEW f, NEW label, NEW r,
         Reads(c, f, label, r),
         label \in {"notify", "enqueue"} \/
           (label \in {"relay", "inform"} /\ r = RangeOver("controllers")),
         label = "inform" => f.target \in RemoteIds
  PROVE  RosterInv'
<1>1. /\ pc[Pump(c)] = "read" /\ Goto(Pump(c), label, r)
      /\ UNCHANGED <<lists, view>> /\ frame' = [frame EXCEPT ![c] = f] /\ ws' = ws
  BY DEF Reads, At, sockets
<1>2. Enters(Pump(c), label, r) /\ OpensNone
  BY <1>1 DEF Enters, Loops, OpensNone, LoopListAt
<1>3. frame'[c] = f /\ \A x \in Conn \ {c} : frame'[x] = frame[x]
  BY <1>1 DEF ListInv, InputTypes
<1> QED BY <1>1, <1>2, <1>3, PumpQuiet DEF Telling, Leaving

LEMMA ClientRoster ==
  ASSUME ListInv, DistinctIds, RosterInv, ClientStep
  PROVE  RosterInv'
<1>0. Peers \subseteq Conn /\ Controls \subseteq Conn /\ Proxies \subseteq Conn
  BY DEF Conn
<1>1. ASSUME NEW p \in Peers, PeerReads(p) PROVE RosterInv'
  <2>1. PICK m \in Payloads :
          Reads(p, [action |-> "broadcast", source |-> Id[p], target |-> Nil, payload |-> m],
                NotifyOrEnqueue(m), Idle)
    BY <1>1 DEF PeerReads
  <2>2. NotifyOrEnqueue(m) \in {"notify", "enqueue"}
    BY DEF NotifyOrEnqueue
  <2> QED BY <1>0, <2>1, <2>2, ReadsRoster
<1>2. ASSUME NEW c \in Controls, ControlReads(c) PROVE RosterInv'
  <2>1. PICK t \in Ids :
          Reads(c, [action |-> "message", source |-> Id[c], target |-> t, payload |-> Nil],
                "relay", RangeOver("controllers"))
    BY <1>2 DEF ControlReads
  <2> QED BY <1>0, <2>1, ReadsRoster
<1>3. ASSUME NEW c \in Controls, ControlReadsMalformed(c) PROVE RosterInv'
  BY <1>3, RosterStays DEF ControlReadsMalformed, Crash, sockets, input, OpensNone, Informing, RosterInv
<1>4. ASSUME NEW x \in Proxies, ProxyReads(x) PROVE RosterInv'
  <2>1. CASE \E a \in {"connect", "disconnect"}, t \in RemoteIds :
               Reads(x, [action |-> a, source |-> Id[x], target |-> t, payload |-> Nil],
                     "inform", RangeOver("controllers"))
    <3>1. PICK a \in {"connect", "disconnect"}, t \in RemoteIds :
               Reads(x, [action |-> a, source |-> Id[x], target |-> t, payload |-> Nil],
                     "inform", RangeOver("controllers"))
      BY <2>1
    <3> QED BY <1>0, <3>1, ReadsRoster
  <2>2. CASE \E t \in RemoteIds, m \in Payloads :
               Reads(x, [action |-> "message", source |-> t, target |-> Nil, payload |-> m],
                     NotifyOrEnqueue(m), Idle)
    <3>1. PICK t \in RemoteIds, m \in Payloads :
               Reads(x, [action |-> "message", source |-> t, target |-> Nil, payload |-> m],
                     NotifyOrEnqueue(m), Idle)
      BY <2>2
    <3>2. NotifyOrEnqueue(m) \in {"notify", "enqueue"}
      BY DEF NotifyOrEnqueue
    <3> QED BY <1>0, <3>1, <3>2, ReadsRoster
  <2>3. CASE \E s \in RemoteIds, t \in Ids :
               Reads(x, [action |-> "directmessage", source |-> s, target |-> t, payload |-> Nil],
                     "relay", RangeOver("controllers"))
    <3>1. PICK s \in RemoteIds, t \in Ids :
               Reads(x, [action |-> "directmessage", source |-> s, target |-> t, payload |-> Nil],
                     "relay", RangeOver("controllers"))
      BY <2>3
    <3> QED BY <1>0, <3>1, ReadsRoster
  <2> QED BY <1>4, <2>1, <2>2, <2>3 DEF ProxyReads
<1> QED BY <1>1, <1>2, <1>3, <1>4, AcceptRoster, ReadFailsRoster DEF ClientStep

LEMMA NotifyRoster ==
  ASSUME ListInv, DistinctIds, RosterInv, NEW c \in Conn, Notify(c)
  PROVE  RosterInv'
<1>1. /\ pc[Pump(c)] = "notify" /\ UNCHANGED <<lists, view>> /\ frame' = frame /\ ws' = ws
      /\ UNCHANGED <<pc, it>> \/ Goto(Pump(c), "enqueue", Idle)
  BY DEF Notify, At, sockets
<1>2. CASE UNCHANGED <<pc, it>>
  BY <1>1, <1>2, RosterStays DEF OpensNone, Informing, RosterInv
<1>3. CASE Goto(Pump(c), "enqueue", Idle)
  <2>1. Enters(Pump(c), "enqueue", Idle) /\ OpensNone
    BY <1>1 DEF Enters, Loops, OpensNone
  <2> QED BY <1>1, <1>3, <2>1, PumpQuiet DEF Telling, Leaving
<1> QED BY <1>1, <1>2, <1>3

LEMMA EnqueueRoster ==
  ASSUME ListInv, DistinctIds, RosterInv, NEW c \in Conn, Enqueue(c)
  PROVE  RosterInv'
<1>1. /\ pc[Pump(c)] = "enqueue" /\ UNCHANGED <<lists, view>> /\ frame' = frame /\ ws' = ws
      /\ Goto(Pump(c), "read", Idle)
  BY DEF Enqueue, At, sockets, input
<1>2. Enters(Pump(c), "read", Idle) /\ OpensNone
  BY <1>1 DEF Enters, Loops, OpensNone
<1> QED BY <1>1, <1>2, PumpQuiet DEF Telling, Leaving

LEMMA RelayRoster ==
  ASSUME ListInv, DistinctIds, RosterInv, NEW c \in Conn, Relay(c) \/ RelayToProxy(c), c \notin Peers
  PROVE  RosterInv'
<1>1. /\ pc[Pump(c)] \in {"relay", "relayProxy"} /\ UNCHANGED <<lists, view>> /\ ws' = ws
      /\ \E f : frame' = [frame EXCEPT ![c] = f]
  BY DEF Relay, RelayToProxy, RelayRound, At
<1>2. \A x \in Conn \ {c} : frame'[x] = frame[x]
  BY <1>1 DEF ListInv, InputTypes
<1>3. PICK label, r :
        /\ label \in {"relay", "relayProxy", "read"}
        /\ Goto(Pump(c), label, r) /\ Enters(Pump(c), label, r)
  <2>1. CASE Relay(c)
    BY <2>1 DEF Relay, RelayRound, At, Enters, Loops, LoopListAt
  <2>2. CASE RelayToProxy(c)
    BY <2>2 DEF RelayToProxy, RelayRound, At, Enters, Loops, LoopListAt
  <2> QED BY <2>1, <2>2
<1>4. OpensNone
  BY <1>1 DEF OpensNone
<1> QED BY <1>1, <1>2, <1>3, <1>4, PumpQuiet

LEMMA AfterRemovalGoes ==
  ASSUME NEW c \in Conn, NEW v, v \in Conn, AfterRemoval(Pump(c), v),
         c \in Peers => v = c \/ v \in Controls
  PROVE  \E label, r :
           /\ label \in {"findControl", "close", "closeControl", "toProxy"}
           /\ Goto(Pump(c), label, r) /\ Enters(Pump(c), label, r)
           /\ c \in Peers => label \in Leaving
<1>1. Pump(c)[1] = c
  BY PumpParts
<1>2. v \in Peers => v \notin Controls /\ v \notin Proxies
  BY KindsDisjoint
<1>3. v \in Controls => v \notin Proxies /\ v \notin Peers
  BY KindsDisjoint
<1>4. Writeable \subseteq Proxies
  BY ConstantTypes
<1>5. CASE v \in Peers /\ Goto(Pump(c), "findControl", RangeOver("controllers"))
  BY <1>5 DEF Enters, Loops, Leaving
<1>6. CASE v \in Controls /\ Pump(c)[1] = v /\ Goto(Pump(c), "close", Idle)
  BY <1>1, <1>3, <1>6 DEF Enters, Loops, Leaving
<1>7. CASE v \in Controls /\ Pump(c)[1] # v /\ Goto(Pump(c), "closeControl", [Idle EXCEPT !.cur = v])
  BY <1>7 DEF Enters, Loops, Leaving
<1>8. CASE v \in Writeable /\ Goto(Pump(c), "toProxy", RangeOver("peers"))
  BY <1>2, <1>3, <1>4, <1>8 DEF Enters, LoopListAt
<1>9. CASE v \in Proxies \ Writeable /\ Goto(Pump(c), "close", Idle)
  BY <1>2, <1>3, <1>9 DEF Enters, Loops
<1> QED BY <1>5, <1>6, <1>7, <1>8, <1>9 DEF AfterRemoval

LEMMA ScanRoster ==
  ASSUME ListInv, DistinctIds, RosterInv, PumpsOK, NEW c \in Conn, Scan(Pump(c))
  PROVE  RosterInv'
<1> DEFINE g == Pump(c)
           v == it[g].cur
<1>1. /\ pc[g] = "scan" /\ UNCHANGED <<lists, view>> /\ frame' = frame /\ ws' = ws
      /\ (\E r : Goto(g, "cut", r)) \/ (\E r : Goto(g, "scan", r)) \/ AfterRemoval(g, v)
  BY DEF Scan, At, sockets, input
<1>2. v \in Conn /\ (c \in Peers => v = c \/ v \in Controls)
  BY <1>1, PumpParts, KindsDisjoint DEF PumpsOK, PumpOK, Removing, Conn, ListInv, MoveInv, RoundsOK, RoundOK
<1>3. OpensNone
  BY <1>1 DEF OpensNone
<1>4. PICK label, r :
           /\ label \in {"cut", "scan", "findControl", "close", "closeControl", "toProxy"}
           /\ Goto(Pump(c), label, r) /\ Enters(Pump(c), label, r)
           /\ c \in Peers => label \in Leaving
  <2>1. CASE \E r : Goto(g, "cut", r)
    BY <2>1 DEF Enters, Loops, Leaving
  <2>2. CASE \E r : Goto(g, "scan", r)
    BY <2>2 DEF Enters, Loops, Leaving
  <2>3. CASE AfterRemoval(g, v)
    BY <1>2, <2>3, AfterRemovalGoes
  <2> QED BY <1>1, <2>1, <2>2, <2>3
<1> QED BY <1>1, <1>3, <1>4, PumpQuiet DEF Telling

LEMMA CutRoster ==
  ASSUME ListInv, DistinctIds, RosterInv, NEW c \in Conn, Cut(Pump(c))
  PROVE  RosterInv'
<1>1. /\ pc[Pump(c)] = "cut" /\ UNCHANGED <<lists, view>> /\ frame' = frame /\ ws' = ws
      /\ UNCHANGED <<pc, it>> \/ \E r : Goto(Pump(c), "cutw", r)
  BY DEF Cut, Crash, At, sockets, input
<1>2. OpensNone
  BY <1>1 DEF OpensNone
<1>3. CASE UNCHANGED <<pc, it>>
  BY <1>1, <1>2, <1>3, RosterStays DEF Informing, RosterInv
<1>4. CASE \E r : Goto(Pump(c), "cutw", r)
  <2>1. PICK r : Goto(Pump(c), "cutw", r)
    BY <1>4
  <2>2. Enters(Pump(c), "cutw", r)
    BY DEF Enters, Loops
  <2> QED BY <1>1, <1>2, <2>1, <2>2, PumpQuiet DEF Telling, Leaving
<1> QED BY <1>1, <1>3, <1>4

LEMMA FindControlRoster ==
  ASSUME ListInv, DistinctIds, RosterInv, NEW c \in Conn, FindControl(Pump(c))
  PROVE  RosterInv'
<1>1. /\ pc[Pump(c)] = "findControl" /\ UNCHANGED <<lists, view>> /\ frame' = frame /\ ws' = ws
      /\ \/ \E r : Goto(Pump(c), "scan", r) \/ Goto(Pump(c), "findControl", r)
         \/ Goto(Pump(c), "toControls", RangeOver("controllers"))
  BY DEF FindControl, At, sockets, input
<1>2. OpensNone
  BY <1>1 DEF OpensNone
<1>3. PICK label, r :
        /\ label \in Leaving \cup {"toControls"}
        /\ Goto(Pump(c), label, r) /\ Enters(Pump(c), label, r)
        /\ label = "toControls" => r = RangeOver("controllers")
  BY <1>1 DEF Leaving, Enters, Loops, LoopListAt
<1> QED BY <1>1, <1>2, <1>3, PumpQuiet DEF Telling, Leaving

LEMMA ClosesRoster ==
  ASSUME ListInv, DistinctIds, RosterInv, NEW c \in Conn, CloseControl(Pump(c)) \/ Close(c)
  PROVE  RosterInv'
<1>1. /\ pc[Pump(c)] \in {"closeControl", "close"} /\ UNCHANGED <<lists, view>> /\ frame' = frame
      /\ \E w : ws' = [ws EXCEPT ![w] = "closed"]
      /\ \/ pc[Pump(c)] = "close" /\ Goto(Pump(c), "done", Idle)
         \/ Goto(Pump(c), "toControls", RangeOver("controllers"))
  BY DEF CloseControl, Close, At, input
<1>2. OpensNone
  BY <1>1 DEF OpensNone, ListInv, SocketTypes
<1>3. PICK label, r :
        /\ label \in {"done", "toControls"}
        /\ Goto(Pump(c), label, r) /\ Enters(Pump(c), label, r)
        /\ pc[Pump(c)] = "closeControl" => label = "toControls" /\ r = RangeOver("controllers")
  BY <1>1 DEF Enters, Loops, LoopListAt
<1> QED BY <1>1, <1>2, <1>3, PumpQuiet DEF Telling, Leaving

LEMMA WritePanicsRoster ==
  ASSUME ListInv, DistinctIds, RosterInv, NEW g \in Goroutines, WritePanics(g)
  PROVE  RosterInv'
<1>1. UNCHANGED <<lists, view>> /\ frame' = frame /\ ws' = ws
  BY DEF WritePanics, Crash, sockets, input
<1>2. OpensNone
  BY <1>1 DEF OpensNone
<1>3. CASE UNCHANGED <<pc, it>>
  BY <1>1, <1>2, <1>3, RosterStays DEF Informing, RosterInv
<1>4. CASE g[2] = "serve" /\ Goto(g, "dead", Idle)
  <2>1. pc[g] \notin {"dead", "done"}
    BY DEF WritePanics, Healthy, Touches
  <2>2. Moves(g, "dead", Idle) /\ Enters(g, "dead", Idle)
    BY <1>4, GotoIsMove DEF Enters, Loops
  <2>3. KeepsServed(g, "dead")
    BY <1>1, <1>4, <2>1 DEF KeepsServed
  <2>4. Informing'
    BY <1>1, <2>2, InformingMove DEF RosterInv
  <2> QED BY <1>1, <1>2, <1>4, <2>1, <2>2, <2>3, <2>4, RosterQuiet
<1> QED BY <1>3, <1>4 DEF WritePanics, Crash

LEMMA ControlLoopRoster ==
  ASSUME ListInv, DistinctIds, RosterInv, NEW c \in Controls, ControlProxyPeer(c) \/ ControlNextProxy(c)
  PROVE  RosterInv'
<1> DEFINE g == <<c, "serve">>
<1>0. c \in Conn /\ g \in Goroutines /\ g[2] = "serve"
  BY GoroutineParts DEF Conn
<1>1. /\ pc[g] = "proxyPeers" /\ UNCHANGED <<lists, view>> /\ frame' = frame /\ ws' = ws
  BY DEF ControlProxyPeer, ControlNextProxy, At, sockets, input
<1>2. OpensNone
  BY <1>1 DEF OpensNone
<1>3. CASE ControlProxyPeer(c)
  BY <1>1, <1>2, <1>3, RosterStays DEF Informing, RosterInv, ControlProxyPeer
<1>4. CASE ControlNextProxy(c)
  <2>1. PICK label, r : label \in {"done", "proxyPeers"} /\ Goto(g, label, r) /\ Enters(g, label, r)
    BY <1>1, <1>4 DEF ControlNextProxy, Enters, Loops, LoopListAt
  <2> HIDE DEF g
  <2>2. Moves(g, label, r)
    BY <1>0, <2>1, GotoIsMove
  <2>3. KeepsServed(g, label)
    BY <1>0, <1>1, <2>1 DEF KeepsServed
  <2>4. Informing'
    BY <1>0, <1>1, <2>2, InformingMove, GoroutineParts DEF RosterInv
  <2> QED BY <1>0, <1>1, <1>2, <2>1, <2>2, <2>3, <2>4, RosterQuiet DEF Telling
<1> QED BY <1>3, <1>4

LEMMA DispatcherRoster ==
  ASSUME DistinctIds, RosterInv, Dispatcher
  PROVE  RosterInv'
<1>1. UNCHANGED <<lists, pc, it, view>> /\ frame' = frame /\ ws' = ws
  BY DEF Dispatcher, Dispatch, LocalBroadcast, RemoteBroadcast, BroadcastRound, DispatchPanics, Crash,
         sockets, input
<1> QED BY <1>1, RosterStays DEF OpensNone, Informing, RosterInv

----------------------------------------------------------------------------
(* Steps that announce.                                                    *)

\* A frame changes what is known where it is written.
LEMMA ToldView ==
  ASSUME NEW T, NEW event, NEW id, Tell(T, event, id), NEW w \in Watchers
  PROVE  /\ w \notin T \/ ws[w] # "open" => view'[w] = view[w]
         /\ w \in T /\ ws[w] = "open" =>
              view'[w] = IF event = "connect" THEN view[w] \cup {id} ELSE view[w] \ {id}
BY DEF Tell

\* The element at hand has joined.
LEMMA AtHandJoined ==
  ASSUME ListInv, DistinctIds, LoopsSee, race = {}, NEW g \in Goroutines, pc[g] \in Loops, it[g].cur # Nil
  PROVE  it[g].cur \in joined /\ it[g].cur \in Members(LoopList(g))
<1>1. LoopList(g) \in Lists \ race /\ it[g] \in LoopState /\ RoundSees(LoopList(g), it[g])
  BY LoopLists DEF ListInv, MoveInv, GoroutineTypes, LoopList, LoopsSee
<1>2. it[g].i \in 1..it[g].len /\ it[g].cur = Shown(LoopList(g), it[g], it[g].i)
  BY <1>1 DEF RoundSees, LoopState
<1> QED BY <1>1, <1>2, SeesMembers

\* Who is not at hand is still to come after the round.
LEMMA StillToCome ==
  ASSUME ListInv, LoopsSee, race = {}, NEW g \in Goroutines, pc[g] \in Loops,
         NEW y, ToCome(LoopList(g), it[g], y), it[g].cur # y
  PROVE  ~Last(it[g]) /\ ToCome(LoopList(g), NextRound(LoopList(g), it[g]), y)
<1>1. LoopList(g) \in Lists /\ it[g] \in LoopState /\ RoundSees(LoopList(g), it[g])
  BY LoopLists DEF ListInv, MoveInv, GoroutineTypes, LoopList, LoopsSee
<1> QED BY <1>1, NextComes

\* Where the goroutine of a peer goes after a round of its announcements.
PeerLeads(g, label, r) ==
  \/ ~Last(it[g]) /\ label = pc[g] /\ r = NextRound(LoopList(g), it[g])
  \/ Last(it[g]) /\ pc[g] = "toControls" /\ label = "toProxies" /\ r = RangeOver("proxies")
  \/ Last(it[g]) /\ pc[g] = "toProxies" /\ label = IF g[2] = "serve" THEN "done" ELSE "close"

LEMMA PeerRound ==
  ASSUME ListInv, NEW g \in Goroutines, PeerToControls(g) \/ PeerToProxies(g)
  PROVE  /\ pc[g] \in {"toControls", "toProxies"}
         /\ UNCHANGED lists /\ ws' = ws /\ frame' = frame
         /\ Tell(Touches(g), Event(g), Id[g[1]])
         /\ \E label, r : Moves(g, label, r) /\ Enters(g, label, r) /\ PeerLeads(g, label, r)
<1>1. g[1] \in Conn /\ g = <<g[1], g[2]>>
  BY GoroutineParts
<1>2. CASE PeerToControls(g)
  <2>1. /\ pc[g] = "toControls" /\ Tell(Touches(g), Event(g), Id[g[1]])
        /\ UNCHANGED lists /\ ws' = ws /\ frame' = frame
        /\ IF Last(it[g]) THEN Goto(g, "toProxies", RangeOver("proxies"))
           ELSE Goto(g, "toControls", NextRound(LoopList(g), it[g]))
    BY <1>2 DEF PeerToControls, AnnounceRound, At, input
  <2>2. CASE Last(it[g])
    BY <2>1, <2>2, GotoIsMove DEF Enters, LoopListAt, PeerLeads
  <2>3. CASE ~Last(it[g])
    BY <2>1, <2>3, GotoIsMove DEF Enters, LoopList, PeerLeads
  <2> QED BY <2>1, <2>2, <2>3
<1>3. CASE PeerToProxies(g)
  <2>1. /\ pc[g] = "toProxies" /\ Tell(Touches(g), Event(g), Id[g[1]])
        /\ UNCHANGED lists /\ ws' = ws /\ frame' = frame
        /\ IF Last(it[g]) THEN IF g[2] = "serve" THEN StartPumps(g[1]) ELSE Goto(g, "close", Idle)
           ELSE Goto(g, "toProxies", NextRound(LoopList(g), it[g]))
    BY <1>3 DEF PeerToProxies, AnnounceRound, At, input
  <2>2. CASE Last(it[g]) /\ g[2] = "serve"
    BY <1>1, <2>1, <2>2, StartIsMove DEF Enters, Loops, PeerLeads
  <2>3. CASE Last(it[g]) /\ g[2] # "serve"
    BY <2>1, <2>3, GotoIsMove DEF Enters, Loops, PeerLeads
  <2>4. CASE ~Last(it[g])
    BY <2>1, <2>4, GotoIsMove DEF Enters, LoopList, PeerLeads
  <2> QED BY <2>1, <2>2, <2>3, <2>4
<1> QED BY <1>2, <1>3

LEMMA StillToTell ==
  ASSUME ListInv, DistinctIds, LoopsSee, race = {}, NEW g \in Goroutines, NEW label, NEW r,
         PeerLeads(g, label, r), NEW w \in Watchers \cap joined,
         ToTell(w, pc[g], it[g]), it[g].cur # w
  PROVE  ToTell(w, label, r)
<1>1. /\ w \in Conn
      /\ w \in Writeable => Kind(w) = "proxies"
  BY ConstantTypes, KindsDisjoint DEF Watchers, Conn, Kind
<1>2. w \in Writeable => ToCome("proxies", RangeOver("proxies"), w)
  BY <1>1, RangeComes
<1>3. CASE pc[g] = "toControls"
  <2>1. LoopList(g) = "controllers" /\ pc[g] \in Loops
    BY <1>3 DEF LoopList, LoopListAt, Loops
  <2>2. ToCome("controllers", it[g], w) =>
          ~Last(it[g]) /\ ToCome("controllers", NextRound("controllers", it[g]), w)
    BY <2>1, StillToCome
  <2> QED BY <1>2, <1>3, <2>1, <2>2 DEF PeerLeads, ToTell
<1>4. CASE pc[g] = "toProxies"
  <2>1. LoopList(g) = "proxies" /\ pc[g] \in Loops
    BY <1>4 DEF LoopList, LoopListAt, Loops
  <2>2. w \in Writeable /\ ~Last(it[g]) /\ ToCome("proxies", NextRound("proxies", it[g]), w)
    BY <1>4, <2>1, StillToCome DEF ToTell
  <2> QED BY <1>4, <2>1, <2>2 DEF PeerLeads, ToTell
<1> QED BY <1>3, <1>4 DEF ToTell

\* Whom a peer touches is in the list, and is one it must tell.
LEMMA PeerTouches ==
  ASSUME ListInv, DistinctIds, LoopsSee, race = {}, NEW g \in Goroutines, g[1] \in Peers,
         pc[g] \in {"toControls", "toProxies"}
  PROVE  /\ \A w \in Touches(g) : w = it[g].cur /\ w \in joined /\ MustKnow(w, g[1])
         /\ \A w \in Watchers : w = it[g].cur /\ ToTell(w, pc[g], it[g]) /\ MustKnow(w, g[1]) =>
              w \in Touches(g)
<1> DEFINE e == it[g].cur
<1>1. e # Nil => e \in joined /\ e \in Members(LoopList(g))
  BY AtHandJoined DEF Loops
<1>2. \A w \in Watchers : w # Nil
  BY Kinds, ConstantTypes DEF Watchers, Conn
<1>3. CASE pc[g] = "toControls"
  <2>1. Touches(g) = IF e = Nil THEN {} ELSE { w \in {e} : Id[w] # Id[g[1]] }
    BY <1>3 DEF Touches
  <2>2. e # Nil => e \notin Writeable
    BY <1>1, <1>3, KindsDisjoint, ConstantTypes DEF LoopList, LoopListAt, Members
  <2> HIDE DEF e
  <2>3. \A w \in Touches(g) : w = e /\ e # Nil /\ Id[w] # Id[g[1]]
    BY <2>1
  <2>4. \A w \in Watchers : w = e /\ Id[w] # Id[g[1]] => w \in Touches(g)
    BY <1>2, <2>1
  <2> QED BY <1>1, <1>2, <2>2, <2>3, <2>4 DEF MustKnow, e
<1>4. CASE pc[g] = "toProxies"
  <2>1. Touches(g) = IF e = Nil THEN {} ELSE {e} \cap Writeable
    BY <1>4 DEF Touches
  <2>2. \A w \in Watchers : ToTell(w, pc[g], it[g]) => w \in Writeable
    BY <1>4 DEF ToTell
  <2> QED BY <1>1, <1>2, <2>1, <2>2 DEF MustKnow
<1> QED BY <1>3, <1>4

LEMMA PeerAnnounces ==
  ASSUME ListInv, DistinctIds, RosterInv, NEW p \in Peers,
         PeerToControls(<<p, "serve">>) \/ PeerToProxies(<<p, "serve">>)
  PROVE  RosterInv'
<1> DEFINE g == <<p, "serve">>
<1>0. p \in Conn /\ g \in Goroutines /\ g[1] = p /\ g[2] = "serve" /\ \A x \in Conn : g # Pump(x)
  BY GoroutineParts DEF Conn
<1>1. g = <<p, "serve">>
  OBVIOUS
<1> HIDE DEF g
<1>2. /\ pc[g] \in {"toControls", "toProxies"}
      /\ UNCHANGED lists /\ ws' = ws /\ frame' = frame
      /\ Tell(Touches(g), Event(g), Id[g[1]])
  BY <1>0, <1>1, PeerRound
<1>3. PICK label, r : Moves(g, label, r) /\ Enters(g, label, r) /\ PeerLeads(g, label, r)
  BY <1>0, <1>1, PeerRound
<1>4. label \in {"toControls", "toProxies", "done"}
  BY <1>0, <1>2, <1>3 DEF PeerLeads
<1>5. Informing'
  BY <1>0, <1>2, <1>3, InformingMove DEF RosterInv
<1>6. OpensNone
  BY <1>2 DEF OpensNone
<1>7. ASSUME race = {}, Served
      PROVE  KeepsServed(g, label) /\ KeepsWithdrawn(g, label, r) /\ KeepsAnnounced(g, label, r)
  <2>0. LoopsSee
    BY DEF RosterInv
  <2>1. /\ \A w \in Touches(g) : w = it[g].cur /\ w \in joined /\ MustKnow(w, p)
        /\ \A w \in Watchers : w = it[g].cur /\ ToTell(w, pc[g], it[g]) /\ MustKnow(w, p) => w \in Touches(g)
    BY <1>0, <1>2, <1>7, <2>0, PeerTouches
  <2>2. p \in joined
    BY <1>1, <1>2, <1>7 DEF Served
  <2>3. \A w \in Watchers : /\ w \notin Touches(g) \/ ws[w] # "open" => view'[w] = view[w]
                            /\ w \in Touches(g) /\ ws[w] = "open" => view'[w] = view[w] \cup {Id[p]}
    <3>1. Tell(Touches(g), "connect", Id[p])
      BY <1>0, <1>2 DEF Event
    <3> QED BY <3>1 DEF Tell
  <2>4. \A w \in Watchers : pc[<<w, "serve">>] \in {"new", "append"} => view'[w] = view[w]
    BY <2>1, <2>3, ConstantTypes DEF ListInv, MoveInv, Fresh, Watchers, Conn
  <2>5. KeepsServed(g, label)
    BY <1>0, <1>2, <1>4, <2>4 DEF KeepsServed
  <2>6. KeepsWithdrawn(g, label, r)
    BY <1>0, <2>1, <2>2, <2>3, Kinds DEF KeepsWithdrawn, Conn
  <2>7. ASSUME NEW w \in Watchers \cap joined, NEW q \in Peers \cap joined, ws'[w] = "open", MustKnow(w, q),
               ToAnnounce(w, q, g, pc[g], it[g])
        PROVE  Id[q] \in view'[w] \/ ToAnnounce(w, q, g, label, r)
    <3>1. w # p
      BY KindsDisjoint, ConstantTypes DEF Watchers
    <3>2. q = p /\ ToTell(w, pc[g], it[g])
      BY <1>1, <1>2, <2>7, <3>1 DEF ToAnnounce
    <3>3. CASE it[g].cur = w
      BY <1>2, <2>1, <2>3, <2>7, <3>2, <3>3
    <3>4. CASE it[g].cur # w
      BY <1>0, <1>1, <1>3, <1>7, <2>0, <3>2, <3>4, StillToTell DEF ToAnnounce
    <3> QED BY <3>3, <3>4
  <2>8. KeepsAnnounced(g, label, r)
    BY <2>3, <2>7 DEF KeepsAnnounced
  <2> QED BY <2>5, <2>6, <2>8
<1> QED BY <1>0, <1>2, <1>3, <1>5, <1>6, <1>7, RosterMove

LEMMA PeerWithdraws ==
  ASSUME ListInv, DistinctIds, RosterInv, PumpsOK, NEW p \in Peers,
         PeerToControls(Pump(p)) \/ PeerToProxies(Pump(p))
  PROVE  RosterInv'
<1> DEFINE g == Pump(p)
<1>0. /\ p \in Conn /\ g \in Goroutines /\ g[1] = p /\ g[2] = "read"
      /\ \A x \in Conn : (x # p => g # Pump(x)) /\ g # <<x, "serve">>
  BY PumpParts, GoroutineParts DEF Conn
<1>1. g = Pump(p)
  OBVIOUS
<1> HIDE DEF g
<1>2. /\ pc[g] \in {"toControls", "toProxies"}
      /\ UNCHANGED lists /\ ws' = ws /\ frame' = frame
      /\ Tell(Touches(g), Event(g), Id[g[1]])
  BY <1>0, <1>1, PeerRound
<1>3. PICK label, r : Moves(g, label, r) /\ Enters(g, label, r) /\ PeerLeads(g, label, r)
  BY <1>0, <1>1, PeerRound
<1>4. label \in {"toControls", "toProxies", "close"}
  BY <1>0, <1>2, <1>3 DEF PeerLeads
<1>5. Informing'
  BY <1>0, <1>2, <1>3, <1>4, InformingMove DEF RosterInv
<1>6. OpensNone
  BY <1>2 DEF OpensNone
<1>7. ASSUME race = {}
      PROVE  KeepsServed(g, label) /\ KeepsWithdrawn(g, label, r) /\ KeepsAnnounced(g, label, r)
  <2>0. LoopsSee
    BY DEF RosterInv
  <2>1. /\ \A w \in Touches(g) : w = it[g].cur /\ w \in joined /\ MustKnow(w, p)
        /\ \A w \in Watchers : w = it[g].cur /\ ToTell(w, pc[g], it[g]) /\ MustKnow(w, p) => w \in Touches(g)
    BY <1>0, <1>2, <1>7, <2>0, PeerTouches
  <2>2. p \notin joined
    BY <1>0, <1>1, <1>2, <1>7 DEF PumpsOK, PumpOK, PastRemoval
  <2>3. \A w \in Watchers : /\ w \notin Touches(g) \/ ws[w] # "open" => view'[w] = view[w]
                            /\ w \in Touches(g) /\ ws[w] = "open" => view'[w] = view[w] \ {Id[p]}
    <3>1. Tell(Touches(g), "disconnect", Id[p])
      BY <1>0, <1>2 DEF Event
    <3> QED BY <3>1 DEF Tell
  <2>4. \A w \in Watchers : pc[<<w, "serve">>] \in {"new", "append"} => view'[w] = view[w]
    BY <2>1, <2>3, ConstantTypes DEF ListInv, MoveInv, Fresh, Watchers, Conn
  <2>5. KeepsServed(g, label)
    BY <1>0, <1>2, <1>4, <2>4 DEF KeepsServed
  <2>6. ASSUME NEW q \in Peers, NEW w \in Watchers \cap joined, g = Pump(q), ws'[w] = "open", MustKnow(w, q),
               Id[q] \in view'[w], ToWithdraw(w, q, pc[g], it[g])
        PROVE  ToWithdraw(w, q, label, r)
    <3>1. q = p
      BY <1>0, <2>6 DEF Conn
    <3>2. ToTell(w, pc[g], it[g])
      BY <1>2, <2>6 DEF ToWithdraw
    <3>3. it[g].cur # w
      BY <1>2, <2>1, <2>3, <2>6, <3>1, <3>2
    <3>4. ToTell(w, label, r)
      BY <1>0, <1>3, <1>7, <2>0, <3>2, <3>3, StillToTell
    <3> QED BY <3>4 DEF ToWithdraw
  <2>7. KeepsWithdrawn(g, label, r)
    BY <2>3, <2>6 DEF KeepsWithdrawn
  <2>8. \A q \in Peers \cap joined : Id[q] # Id[p]
    BY <2>2 DEF DistinctIds, Members, Lists
  <2>9. KeepsAnnounced(g, label, r)
    <3>1. \A w \in Watchers, q \in Peers : ~ToAnnounce(w, q, g, pc[g], it[g])
      BY <1>0, ConstantTypes DEF ToAnnounce, Watchers, Conn
    <3> QED BY <2>3, <2>8, <3>1 DEF KeepsAnnounced
  <2> QED BY <2>5, <2>7, <2>9
<1> QED BY <1>0, <1>2, <1>3, <1>5, <1>6, <1>7, RosterMove

\* A control or the far end of a proxy is told of the local peers, one per round.
LEMMA WatcherIsTold ==
  ASSUME ListInv, DistinctIds, RosterInv, NEW c \in Conn,
         \/ c \in Controls /\ ControlOwnPeers(c)
         \/ c \in Proxies /\ ProxyToFarEnd(<<c, "serve">>)
  PROVE  RosterInv'
<1> PICK label \in {"ownPeers", "toProxy"} :
      \/ ControlOwnPeers(c) /\ label = "ownPeers" /\ c \in Controls
      \/ ProxyToFarEnd(<<c, "serve">>) /\ label = "toProxy" /\ c \in Proxies
  OBVIOUS
<1> DEFINE g == <<c, "serve">>
           e == it[g].cur
<1>0. c \in Conn /\ g \in Goroutines /\ g[1] = c /\ g[2] = "serve" /\ \A x \in Conn : g # Pump(x)
  BY GoroutineParts DEF Conn
<1>1. g = <<c, "serve">>
  OBVIOUS
<1> HIDE DEF g
<1>2. /\ pc[g] = label /\ UNCHANGED lists /\ ws' = ws /\ frame' = frame
      /\ Tell(Touches(g), "connect", Id[e])
      /\ IF Last(it[g]) THEN Goto(g, "proxyPeers", RangeOver("proxies")) \/ StartPumps(c)
                        ELSE Goto(g, label, NextRound(LoopList(g), it[g]))
  <2>1. CASE ControlOwnPeers(c) /\ label = "ownPeers"
    BY <1>1, <2>1 DEF ControlOwnPeers, AnnounceRound, At, input
  <2>2. CASE ProxyToFarEnd(g) /\ label = "toProxy"
    BY <1>0, <2>2 DEF ProxyToFarEnd, AnnounceRound, At, input, Event
  <2> QED BY <1>1, <2>1, <2>2
<1>3. PICK nl, r : /\ Moves(g, nl, r) /\ Enters(g, nl, r)
                   /\ nl \in {"proxyPeers", "done", label}
                   /\ ~Last(it[g]) => nl = label /\ r = NextRound(LoopList(g), it[g])
  <2>1. CASE Last(it[g]) /\ Goto(g, "proxyPeers", RangeOver("proxies"))
    BY <1>0, <2>1, GotoIsMove DEF Enters, LoopListAt
  <2>2. CASE Last(it[g]) /\ StartPumps(c)
    BY <1>0, <1>1, <2>2, StartIsMove DEF Enters, Loops
  <2>3. CASE ~Last(it[g]) /\ Goto(g, label, NextRound(LoopList(g), it[g]))
    BY <1>0, <1>2, <2>3, GotoIsMove DEF Enters, LoopList
  <2> QED BY <1>2, <2>1, <2>2, <2>3
<1>4. LoopList(g) = "peers" /\ pc[g] \in Loops
  BY <1>2 DEF LoopList, LoopListAt, Loops
<1>5. Informing'
  BY <1>0, <1>2, <1>3, InformingMove DEF RosterInv
<1>6. OpensNone
  BY <1>2 DEF OpensNone
<1>7. ASSUME race = {}, Served
      PROVE  KeepsServed(g, nl) /\ KeepsWithdrawn(g, nl, r) /\ KeepsAnnounced(g, nl, r)
  <2>0. LoopsSee
    BY DEF RosterInv
  <2>1. e # Nil => e \in joined /\ e \in Peers
    BY <1>0, <1>4, <1>7, <2>0, AtHandJoined DEF Members
  <2>2. /\ \A w \in Touches(g) : w = c
        /\ c \in Watchers /\ c \in Touches(g) => e # Nil /\ MustKnow(c, e)
        /\ e # Nil /\ c \in Watchers /\ MustKnow(c, e) => c \in Touches(g)
    <3>1. CASE label = "ownPeers"
      <4>1. Touches(g) = IF e = Nil THEN {} ELSE { w \in {c} : Id[e] # Id[c] }
        BY <1>0, <1>2, <3>1 DEF Touches
      <4>2. c \notin Writeable
        BY <3>1, KindsDisjoint, ConstantTypes
      <4> HIDE DEF e
      <4> QED BY <4>1, <4>2 DEF MustKnow
    <3>2. CASE label = "toProxy"
      <4>1. Touches(g) = IF e = Nil THEN {} ELSE {c}
        BY <1>0, <1>2, <3>2 DEF Touches
      <4>2. c \in Watchers => c \in Writeable
        BY <3>2, KindsDisjoint DEF Watchers
      <4> HIDE DEF e
      <4> QED BY <4>1, <4>2 DEF MustKnow
    <3> QED BY <3>1, <3>2
  <2> HIDE DEF e
  <2>3. \A w \in Watchers : /\ w \notin Touches(g) \/ ws[w] # "open" => view'[w] = view[w]
                            /\ w \in Touches(g) /\ ws[w] = "open" => view'[w] = view[w] \cup {Id[e]}
    BY <1>2 DEF Tell
  <2>4. \A w \in Watchers : pc[<<w, "serve">>] \in {"new", "append"} => view'[w] = view[w]
    BY <1>1, <1>2, <2>2, <2>3
  <2>5. KeepsServed(g, nl)
    BY <1>0, <1>2, <1>3, <2>4 DEF KeepsServed
  <2>6. KeepsWithdrawn(g, nl, r)
    BY <1>0, <2>1, <2>2, <2>3 DEF KeepsWithdrawn, Conn
  <2>7. ASSUME NEW w \in Watchers \cap joined, NEW q \in Peers \cap joined, ws'[w] = "open", MustKnow(w, q),
               ToAnnounce(w, q, g, pc[g], it[g])
        PROVE  Id[q] \in view'[w] \/ ToAnnounce(w, q, g, nl, r)
    <3>1. q # c
      BY KindsDisjoint
    <3>2. w = c /\ ToCome("peers", it[g], q)
      BY <1>1, <1>2, <2>7, <3>1 DEF ToAnnounce
    <3>3. CASE e = q
      <4>1. e # Nil
        BY <3>3, Kinds DEF Conn
      <4>2. c \in Touches(g)
        BY <2>2, <2>7, <3>2, <3>3, <4>1
      <4> QED BY <1>2, <2>3, <2>7, <3>2, <3>3, <4>2
    <3>4. CASE e # q
      <4>1. ~Last(it[g]) /\ ToCome("peers", NextRound("peers", it[g]), q)
        BY <1>0, <1>4, <1>7, <2>0, <3>2, <3>4, StillToCome DEF e
      <4> QED BY <1>1, <1>3, <1>4, <3>2, <4>1 DEF ToAnnounce
    <3> QED BY <3>3, <3>4
  <2>8. KeepsAnnounced(g, nl, r)
    BY <2>3, <2>7 DEF KeepsAnnounced
  <2> QED BY <2>5, <2>6, <2>8
<1> QED BY <1>0, <1>2, <1>3, <1>5, <1>6, <1>7, RosterMove

\* A proxy that ends withdraws all peers from its far end.
LEMMA ProxyWithdraws ==
  ASSUME ListInv, DistinctIds, RosterInv, PumpsOK, NEW x \in Proxies, ProxyToFarEnd(Pump(x))
  PROVE  RosterInv'
<1> DEFINE g == Pump(x)
<1>0. /\ x \in Conn /\ g \in Goroutines /\ g[1] = x /\ g[2] = "read"
      /\ \A c \in Conn : (c # x => g # Pump(c)) /\ g # <<c, "serve">>
  BY PumpParts, GoroutineParts DEF Conn
<1>1. g = Pump(x)
  OBVIOUS
<1> HIDE DEF g
<1>2. /\ pc[g] = "toProxy" /\ UNCHANGED lists /\ ws' = ws /\ frame' = frame
      /\ Tell(Touches(g), "disconnect", Id[it[g].cur])
      /\ IF Last(it[g]) THEN Goto(g, "close", Idle) ELSE Goto(g, "toProxy", NextRound(LoopList(g), it[g]))
  BY <1>0, <1>1 DEF ProxyToFarEnd, AnnounceRound, At, input, Event
<1>3. PICK label, r : Moves(g, label, r) /\ Enters(g, label, r) /\ label \in {"toProxy", "close"}
  <2>1. CASE Last(it[g])
    BY <1>0, <1>2, <2>1, GotoIsMove DEF Enters, Loops
  <2>2. CASE ~Last(it[g])
    BY <1>0, <1>2, <2>2, GotoIsMove DEF Enters, LoopList
  <2> QED BY <2>1, <2>2
<1>4. Informing'
  BY <1>0, <1>2, <1>3, InformingMove DEF RosterInv
<1>5. OpensNone
  BY <1>2 DEF OpensNone
<1>6. ASSUME race = {}, Served
      PROVE  KeepsServed(g, label) /\ KeepsWithdrawn(g, label, r) /\ KeepsAnnounced(g, label, r)
  <2>1. x \notin joined /\ pc[<<x, "serve">>] = "done"
    BY <1>0, <1>1, <1>2, <1>6 DEF PumpsOK, PumpOK, PastRemoval, Served
  <2>2. \A w \in Touches(g) : w = x
    <3>1. Touches(g) = IF it[g].cur = Nil THEN {} ELSE {x}
      BY <1>0, <1>2 DEF Touches
    <3> QED BY <3>1
  <2>3. \A w \in Watchers : (w # x => view'[w] = view[w]) /\ view'[w] \subseteq view[w]
    BY <1>2, <2>2 DEF Tell
  <2>4. KeepsServed(g, label)
    BY <1>0, <1>2, <2>1, <2>3 DEF KeepsServed
  <2>5. KeepsWithdrawn(g, label, r)
    BY <1>0, <2>3, KindsDisjoint DEF KeepsWithdrawn, Conn
  <2>6. \A w \in Watchers, q \in Peers : ~ToAnnounce(w, q, g, pc[g], it[g])
    BY <1>0, ConstantTypes DEF ToAnnounce, Watchers, Conn
  <2>7. KeepsAnnounced(g, label, r)
    BY <2>1, <2>3, <2>6 DEF KeepsAnnounced
  <2> QED BY <2>4, <2>5, <2>7
<1> QED BY <1>0, <1>2, <1>3, <1>4, <1>5, <1>6, RosterMove

\* A control is told of a peer of another host.
LEMMA RemotePeerTold ==
  ASSUME ListInv, DistinctIds, RosterInv, NEW c \in Controls, ControlProxyPeerSend(c)
  PROVE  RosterInv'
<1> DEFINE g == <<c, "serve">>
<1>0. c \in Conn /\ g \in Goroutines /\ g[2] = "serve" /\ \A x \in Conn : g # Pump(x)
  BY GoroutineParts DEF Conn
<1>1. g = <<c, "serve">>
  OBVIOUS
<1> HIDE DEF g
<1>2. /\ pc[g] = "proxyPeers" /\ UNCHANGED <<lists, pc, it>> /\ ws' = ws /\ frame' = frame
      /\ Tell({c}, "connect", mapIt[c].id) /\ mapIt[c].id # Nil
  BY <1>1 DEF ControlProxyPeerSend, At, input
<1>3. Moves(g, pc[g], it[g]) /\ Enters(g, pc[g], it[g])
  BY <1>2 DEF Moves, Enters
<1>4. mapIt[c].id \in RemoteIds
  BY <1>2 DEF ListInv, ProxyTypes
<1>5. \A w \in Watchers : (w # c => view'[w] = view[w]) /\ view[w] \subseteq view'[w]
                          /\ view'[w] \subseteq view[w] \cup RemoteIds
  BY <1>2, <1>4 DEF Tell
<1>6. Informing'
  BY <1>0, <1>2, <1>3, InformingMove DEF RosterInv
<1>7. KeepsServed(g, pc[g])
  BY <1>0, <1>1, <1>2, <1>5 DEF KeepsServed
<1>8. KeepsWithdrawn(g, pc[g], it[g])
  BY <1>5 DEF KeepsWithdrawn
<1>9. KeepsAnnounced(g, pc[g], it[g])
  BY <1>5 DEF KeepsAnnounced
<1> QED BY <1>0, <1>2, <1>3, <1>6, <1>7, <1>8, <1>9, RosterMove DEF OpensNone

\* The controls are told of what a far end gained or lost.
LEMMA ProxyInformsRoster ==
  ASSUME ListInv, DistinctIds, RosterInv, NEW x \in Proxies, ProxyInforms(x)
  PROVE  RosterInv'
<1> DEFINE g == Pump(x)
<1>0. /\ x \in Conn /\ g \in Goroutines /\ g[1] = x /\ g[2] = "read"
      /\ \A c \in Conn : (c # x => g # Pump(c)) /\ g # <<c, "serve">>
  BY PumpParts, GoroutineParts DEF Conn
<1>1. g = Pump(x)
  OBVIOUS
<1> HIDE DEF g
<1>2. /\ pc[g] = "inform" /\ UNCHANGED lists /\ ws' = ws /\ frame' = frame
      /\ Tell(Touches(g), frame[x].action, frame[x].target)
      /\ IF Last(it[g]) THEN Goto(g, "read", Idle) ELSE Goto(g, "inform", NextRound(LoopList(g), it[g]))
  BY <1>1 DEF ProxyInforms, AnnounceRound, At, input
<1>3. PICK label, r : Moves(g, label, r) /\ Enters(g, label, r) /\ label \in {"inform", "read"}
  <2>1. CASE Last(it[g])
    BY <1>0, <1>2, <2>1, GotoIsMove DEF Enters, Loops
  <2>2. CASE ~Last(it[g])
    BY <1>0, <1>2, <2>2, GotoIsMove DEF Enters, LoopList
  <2> QED BY <2>1, <2>2
<1>4. frame[x].target \in RemoteIds
  BY <1>0, <1>1, <1>2 DEF RosterInv, Informing
<1>5. Informing'
  BY <1>0, <1>2, <1>3, <1>4, InformingMove DEF RosterInv
<1>6. ASSUME race = {}
      PROVE  KeepsServed(g, label) /\ KeepsWithdrawn(g, label, r)
             /\ KeepsAnnounced(g, label, r)
  <2>1. \A w \in Touches(g) : w \in joined /\ w \in Controls
    <3>1. Touches(g) = IF it[g].cur = Nil THEN {} ELSE {it[g].cur}
      BY <1>2 DEF Touches
    <3>2. it[g].cur # Nil => it[g].cur \in joined
      BY <1>0, <1>2, <1>6, AtHandJoined DEF Loops, RosterInv
    <3>3. it[g].cur \in Controls \cup {Nil}
      BY <1>0, <1>2 DEF ListInv, MoveInv, RoundsOK, RoundOK, LoopListAt, Members
    <3> QED BY <3>1, <3>2, <3>3
  <2>2. \A w \in Watchers : /\ w \notin joined \/ w \notin Controls => view'[w] = view[w]
                            /\ view[w] \ RemoteIds \subseteq view'[w]
                            /\ view'[w] \subseteq view[w] \cup RemoteIds
    BY <1>2, <1>4, <2>1 DEF Tell
  <2>3. \A w \in Watchers : pc[<<w, "serve">>] \in {"new", "append"} => w \notin joined
    BY ConstantTypes DEF ListInv, MoveInv, Fresh, Watchers, Conn
  <2>4. KeepsServed(g, label)
    BY <1>0, <1>2, <2>2, <2>3 DEF KeepsServed
  <2>5. KeepsWithdrawn(g, label, r)
    BY <1>0, <2>2, KindsDisjoint DEF KeepsWithdrawn, Conn
  <2>6. \A w \in Watchers, q \in Peers : ~ToAnnounce(w, q, g, pc[g], it[g])
    BY <1>0, ConstantTypes DEF ToAnnounce, Watchers, Conn
  <2>7. KeepsAnnounced(g, label, r)
    BY <2>2, <2>6, KindsDisjoint, ConstantTypes DEF KeepsAnnounced, Apart
  <2> QED BY <2>4, <2>5, <2>7
<1> QED BY <1>0, <1>2, <1>3, <1>5, <1>6, RosterMove DEF OpensNone

----------------------------------------------------------------------------
(* Steps that change a list.                                               *)

\* What RoundSees, ToCome and ToTell say of r after the step.
SeesAfter(k, r) ==
  /\ r.len <= list'[k].len
  /\ \A j \in 1..r.len : heap'[k][r.arr].at[j] = heap'[k][list'[k].arr].at[j]
  /\ r.i <= r.len
  /\ r.cur = IF r.i = 0 THEN Nil ELSE heap'[k][r.arr].at[r.i]

ComesAfter(k, r, y) == \E j \in 1..r.len : r.i <= j /\ heap'[k][r.arr].at[j] = y

TellsAfter(w, label, r) ==
  \/ label = "toControls" /\ (w \in Writeable \/ ComesAfter("controllers", r, w))
  \/ label = "toProxies" /\ w \in Writeable /\ ComesAfter("proxies", r, w)

GoesOnOver(k, r) == SeesAfter(k, r) /\ \A y : ToCome(k, r, y) => ComesAfter(k, r, y)

LEMMA JoinGoesOn ==
  ASSUME ListInv, NEW c \in Conn, Joins(c), NEW k \in Lists, k \notin race',
         NEW r \in LoopState, InHeap(heap[k], r), RoundSees(k, r)
  PROVE  GoesOnOver(k, r)
<1>1. /\ r.len <= list[k].len /\ \A j \in 1..r.len : Shown(k, r, j) = Shown(k, list[k], j)
      /\ r.i \in Nat /\ r.len \in Nat /\ r.i <= r.len
      /\ r.cur = IF r.i = 0 THEN Nil ELSE Shown(k, r, r.i)
  BY DEF RoundSees, LoopState
<1>2. /\ r.len <= list'[k].len
      /\ \A j \in 1..r.len : heap'[k][r.arr].at[j] = Shown(k, r, j)
      /\ \A j \in 1..r.len : heap'[k][list'[k].arr].at[j] = Shown(k, r, j)
  BY <1>1, JoinKeepsSeen
<1>3. SeesAfter(k, r)
  BY <1>1, <1>2 DEF SeesAfter
<1>4. \A y : ToCome(k, r, y) => ComesAfter(k, r, y)
  BY <1>2 DEF ToCome, ComesAfter
<1> QED BY <1>3, <1>4 DEF GoesOnOver

LEMMA SameGoesOn ==
  ASSUME NEW k \in Lists, NEW r, RoundSees(k, r), heap'[k] = heap[k], list'[k] = list[k]
  PROVE  GoesOnOver(k, r)
BY DEF RoundSees, GoesOnOver, SeesAfter, ToCome, ComesAfter, Shown

\* What follows when every loop goes on.
LEMMA LoopsGoOn ==
  ASSUME \A o \in Goroutines :
           pc'[o] \in Loops /\ LoopListAt(pc'[o]) \notin race' => SeesAfter(LoopListAt(pc'[o]), it'[o])
  PROVE  LoopsSee'
BY DEF LoopsSee, LoopList, RoundSees, Shown, SeesAfter

LEMMA TellsOn ==
  ASSUME race' = {}, NEW w, NEW label, NEW r,
         label \in Loops => GoesOnOver(LoopListAt(label), r)
  PROVE  ToTell(w, label, r) => TellsAfter(w, label, r)
BY DEF ToTell, TellsAfter, Loops, LoopListAt, GoesOnOver

\* Where addConnection goes when it has stored its append.
LEMMA AddsMove ==
  ASSUME ListInv, NEW c \in Conn, Adds(c)
  PROVE  /\ Joins(c) /\ view' = view /\ ws' = ws /\ frame' = frame /\ joined' = joined \cup {c}
         /\ race \subseteq race'
         /\ pc[<<c, "serve">>] = "append"
         /\ c \in Peers => /\ pc'[<<c, "serve">>] = "toControls"
                           /\ it'[<<c, "serve">>] = RangeOver("controllers")
         /\ c \in Controls => /\ pc'[<<c, "serve">>] = "ownPeers"
                              /\ it'[<<c, "serve">>] = RangeOver("peers")
         /\ c \in Writeable => /\ pc'[<<c, "serve">>] = "toProxy"
                               /\ it'[<<c, "serve">>] = RangeOver("peers")
         /\ c \in Proxies \ Writeable => pc'[<<c, "serve">>] = "done"
         /\ \A o \in Goroutines \ {<<c, "serve">>} :
              \/ pc'[o] = pc[o] /\ it'[o] = it[o]
              \/ /\ o = Pump(c) /\ pc'[o] = "read" /\ c \notin Peers
                 /\ c \in Proxies => pc'[<<c, "serve">>] = "done"
<1> DEFINE g == <<c, "serve">>
<1>0. g \in Goroutines /\ Pump(c) \in Goroutines /\ g # Pump(c)
  BY GoroutineParts
<1>1. /\ c \in Peers => c \notin Controls /\ c \notin Proxies
      /\ c \in Controls => c \notin Peers /\ c \notin Proxies
      /\ Writeable \subseteq Proxies
      /\ c \in Peers \cup Controls \cup Proxies
  BY KindsDisjoint, ConstantTypes DEF Conn
<1>2. Joins(c)
  BY DEF Adds, AddPeer, AddControl, AddProxy
<1>3. /\ view' = view /\ ws' = ws /\ frame' = frame /\ joined' = joined \cup {c} /\ race \subseteq race'
      /\ pc[g] = "append"
  BY <1>2 DEF Joins, At, sockets, input
<1>4. pc \in [Goroutines -> Labels] /\ it \in [Goroutines -> LoopState]
  BY DEF ListInv, MoveInv, GoroutineTypes
<1>5. CASE c \in Peers /\ AddPeer(c)
  <2>1. Goto(g, "toControls", RangeOver("controllers"))
    BY <1>5 DEF AddPeer
  <2> HIDE DEF g
  <2> QED BY <1>0, <1>1, <1>2, <1>3, <1>4, <1>5, <2>1 DEF Goto, g
<1>6. CASE c \in Controls /\ AddControl(c)
  <2>1. /\ pc' = [pc EXCEPT ![g] = "ownPeers", ![Pump(c)] = "read"]
        /\ it' = [it EXCEPT ![g] = RangeOver("peers")]
    BY <1>6 DEF AddControl, Pump
  <2> QED BY <1>0, <1>1, <1>2, <1>3, <1>4, <1>6, <2>1
<1>7. CASE c \in Proxies /\ AddProxy(c)
  <2>1. CASE c \in Writeable
    <3>1. Goto(g, "toProxy", RangeOver("peers"))
      BY <1>7, <2>1 DEF AddProxy
    <3> QED BY <1>0, <1>1, <1>2, <1>3, <1>4, <1>7, <2>1, <3>1 DEF Goto
  <2>2. CASE c \notin Writeable
    <3>1. /\ pc' = [pc EXCEPT ![g] = "done", ![Pump(c)] = "read"]
          /\ it' = [it EXCEPT ![g] = Idle]
      BY <1>7, <2>2 DEF AddProxy, StartPumps, Pump
    <3> QED BY <1>0, <1>1, <1>2, <1>3, <1>4, <1>7, <2>2, <3>1
  <2> QED BY <2>1, <2>2
<1> QED BY <1>5, <1>6, <1>7 DEF Adds

LEMMA AddsRoster ==
  ASSUME ListInv, DistinctIds, PumpsOK, RosterInv, NEW c \in Conn, Adds(c)
  PROVE  RosterInv'
<1> DEFINE g == <<c, "serve">>
<1>0. /\ g \in Goroutines /\ g[2] = "serve" /\ Pump(c) \in Goroutines /\ g # Pump(c)
      /\ \A x \in Conn : g # Pump(x) /\ (x # c => g # <<x, "serve">> /\ Pump(x) # Pump(c))
      /\ \A x \in Conn : Pump(x) \in Goroutines /\ <<x, "serve">> \in Goroutines /\ Pump(c) # <<x, "serve">>
  BY GoroutineParts, PumpParts
<1>1. g = <<c, "serve">>
  OBVIOUS
<1> HIDE DEF g
<1>2. /\ Joins(c) /\ view' = view /\ ws' = ws /\ frame' = frame /\ joined' = joined \cup {c}
      /\ race \subseteq race'
      /\ pc[g] = "append"
      /\ c \in Peers => pc'[g] = "toControls" /\ it'[g] = RangeOver("controllers")
      /\ c \in Controls => pc'[g] = "ownPeers" /\ it'[g] = RangeOver("peers")
      /\ c \in Writeable => pc'[g] = "toProxy" /\ it'[g] = RangeOver("peers")
      /\ c \in Proxies \ Writeable => pc'[g] = "done"
      /\ \A o \in Goroutines \ {g} :
           \/ pc'[o] = pc[o] /\ it'[o] = it[o]
           \/ /\ o = Pump(c) /\ pc'[o] = "read" /\ c \notin Peers
              /\ c \in Proxies => pc'[g] = "done"
  BY <1>1, AddsMove
<1>3. c \notin joined /\ pc[Pump(c)] = "none"
  BY <1>1, <1>2 DEF ListInv, MoveInv, Fresh, PumpsOK, PumpOK
<1>4. LoopsSee /\ Informing /\ (race = {} => Served /\ Withdrawn /\ Announced)
  BY DEF RosterInv
<1>5. ASSUME NEW o \in Goroutines, pc[o] \in Loops, LoopListAt(pc[o]) \notin race'
      PROVE  GoesOnOver(LoopListAt(pc[o]), it[o])
  <2> DEFINE k == LoopListAt(pc[o])
  <2>1. k \in Lists /\ k \notin race /\ k # "none"
    BY <1>2, <1>5, LoopLists DEF Lists
  <2>2. it[o] \in LoopState /\ RoundOK(o, pc[o], it[o])
    BY DEF ListInv, MoveInv, GoroutineTypes, RoundsOK
  <2>3. InHeap(heap[k], it[o])
    BY <2>1, <2>2 DEF RoundOK
  <2>4. RoundSees(k, it[o])
    BY <1>4, <1>5, <2>1 DEF LoopsSee, LoopList
  <2> HIDE DEF k
  <2>5. GoesOnOver(k, it[o])
    BY <1>2, <1>5, <2>1, <2>2, <2>3, <2>4, JoinGoesOn DEF k
  <2> QED BY <2>5 DEF k
<1>6. ASSUME NEW k \in Lists, k \notin race'
      PROVE  GoesOnOver(k, RangeOver(k))
  <2>1. RangeOver(k) \in LoopState /\ InHeap(heap[k], RangeOver(k))
    BY RangeOverOK DEF ListInv, StoreInv
  <2>2. RoundSees(k, RangeOver(k))
    BY RangeSees
  <2> QED BY <1>2, <1>6, <2>1, <2>2, JoinGoesOn
<1>7. c \in Peers \/ c \in Controls \/ c \in Writeable \/ c \in Proxies \ Writeable
  BY DEF Conn
<1>8. LoopsSee'
  <2>1. ASSUME NEW o \in Goroutines, pc'[o] \in Loops, LoopListAt(pc'[o]) \notin race'
        PROVE  SeesAfter(LoopListAt(pc'[o]), it'[o])
    <3>1. CASE o # g
      <4>1. pc'[o] = pc[o] /\ it'[o] = it[o]
        BY <1>2, <2>1, <3>1 DEF Loops
      <4>2. GoesOnOver(LoopListAt(pc[o]), it[o])
        BY <1>5, <2>1, <4>1
      <4> QED BY <4>1, <4>2 DEF GoesOnOver
    <3>2. CASE o = g
      <4>1. LoopListAt(pc'[o]) \in Lists /\ it'[o] = RangeOver(LoopListAt(pc'[o]))
        BY <1>2, <1>7, <2>1, <3>2, LoopLists DEF Loops, LoopListAt
      <4>2. GoesOnOver(LoopListAt(pc'[o]), RangeOver(LoopListAt(pc'[o])))
        BY <1>6, <2>1, <4>1
      <4> QED BY <4>1, <4>2 DEF GoesOnOver
    <3> QED BY <3>1, <3>2
  <2> QED BY <2>1, LoopsGoOn
<1>9. Informing'
  <2> SUFFICES ASSUME NEW x \in Conn, pc'[Pump(x)] = "inform" PROVE frame'[x].target \in RemoteIds
    BY DEF Informing
  <2>1. pc'[Pump(x)] = pc[Pump(x)]
    BY <1>0, <1>2
  <2> QED BY <1>2, <1>4, <2>1 DEF Informing
<1>10. ASSUME race' = {}, Served PROVE Served'
  <2>1. ASSUME NEW x \in Peers \cup Proxies, pc'[Pump(x)] # "none" PROVE pc'[<<x, "serve">>] = "done"
    <3>0. x \in Conn
      BY <2>1 DEF Conn
    <3>1. CASE x = c
      <4>1. Pump(c) # g /\ pc'[Pump(c)] # pc[Pump(c)]
        BY <1>0, <1>3, <2>1, <3>1
      <4>2. c \in Proxies => pc'[g] = "done"
        BY <1>0, <1>2, <4>1
      <4>3. c \notin Peers
        BY <1>0, <1>2, <4>1
      <4> QED BY <1>1, <2>1, <3>1, <4>2, <4>3
    <3>2. CASE x # c
      BY <1>0, <1>2, <1>10, <2>1, <3>0, <3>2 DEF Served
    <3> QED BY <3>1, <3>2
  <2>2. ASSUME NEW p \in Peers, pc'[<<p, "serve">>] \in {"toControls", "toProxies"} PROVE p \in joined'
    <3>0. p \in Conn
      BY DEF Conn
    <3> QED BY <1>0, <1>1, <1>2, <1>10, <2>2, <3>0 DEF Served
  <2>3. ASSUME NEW w \in Watchers, pc'[<<w, "serve">>] \in {"new", "append"} PROVE view'[w] = {}
    <3>0. w \in Conn /\ w # c
      BY <1>1, <1>2, <1>7, <2>3, ConstantTypes DEF Watchers, Conn
    <3> QED BY <1>0, <1>1, <1>2, <1>10, <2>3, <3>0 DEF Served
  <2> QED BY <2>1, <2>2, <2>3 DEF Served
<1>11. ASSUME race' = {}, Served, Withdrawn PROVE Withdrawn'
  <2> SUFFICES ASSUME NEW w \in Watchers \cap joined', ws'[w] = "open", NEW id \in view'[w] \ RemoteIds
               PROVE  \E p \in Peers :
                        /\ Id[p] = id /\ MustKnow(w, p)
                        /\ \/ p \in joined'
                           \/ pc'[Pump(p)] \in Leaving
                           \/ TellsAfter(w, pc'[Pump(p)], it'[Pump(p)])
    BY DEF Withdrawn, ToWithdraw, ToTell, ToCome, Shown, TellsAfter, ComesAfter, Leaving
  <2>1. w \in joined
    BY <1>1, <1>2, <1>11 DEF Served
  <2>2. PICK p \in Peers : /\ Id[p] = id /\ MustKnow(w, p)
                           /\ p \in joined \/ ToWithdraw(w, p, pc[Pump(p)], it[Pump(p)])
    BY <1>2, <1>11, <2>1 DEF Withdrawn
  <2>3. ASSUME p \notin joined
        PROVE  pc'[Pump(p)] \in Leaving \/ TellsAfter(w, pc'[Pump(p)], it'[Pump(p)])
    <3>1. p \in Conn /\ ToWithdraw(w, p, pc[Pump(p)], it[Pump(p)])
      BY <2>2, <2>3 DEF Conn
    <3>2. p # c
      BY <1>3, <3>1 DEF ToWithdraw, ToTell
    <3>3. pc'[Pump(p)] = pc[Pump(p)] /\ it'[Pump(p)] = it[Pump(p)] /\ Pump(p) \in Goroutines
      BY <1>0, <1>2, <3>1, <3>2
    <3>4. ToTell(w, pc[Pump(p)], it[Pump(p)]) => TellsAfter(w, pc[Pump(p)], it[Pump(p)])
      BY <1>5, <1>11, <3>3, TellsOn
    <3> QED BY <3>1, <3>3, <3>4 DEF ToWithdraw, Leaving
  <2> QED BY <1>2, <2>2, <2>3
<1>12. ASSUME race' = {}, Announced PROVE Announced'
  <2> SUFFICES ASSUME NEW w \in Watchers \cap joined', NEW p \in Peers \cap joined',
                      ws'[w] = "open", MustKnow(w, p), Apart(w, p)
               PROVE  \/ Id[p] \in view'[w]
                      \/ \E o \in Goroutines :
                           \/ o \in {<<w, "serve">>, <<p, "serve">>} /\ pc'[o] = "dead"
                           \/ o = <<p, "serve">> /\ TellsAfter(w, pc'[o], it'[o])
                           \/ /\ o = <<w, "serve">> /\ pc'[o] \in {"ownPeers", "toProxy"}
                              /\ ComesAfter("peers", it'[o], p)
    BY DEF Announced, Apart, ToAnnounce, ToTell, ToCome, Shown, TellsAfter, ComesAfter
  <2>0. w \in Conn /\ p \in Conn /\ w # p /\ (w \in Writeable \/ w \in Controls)
    BY ConstantTypes, KindsDisjoint DEF Watchers, Conn
  <2>00. race = {}
    BY <1>2, <1>12
  <2>1. CASE w = c
    <3>1. p \in joined /\ p # c
      BY <1>2, <2>0, <2>1
    <3>2. pc'[g] \in {"ownPeers", "toProxy"} /\ it'[g] = RangeOver("peers")
      BY <1>2, <2>0, <2>1
    <3>3. Kind(p) = "peers"
      BY DEF Kind
    <3>4. ToCome("peers", RangeOver("peers"), p)
      BY <2>00, <3>1, <3>3, RangeComes
    <3>5. ComesAfter("peers", RangeOver("peers"), p)
      BY <1>6, <1>12, <3>4 DEF GoesOnOver, Lists
    <3> QED BY <1>0, <1>1, <2>1, <3>2, <3>5
  <2>2. CASE p = c
    <3>1. w \in joined /\ w # c
      BY <1>2, <2>0, <2>2
    <3>2. pc'[g] = "toControls" /\ it'[g] = RangeOver("controllers")
      BY <1>2, <2>2
    <3>3. TellsAfter(w, pc'[g], it'[g])
      <4>1. CASE w \in Writeable
        BY <3>2, <4>1 DEF TellsAfter
      <4>2. CASE w \in Controls
        <5>1. Kind(w) = "controllers"
          BY <4>2, KindsDisjoint DEF Kind
        <5>2. ToCome("controllers", RangeOver("controllers"), w)
          BY <2>00, <3>1, <5>1, RangeComes
        <5> QED BY <1>6, <1>12, <3>2, <5>2 DEF TellsAfter, GoesOnOver, Lists
      <4> QED BY <2>0, <4>1, <4>2
    <3> QED BY <1>0, <1>1, <2>2, <3>3
  <2>3. CASE w # c /\ p # c
    <3>1. w \in joined /\ p \in joined
      BY <1>2, <2>3
    <3>2. CASE Id[p] \in view[w]
      BY <1>2, <3>2
    <3>3. ASSUME NEW o \in Goroutines, ToAnnounce(w, p, o, pc[o], it[o])
          PROVE  \/ o \in {<<w, "serve">>, <<p, "serve">>} /\ pc'[o] = "dead"
                 \/ o = <<p, "serve">> /\ TellsAfter(w, pc'[o], it'[o])
                 \/ /\ o = <<w, "serve">> /\ pc'[o] \in {"ownPeers", "toProxy"}
                    /\ ComesAfter("peers", it'[o], p)
      <4>1. o \in {<<w, "serve">>, <<p, "serve">>}
        BY <3>3 DEF ToAnnounce
      <4>2. pc'[o] = pc[o] /\ it'[o] = it[o]
        BY <1>0, <1>2, <2>0, <2>3, <4>1
      <4>3. pc[o] \in Loops => GoesOnOver(LoopListAt(pc[o]), it[o])
        BY <1>5, <1>12
      <4>4. ToTell(w, pc[o], it[o]) => TellsAfter(w, pc[o], it[o])
        BY <1>12, <4>3, TellsOn
      <4>5. pc[o] \in {"ownPeers", "toProxy"} => pc[o] \in Loops /\ LoopListAt(pc[o]) = "peers"
        BY DEF Loops, LoopListAt
      <4> QED BY <3>3, <4>2, <4>3, <4>4, <4>5 DEF ToAnnounce, GoesOnOver
    <3> QED BY <1>12, <3>1, <3>2, <3>3, <1>2 DEF Announced
  <2> QED BY <2>1, <2>2, <2>3
<1>13. race' = {} => race = {}
  BY <1>2
<1> QED BY <1>4, <1>8, <1>9, <1>10, <1>11, <1>12, <1>13 DEF RosterInv

\* Where a pump goes when its connection, or the control it took along, is out.
LEMMA CutMove ==
  ASSUME ListInv, PumpsOK, NEW c \in Conn, CutStore(Pump(c))
  PROVE  /\ pc[Pump(c)] = "cutw" /\ view' = view /\ ws' = ws /\ frame' = frame
         /\ it[Pump(c)].cur \in Conn /\ joined' = joined \ {it[Pump(c)].cur} /\ race \subseteq race'
         /\ it[Pump(c)].cur = c \/ (c \in Peers /\ it[Pump(c)].cur \in Controls)
         /\ c \in Peers => pc'[Pump(c)] \in {"findControl", "closeControl"}
         /\ \/ pc'[Pump(c)] \in {"findControl", "closeControl", "close"}
            \/ /\ pc'[Pump(c)] = "toProxy" /\ it'[Pump(c)] = RangeOver("peers")
               /\ Kind(it[Pump(c)].cur) = "proxies"
         /\ \A o \in Goroutines \ {Pump(c)} : pc'[o] = pc[o] /\ it'[o] = it[o]
<1> DEFINE g == Pump(c)
           v == it[g].cur
<1>0. g \in Goroutines /\ g[1] = c
  BY PumpParts
<1>1. /\ pc[g] = "cutw" /\ view' = view /\ ws' = ws /\ frame' = frame
      /\ joined' = joined \ {v} /\ race \subseteq race' /\ AfterRemoval(g, v)
  BY DEF CutStore, At, sockets, input
<1>2. v \in Conn /\ (v = c \/ (c \in Peers /\ v \in Controls))
  BY <1>0, <1>1 DEF PumpsOK, PumpOK, Removing, ListInv, MoveInv, RoundsOK, RoundOK
<1>3. /\ v \in Peers => v \notin Controls /\ v \notin Proxies /\ v \notin Writeable
      /\ v \in Controls => v \notin Peers /\ v \notin Proxies /\ v \notin Writeable
      /\ v \in Writeable => Kind(v) = "proxies"
  BY KindsDisjoint, ConstantTypes DEF Kind
<1>4. \E label, r : /\ Goto(g, label, r)
                    /\ c \in Peers => label \in {"findControl", "closeControl"}
                    /\ \/ label \in {"findControl", "closeControl", "close"}
                       \/ label = "toProxy" /\ r = RangeOver("peers") /\ Kind(v) = "proxies"
  <2> HIDE DEF g, v
  <2>1. CASE v \in Peers /\ Goto(g, "findControl", RangeOver("controllers"))
    BY <2>1
  <2>2. CASE v \in Controls /\ g[1] = v /\ Goto(g, "close", Idle)
    BY <1>0, <1>3, <2>2
  <2>3. CASE v \in Controls /\ g[1] # v /\ Goto(g, "closeControl", [Idle EXCEPT !.cur = v])
    BY <2>3
  <2>4. CASE v \in Writeable /\ Goto(g, "toProxy", RangeOver("peers"))
    BY <1>2, <1>3, <2>4
  <2>5. CASE v \in Proxies \ Writeable /\ Goto(g, "close", Idle)
    BY <1>2, <1>3, <2>5
  <2> QED BY <1>1, <2>1, <2>2, <2>3, <2>4, <2>5 DEF AfterRemoval
<1>5. pc \in [Goroutines -> Labels] /\ it \in [Goroutines -> LoopState]
  BY DEF ListInv, MoveInv, GoroutineTypes
<1>6. PICK label, r : /\ Goto(g, label, r)
                      /\ c \in Peers => label \in {"findControl", "closeControl"}
                      /\ \/ label \in {"findControl", "closeControl", "close"}
                         \/ label = "toProxy" /\ r = RangeOver("peers") /\ Kind(v) = "proxies"
  BY <1>4
<1>7. pc'[g] = label /\ it'[g] = r /\ \A o \in Goroutines \ {g} : pc'[o] = pc[o] /\ it'[o] = it[o]
  BY <1>0, <1>5, <1>6 DEF Goto
<1> QED BY <1>1, <1>2, <1>6, <1>7

LEMMA CutStoreRoster ==
  ASSUME ListInv, DistinctIds, PumpsOK, RosterInv, NEW c \in Conn, CutStore(Pump(c))
  PROVE  RosterInv'
<1> DEFINE g == Pump(c)
           v == it[g].cur
<1>0. /\ g \in Goroutines /\ g[2] = "read"
      /\ \A x \in Conn : g # <<x, "serve">> /\ (x # c => g # Pump(x))
      /\ \A x \in Conn : Pump(x) \in Goroutines /\ <<x, "serve">> \in Goroutines
  BY GoroutineParts, PumpParts
<1>1. g = Pump(c) /\ v = it[g].cur
  OBVIOUS
<1>2. CutStore(g)
  OBVIOUS
<1> HIDE DEF g, v
<1>3. /\ pc[g] = "cutw" /\ view' = view /\ ws' = ws /\ frame' = frame
      /\ v \in Conn /\ joined' = joined \ {v} /\ race \subseteq race'
      /\ v = c \/ (c \in Peers /\ v \in Controls)
      /\ c \in Peers => pc'[g] \in {"findControl", "closeControl"}
      /\ \/ pc'[g] \in {"findControl", "closeControl", "close"}
         \/ pc'[g] = "toProxy" /\ it'[g] = RangeOver("peers") /\ Kind(v) = "proxies"
      /\ \A o \in Goroutines \ {g} : pc'[o] = pc[o] /\ it'[o] = it[o]
  BY <1>1, CutMove
<1>4. LoopsSee /\ Informing /\ (race = {} => Served /\ Withdrawn /\ Announced)
  BY DEF RosterInv
<1>5. ASSUME NEW o \in Goroutines \ {g}, pc[o] \in Loops, LoopListAt(pc[o]) \notin race'
      PROVE  GoesOnOver(LoopListAt(pc[o]), it[o])
  <2> DEFINE k == LoopListAt(pc[o])
  <2>1. k \in Lists /\ k \notin race /\ k # "none" /\ InUse(o, k)
    BY <1>3, <1>5, LoopLists DEF Lists, InUse, LoopList
  <2>2. RoundSees(k, it[o])
    BY <1>4, <1>5, <2>1 DEF LoopsSee, LoopList
  <2> HIDE DEF k
  <2>3. heap'[k] = heap[k] /\ list'[k] = list[k]
    BY <1>0, <1>2, <1>5, <2>1, CutElsewhere DEF k
  <2>4. GoesOnOver(k, it[o])
    BY <2>1, <2>2, <2>3, SameGoesOn
  <2> QED BY <2>4 DEF k
<1>6. LoopsSee'
  <2>1. ASSUME NEW o \in Goroutines, pc'[o] \in Loops, LoopListAt(pc'[o]) \notin race'
        PROVE  SeesAfter(LoopListAt(pc'[o]), it'[o])
    <3>1. CASE o # g
      <4>1. pc'[o] = pc[o] /\ it'[o] = it[o]
        BY <1>3, <2>1, <3>1
      <4>2. GoesOnOver(LoopListAt(pc[o]), it[o])
        BY <1>5, <2>1, <3>1, <4>1
      <4> QED BY <4>1, <4>2 DEF GoesOnOver
    <3>2. CASE o = g
      <4>1. pc'[g] = "toProxy" /\ it'[g] = RangeOver("peers") /\ Kind(v) = "proxies"
        BY <1>3, <2>1, <3>2 DEF Loops
      <4>2. LoopListAt(pc'[g]) = "peers" /\ "peers" \in Lists /\ "peers" \notin race'
        BY <2>1, <3>2, <4>1 DEF LoopListAt, Lists
      <4>3. heap'["peers"] = heap["peers"] /\ list'["peers"] = list["peers"]
        BY <1>0, <1>1, <1>2, <4>1, <4>2, CutElsewhere
      <4>4. RoundSees("peers", RangeOver("peers"))
        BY <4>2, RangeSees
      <4>5. GoesOnOver("peers", RangeOver("peers"))
        BY <4>2, <4>3, <4>4, SameGoesOn
      <4> QED BY <3>2, <4>1, <4>2, <4>5 DEF GoesOnOver
    <3> QED BY <3>1, <3>2
  <2> QED BY <2>1, LoopsGoOn
<1>7. Informing'
  <2> SUFFICES ASSUME NEW x \in Conn, pc'[Pump(x)] = "inform" PROVE frame'[x].target \in RemoteIds
    BY DEF Informing
  <2>1. pc'[Pump(x)] = pc[Pump(x)]
    BY <1>0, <1>3
  <2> QED BY <1>3, <1>4, <2>1 DEF Informing
<1>8. ASSUME race' = {}, Served PROVE Served'
  <2>0. \A x \in Conn : pc'[<<x, "serve">>] = pc[<<x, "serve">>]
    BY <1>0, <1>3
  <2>1. ASSUME NEW x \in Peers \cup Proxies, pc'[Pump(x)] # "none" PROVE pc'[<<x, "serve">>] = "done"
    <3>0. x \in Conn
      BY DEF Conn
    <3>1. pc[Pump(x)] # "none"
      BY <1>0, <1>1, <1>3, <2>1, <3>0
    <3> QED BY <1>8, <2>0, <3>0, <3>1 DEF Served
  <2>2. ASSUME NEW p \in Peers, pc'[<<p, "serve">>] \in {"toControls", "toProxies"} PROVE p \in joined'
    <3>0. p \in Conn /\ p \notin Controls
      BY KindsDisjoint DEF Conn
    <3>1. p \in joined
      BY <1>8, <2>0, <2>2, <3>0 DEF Served
    <3>2. p # c
      BY <1>1, <1>3, <1>8, <2>0, <2>2, <3>0 DEF Served
    <3> QED BY <1>3, <3>0, <3>1, <3>2
  <2>3. ASSUME NEW w \in Watchers, pc'[<<w, "serve">>] \in {"new", "append"} PROVE view'[w] = {}
    BY <1>3, <1>8, <2>0, <2>3, ConstantTypes DEF Served, Watchers, Conn
  <2> QED BY <2>1, <2>2, <2>3 DEF Served
<1>9. ASSUME race' = {}, Withdrawn PROVE Withdrawn'
  <2> SUFFICES ASSUME NEW w \in Watchers \cap joined', ws'[w] = "open", NEW id \in view'[w] \ RemoteIds
               PROVE  \E p \in Peers :
                        /\ Id[p] = id /\ MustKnow(w, p)
                        /\ \/ p \in joined'
                           \/ pc'[Pump(p)] \in Leaving
                           \/ TellsAfter(w, pc'[Pump(p)], it'[Pump(p)])
    BY DEF Withdrawn, ToWithdraw, ToTell, ToCome, Shown, TellsAfter, ComesAfter, Leaving
  <2>1. PICK p \in Peers : /\ Id[p] = id /\ MustKnow(w, p)
                           /\ p \in joined \/ ToWithdraw(w, p, pc[Pump(p)], it[Pump(p)])
    BY <1>3, <1>9 DEF Withdrawn
  <2>2. p \in Conn /\ p \notin Controls
    BY KindsDisjoint DEF Conn
  <2>3. CASE p = c
    BY <1>1, <1>3, <2>1, <2>3 DEF Leaving
  <2>4. CASE p # c /\ p \in joined
    BY <1>3, <2>1, <2>2, <2>4
  <2>5. CASE p # c /\ p \notin joined
    <3>1. ToWithdraw(w, p, pc[Pump(p)], it[Pump(p)])
      BY <2>1, <2>5
    <3>2. pc'[Pump(p)] = pc[Pump(p)] /\ it'[Pump(p)] = it[Pump(p)] /\ Pump(p) \in Goroutines \ {g}
      BY <1>0, <1>3, <2>2, <2>5
    <3>3. ToTell(w, pc[Pump(p)], it[Pump(p)]) => TellsAfter(w, pc[Pump(p)], it[Pump(p)])
      BY <1>5, <1>9, <3>2, TellsOn
    <3> QED BY <2>1, <3>1, <3>2, <3>3 DEF ToWithdraw, Leaving
  <2> QED BY <2>3, <2>4, <2>5
<1>10. ASSUME race' = {}, Announced PROVE Announced'
  <2> SUFFICES ASSUME NEW w \in Watchers \cap joined', NEW p \in Peers \cap joined',
                      ws'[w] = "open", MustKnow(w, p), Apart(w, p)
               PROVE  \/ Id[p] \in view'[w]
                      \/ \E o \in Goroutines :
                           \/ o \in {<<w, "serve">>, <<p, "serve">>} /\ pc'[o] = "dead"
                           \/ o = <<p, "serve">> /\ TellsAfter(w, pc'[o], it'[o])
                           \/ /\ o = <<w, "serve">> /\ pc'[o] \in {"ownPeers", "toProxy"}
                              /\ ComesAfter("peers", it'[o], p)
    BY DEF Announced, Apart, ToAnnounce, ToTell, ToCome, Shown, TellsAfter, ComesAfter
  <2>1. w \in Conn /\ p \in Conn /\ w \in joined /\ p \in joined
    BY <1>3, ConstantTypes DEF Watchers, Conn
  <2>2. CASE Id[p] \in view[w]
    BY <1>3, <2>2
  <2>3. ASSUME NEW o \in Goroutines, ToAnnounce(w, p, o, pc[o], it[o])
        PROVE  \/ o \in {<<w, "serve">>, <<p, "serve">>} /\ pc'[o] = "dead"
               \/ o = <<p, "serve">> /\ TellsAfter(w, pc'[o], it'[o])
               \/ /\ o = <<w, "serve">> /\ pc'[o] \in {"ownPeers", "toProxy"}
                  /\ ComesAfter("peers", it'[o], p)
    <3>1. o \in {<<w, "serve">>, <<p, "serve">>}
      BY <2>3 DEF ToAnnounce
    <3>2. o \in Goroutines \ {g} /\ pc'[o] = pc[o] /\ it'[o] = it[o]
      BY <1>0, <1>3, <2>1, <3>1
    <3>3. pc[o] \in Loops => GoesOnOver(LoopListAt(pc[o]), it[o])
      BY <1>5, <1>10, <3>2
    <3>4. ToTell(w, pc[o], it[o]) => TellsAfter(w, pc[o], it[o])
      BY <1>10, <3>3, TellsOn
    <3>5. pc[o] \in {"ownPeers", "toProxy"} => pc[o] \in Loops /\ LoopListAt(pc[o]) = "peers"
      BY DEF Loops, LoopListAt
    <3> QED BY <2>3, <3>2, <3>3, <3>4, <3>5 DEF ToAnnounce, GoesOnOver
  <2> QED BY <1>3, <1>10, <2>1, <2>2, <2>3 DEF Announced
<1>11. race' = {} => race = {}
  BY <1>3
<1> QED BY <1>4, <1>6, <1>7, <1>8, <1>9, <1>10, <1>11 DEF RosterInv

----------------------------------------------------------------------------
(* All steps.                                                              *)

LEMMA RosterInitOK == Init => RosterInv
<1> SUFFICES ASSUME Init PROVE RosterInv
  OBVIOUS
<1>1. /\ \A c \in Conn : pc[<<c, "serve">>] = "new" /\ pc[Pump(c)] = "none"
      /\ \A g \in Goroutines : pc[g] \in {"new", "none"}
      /\ joined = {} /\ view = [w \in Watchers |-> {}]
  BY GoroutineParts, PumpParts DEF Init
<1>2. LoopsSee /\ Informing
  BY <1>1 DEF LoopsSee, Loops, Informing
<1>3. Served
  BY <1>1 DEF Served, Conn
<1>4. Withdrawn /\ Announced
  BY <1>1 DEF Withdrawn, Announced
<1> QED BY <1>2, <1>3, <1>4 DEF RosterInv

LEMMA RosterStepOK == ListInv /\ GroupInv /\ RosterInv /\ [Next]_vars => RosterInv'
<1> SUFFICES ASSUME ListInv, GroupInv, RosterInv, [Next]_vars PROVE RosterInv'
  OBVIOUS
<1>1. CASE ~DistinctIds
  BY <1>1 DEF RosterInv, DistinctIds
<1>2. CASE DistinctIds
  <2>0. /\ Peers \subseteq Conn /\ Controls \subseteq Conn /\ Proxies \subseteq Conn
        /\ \A c \in Conn : Pump(c) \in Goroutines /\ <<c, "serve">> \in Goroutines
        /\ Controls \cap Peers = {} /\ Proxies \cap Peers = {}
    BY GoroutineParts, KindsDisjoint DEF Conn
  <2>1. PumpsOK
    BY <1>2 DEF GroupInv
  <2>2. CASE ClientStep
    BY <1>2, <2>2, ClientRoster
  <2>3. CASE Dispatcher
    BY <1>2, <2>3, DispatcherRoster
  <2>4. ASSUME NEW c \in Conn, Teardown(c) PROVE RosterInv'
    BY <1>2, <2>1, <2>4, ScanRoster, CutRoster, CutStoreRoster, ClosesRoster DEF Teardown
  <2>5. ASSUME NEW c \in Conn, Panics(c) PROVE RosterInv'
    <3>1. CASE PumpPanics(c)
      BY <1>2, <3>1, RosterStays DEF PumpPanics, Crash, sockets, input, OpensNone, Informing, RosterInv
    <3>2. CASE WritePanics(Pump(c))
      BY <1>2, <2>0, <3>2, WritePanicsRoster
    <3> QED BY <2>5, <3>1, <3>2 DEF Panics
  <2>6. ASSUME NEW p \in Peers, PeerServe(p) PROVE RosterInv'
    <3>1. AddPeer(p) => Adds(p)
      BY DEF Adds
    <3> QED BY <1>2, <2>0, <2>1, <2>6, <3>1, AddsRoster, PeerAnnounces, WritePanicsRoster DEF PeerServe
  <2>7. ASSUME NEW p \in Peers, PeerPump(p) PROVE RosterInv'
    BY <1>2, <2>0, <2>1, <2>4, <2>5, <2>7, NotifyRoster, EnqueueRoster, FindControlRoster,
       ClosesRoster, PeerWithdraws DEF PeerPump
  <2>8. ASSUME NEW c \in Controls, ControlServe(c) PROVE RosterInv'
    <3>1. AddControl(c) => Adds(c)
      BY DEF Adds
    <3>2. ControlOwnPeers(c) => RosterInv'
      BY <1>2, <2>0, WatcherIsTold
    <3> QED BY <1>2, <2>0, <2>1, <2>8, <3>1, <3>2, AddsRoster, ControlLoopRoster, RemotePeerTold,
               WritePanicsRoster DEF ControlServe
  <2>9. ASSUME NEW c \in Controls, ControlPump(c) PROVE RosterInv'
    BY <1>2, <2>0, <2>4, <2>5, <2>9, RelayRoster DEF ControlPump
  <2>10. ASSUME NEW x \in Proxies, ProxyServe(x) PROVE RosterInv'
    <3>1. AddProxy(x) => Adds(x)
      BY DEF Adds
    <3>2. ProxyToFarEnd(<<x, "serve">>) => RosterInv'
      BY <1>2, <2>0, WatcherIsTold
    <3> QED BY <1>2, <2>0, <2>1, <2>10, <3>1, <3>2, AddsRoster, WritePanicsRoster DEF ProxyServe
  <2>11. ASSUME NEW x \in Proxies, ProxyPump(x) PROVE RosterInv'
    BY <1>2, <2>0, <2>1, <2>4, <2>5, <2>11, ProxyInformsRoster, NotifyRoster, EnqueueRoster,
       RelayRoster, ProxyWithdraws DEF ProxyPump
  <2>12. CASE UNCHANGED vars
    BY <1>2, <2>12, RosterStays DEF vars, sockets, input, OpensNone, Informing, RosterInv
  <2> QED BY <2>2, <2>3, <2>6, <2>7, <2>8, <2>9, <2>10, <2>11, <2>12 DEF Next
<1> QED BY <1>1, <1>2

LEMMA RosterInvariant == Spec => [](ListInv /\ GroupInv /\ RosterInv)
<1>1. ListInv /\ GroupInv /\ RosterInv /\ [Next]_vars => (ListInv /\ GroupInv /\ RosterInv)'
  BY StepOK, GroupStepOK, RosterStepOK
<1> QED BY <1>1, InitOK, GroupInitOK, RosterInitOK, PTL DEF Spec

\* Whichever of the two joins last, a peer and a watcher that both finished
\* addConnection know of each other (peer.go:145-162, control.go:130-143,
\* proxy.go:212-220), for any number of connections and any order of their
\* steps.
THEOREM EverybodyIsAnnounced == Spec => []AllAnnounced
<1>1. RosterInv => AllAnnounced
  <2> SUFFICES ASSUME RosterInv, DistinctIds, race = {},
                      NEW w \in Watchers \cap joined, NEW p \in Peers \cap joined,
                      ws[w] = "open", Informed(w), pc[<<p, "serve">>] = "done",
                      MustKnow(w, p), Apart(w, p)
               PROVE  Id[p] \in view[w]
    BY DEF AllAnnounced
  <2>1. Id[p] \in view[w] \/ \E g \in Goroutines : ToAnnounce(w, p, g, pc[g], it[g])
    BY DEF RosterInv, Announced
  <2>2. \A g \in Goroutines : ~ToAnnounce(w, p, g, pc[g], it[g])
    BY DEF ToAnnounce, ToTell, Informed
  <2> QED BY <2>1, <2>2
<1> QED BY <1>1, RosterInvariant, PTL

\* Once everything has come to rest a watcher knows of no local peer that has
\* left (peer.go:186-199, proxy.go:236-241).
THEOREM NobodyIsAGhost == Spec => []NoGhosts
<1>1. RosterInv => NoGhosts
  <2> SUFFICES ASSUME RosterInv, DistinctIds, race = {}, Quiet, NEW w \in Watchers \cap joined,
                      ws[w] = "open", NEW id \in view[w] \ RemoteIds
               PROVE  \E p \in Peers \cap joined : Id[p] = id
    BY DEF NoGhosts
  <2>1. PICK p \in Peers : Id[p] = id /\ (p \in joined \/ ToWithdraw(w, p, pc[Pump(p)], it[Pump(p)]))
    BY DEF RosterInv, Withdrawn
  <2>2. Pump(p) \in Goroutines
    BY PumpParts DEF Conn
  <2>3. ~ToWithdraw(w, p, pc[Pump(p)], it[Pump(p)])
    BY <2>2 DEF Quiet, ToWithdraw, ToTell
  <2> QED BY <2>1, <2>3
<1> QED BY <1>1, RosterInvariant, PTL

----------------------------------------------------------------------------
(* Relays.                                                                 *)

\* A step of another goroutine, or one of c's pump outside its relay.
RelayKept(c) ==
  \/ pc'[Pump(c)] = pc[Pump(c)] /\ it'[Pump(c)] = it[Pump(c)] /\ frame'[c] = frame[c]
  \/ pc'[Pump(c)] # "relay" /\ (race = {} => pc[Pump(c)] # "relay")
  \/ pc[Pump(c)] = "read" /\ it'[Pump(c)] = RangeOver("controllers")

LEMMA GotoKeepsRelay ==
  ASSUME ListInv, NEW c \in Conn, NEW g \in Goroutines, NEW label, NEW r, Goto(g, label, r),
         g # Pump(c) => frame'[c] = frame[c],
         g = Pump(c) => pc[g] # "relay" /\ label # "relay"
  PROVE  RelayKept(c)
<1>1. Pump(c) \in Goroutines
  BY PumpParts
<1> QED BY <1>1 DEF RelayKept, Goto, ListInv, MoveInv, GoroutineTypes

LEMMA ServeKeepsRelay ==
  ASSUME ListInv, NEW c \in Conn, NEW d \in Conn, NEW label, NEW r, Goto(<<d, "serve">>, label, r),
         frame' = frame
  PROVE  RelayKept(c)
BY GotoKeepsRelay, GoroutineParts

LEMMA PumpKeepsRelay ==
  ASSUME ListInv, NEW c \in Conn, NEW d \in Conn, NEW label, NEW r, Goto(Pump(d), label, r),
         frame' = frame, pc[Pump(d)] # "relay", label # "relay"
  PROVE  RelayKept(c)
BY GotoKeepsRelay, PumpParts

LEMMA StartKeepsRelay ==
  ASSUME ListInv, RosterInv, DistinctIds, NEW c \in Conn, NEW d \in Peers \cup Proxies, StartPumps(d),
         pc[<<d, "serve">>] # "done", frame' = frame
  PROVE  RelayKept(c)
<1>0. d \in Conn
  BY DEF Conn
<1>1. /\ <<d, "serve">> \in Goroutines /\ Pump(d) \in Goroutines /\ Pump(c) \in Goroutines
      /\ Pump(c) # <<d, "serve">> /\ (c # d => Pump(c) # Pump(d))
  BY <1>0, GoroutineParts, PumpParts
<1>2. /\ pc' = [pc EXCEPT ![<<d, "serve">>] = "done", ![Pump(d)] = "read"]
      /\ it' = [it EXCEPT ![<<d, "serve">>] = Idle]
  BY DEF StartPumps, Pump
<1>3. race = {} => pc[Pump(d)] = "none"
  BY DEF RosterInv, Served
<1>4. pc \in [Goroutines -> Labels] /\ it \in [Goroutines -> LoopState]
  BY DEF ListInv, MoveInv, GoroutineTypes
<1>5. CASE c = d
  <2>1. pc'[Pump(c)] = "read" /\ (race = {} => pc[Pump(c)] # "relay")
    BY <1>1, <1>2, <1>3, <1>4, <1>5
  <2> QED BY <2>1 DEF RelayKept
<1>6. CASE c # d
  <2>1. pc'[Pump(c)] = pc[Pump(c)] /\ it'[Pump(c)] = it[Pump(c)]
    BY <1>1, <1>2, <1>4, <1>6
  <2> QED BY <2>1 DEF RelayKept
<1> QED BY <1>5, <1>6

LEMMA ReadsKeepRelay ==
  ASSUME ListInv, NEW c \in Conn, NEW d \in Conn, NEW f, NEW label, NEW r, Reads(d, f, label, r),
         label = "relay" => r = RangeOver("controllers")
  PROVE  RelayKept(c)
<1>1. /\ pc[Pump(d)] = "read" /\ Goto(Pump(d), label, r)
      /\ frame' = [frame EXCEPT ![d] = f]
  BY DEF Reads, At
<1>2. Pump(d) \in Goroutines /\ Pump(c) \in Goroutines /\ (c # d => Pump(c) # Pump(d))
  BY PumpParts
<1>3. CASE c # d
  <2>1. frame'[c] = frame[c]
    BY <1>1, <1>3 DEF ListInv, InputTypes
  <2> QED BY <1>1, <1>2, <1>3, <2>1, GotoKeepsRelay
<1>4. CASE c = d
  <2>1. pc'[Pump(c)] = label /\ it'[Pump(c)] = r
    BY <1>1, <1>2, <1>4 DEF Goto, ListInv, MoveInv, GoroutineTypes
  <2> QED BY <1>1, <1>4, <2>1 DEF RelayKept
<1> QED BY <1>3, <1>4

LEMMA AddsKeepRelay ==
  ASSUME ListInv, PumpsOK, NEW c \in Conn, NEW d \in Conn, Adds(d)
  PROVE  RelayKept(c)
<1>1. /\ frame' = frame /\ pc[<<d, "serve">>] = "append"
      /\ \A o \in Goroutines \ {<<d, "serve">>} :
           \/ pc'[o] = pc[o] /\ it'[o] = it[o]
           \/ o = Pump(d) /\ pc'[o] = "read"
  BY AddsMove
<1>2. pc[Pump(d)] = "none"
  BY <1>1 DEF PumpsOK, PumpOK
<1>3. Pump(c) \in Goroutines \ {<<d, "serve">>}
  BY GoroutineParts
<1> QED BY <1>1, <1>2, <1>3 DEF RelayKept

LEMMA OtherRelays ==
  ASSUME ListInv, NEW c \in Conn, NEW d \in Conn, RelayToProxy(d) \/ (Relay(d) /\ d # c)
  PROVE  RelayKept(c)
<1>1. PICK label, r : Goto(Pump(d), label, r) /\ (RelayToProxy(d) => label # "relay")
  BY DEF RelayToProxy, Relay, RelayRound
<1>2. \E f : frame' = [frame EXCEPT ![d] = f]
  BY DEF RelayToProxy, Relay, RelayRound
<1>3. c # d => frame'[c] = frame[c]
  BY <1>2 DEF ListInv, InputTypes
<1>4. RelayToProxy(d) => pc[Pump(d)] # "relay"
  BY DEF RelayToProxy, RelayRound, At
<1>5. Pump(d) \in Goroutines /\ (c # d => Pump(c) # Pump(d))
  BY PumpParts
<1> QED BY <1>1, <1>3, <1>4, <1>5, GotoKeepsRelay

LEMMA StillKeepsRelay ==
  ASSUME NEW c \in Conn, UNCHANGED <<pc, it>>, frame' = frame
  PROVE  RelayKept(c)
BY DEF RelayKept

LEMMA ServesKeepRelay ==
  ASSUME ListInv, PumpsOK, RosterInv, DistinctIds, NEW c \in Conn, NEW d \in Conn,
         \/ d \in Peers /\ PeerServe(d)
         \/ d \in Controls /\ ControlServe(d)
         \/ d \in Proxies /\ ProxyServe(d)
  PROVE  RelayKept(c)
<1> DEFINE g == <<d, "serve">>
<1>0. g[1] = d /\ g[2] = "serve"
  OBVIOUS
<1>1. ASSUME Adds(d) PROVE RelayKept(c)
  BY <1>1, AddsKeepRelay
<1>2. ASSUME WritePanics(g) PROVE RelayKept(c)
  <2>1. frame' = frame /\ (Goto(g, "dead", Idle) \/ UNCHANGED <<pc, it>>)
    BY <1>0, <1>2 DEF WritePanics, input
  <2> QED BY <2>1, ServeKeepsRelay, StillKeepsRelay
<1>3. ASSUME d \in Peers, PeerToControls(g) \/ PeerToProxies(g) PROVE RelayKept(c)
  <2>1. frame' = frame /\ pc[g] # "done"
        /\ (StartPumps(d) \/ \E label, r : Goto(g, label, r))
    BY <1>0, <1>3 DEF PeerToControls, PeerToProxies, AnnounceRound, At, input
  <2> QED BY <1>3, <2>1, ServeKeepsRelay, StartKeepsRelay
<1>4. ASSUME d \in Proxies, ProxyToFarEnd(g) PROVE RelayKept(c)
  <2>1. frame' = frame /\ pc[g] # "done"
        /\ (StartPumps(d) \/ \E label, r : Goto(g, label, r))
    BY <1>0, <1>4 DEF ProxyToFarEnd, AnnounceRound, At, input
  <2> QED BY <1>4, <2>1, ServeKeepsRelay, StartKeepsRelay
<1>5. ASSUME ControlOwnPeers(d) PROVE RelayKept(c)
  <2>1. frame' = frame /\ \E label, r : Goto(g, label, r)
    BY <1>5 DEF ControlOwnPeers, AnnounceRound, input
  <2> QED BY <2>1, ServeKeepsRelay
<1>6. ASSUME ControlProxyPeer(d) \/ ControlProxyPeerSend(d) PROVE RelayKept(c)
  BY <1>6, StillKeepsRelay DEF ControlProxyPeer, ControlProxyPeerSend, input
<1>7. ASSUME ControlNextProxy(d) PROVE RelayKept(c)
  <2>1. frame' = frame /\ \E label, r : Goto(g, label, r)
    BY <1>7 DEF ControlNextProxy, input
  <2> QED BY <2>1, ServeKeepsRelay
<1> QED BY <1>1, <1>2, <1>3, <1>4, <1>5, <1>6, <1>7 DEF PeerServe, ControlServe, ProxyServe, Adds

LEMMA PumpsKeepRelay ==
  ASSUME ListInv, NEW c \in Conn, NEW d \in Conn,
         \/ d \in Peers /\ PeerPump(d)
         \/ d \in Controls /\ ControlPump(d)
         \/ d \in Proxies /\ ProxyPump(d),
         ~(d = c /\ Relay(c))
  PROVE  RelayKept(c)
<1> DEFINE g == Pump(d)
<1>0. g[1] = d /\ g[2] = "read"
  BY PumpParts
<1> HIDE DEF g
<1>1. ASSUME Scan(g) \/ CutStore(g) PROVE RelayKept(c)
  <2>1. /\ frame' = frame /\ pc[g] # "relay"
        /\ (\E r : Goto(g, "cut", r) \/ Goto(g, "scan", r)) \/ AfterRemoval(g, it[g].cur)
    BY <1>1 DEF Scan, CutStore, At, input
  <2>2. \E label, r : Goto(g, label, r) /\ label # "relay"
    BY <2>1 DEF AfterRemoval
  <2> QED BY <2>1, <2>2, PumpKeepsRelay DEF g
<1>2. ASSUME Cut(g) PROVE RelayKept(c)
  <2>1. /\ frame' = frame /\ pc[g] # "relay"
        /\ UNCHANGED <<pc, it>> \/ \E r : Goto(g, "cutw", r)
    BY <1>2 DEF Cut, Crash, At, input
  <2> QED BY <2>1, PumpKeepsRelay, StillKeepsRelay DEF g
<1>3. ASSUME FindControl(g) \/ CloseControl(g) \/ Close(d) PROVE RelayKept(c)
  <2>1. /\ frame' = frame /\ pc[g] # "relay"
        /\ \E label, r : Goto(g, label, r) /\ label # "relay"
    BY <1>3 DEF FindControl, CloseControl, Close, At, input, g
  <2> QED BY <2>1, PumpKeepsRelay DEF g
<1>4. ASSUME Panics(d) PROVE RelayKept(c)
  <2>1. frame' = frame /\ UNCHANGED <<pc, it>>
    BY <1>0, <1>4 DEF Panics, PumpPanics, WritePanics, Crash, input, g
  <2> QED BY <2>1, StillKeepsRelay
<1>5. ASSUME Notify(d) PROVE RelayKept(c)
  <2>1. /\ frame' = frame /\ pc[g] # "relay"
        /\ UNCHANGED <<pc, it>> \/ \E r : Goto(g, "enqueue", r)
    BY <1>5 DEF Notify, At, g
  <2> QED BY <2>1, PumpKeepsRelay, StillKeepsRelay DEF g
<1>6. ASSUME Enqueue(d) PROVE RelayKept(c)
  <2>1. frame' = frame /\ pc[g] # "relay" /\ Goto(g, "read", Idle)
    BY <1>6 DEF Enqueue, At, input, g
  <2> QED BY <2>1, PumpKeepsRelay DEF g
<1>7. ASSUME PeerToControls(g) \/ PeerToProxies(g) \/ ProxyToFarEnd(g) \/ ProxyInforms(d) PROVE RelayKept(c)
  <2>1. /\ frame' = frame /\ pc[g] # "relay"
        /\ \E label, r : Goto(g, label, r) /\ label # "relay"
    BY <1>0, <1>7 DEF PeerToControls, PeerToProxies, ProxyToFarEnd, ProxyInforms, AnnounceRound, At, input, g
  <2> QED BY <2>1, PumpKeepsRelay DEF g
<1>8. ASSUME Relay(d) \/ RelayToProxy(d) PROVE RelayKept(c)
  BY <1>8, OtherRelays
<1> QED BY <1>1, <1>2, <1>3, <1>4, <1>5, <1>6, <1>7, <1>8
        DEF PeerPump, ControlPump, ProxyPump, Teardown, g

LEMMA ClientsKeepRelay ==
  ASSUME ListInv, NEW c \in Conn, ClientStep
  PROVE  RelayKept(c)
<1>0. Peers \subseteq Conn /\ Controls \subseteq Conn /\ Proxies \subseteq Conn
  BY DEF Conn
<1>1. ASSUME NEW d \in Conn, Accept(d) PROVE RelayKept(c)
  <2>1. frame' = frame /\ \E label, r : Goto(<<d, "serve">>, label, r)
    BY <1>1 DEF Accept, input
  <2> QED BY <2>1, ServeKeepsRelay
<1>2. ASSUME NEW d \in Conn, ReadFails(d) PROVE RelayKept(c)
  <2>1. frame' = frame /\ pc[Pump(d)] # "relay" /\ \E r : Goto(Pump(d), "scan", r)
    BY <1>2 DEF ReadFails, At, input
  <2> QED BY <2>1, PumpKeepsRelay
<1>3. ASSUME NEW p \in Peers, PeerReads(p) PROVE RelayKept(c)
  <2>1. \E f, label, r : Reads(p, f, label, r) /\ label # "relay"
    BY <1>3 DEF PeerReads, NotifyOrEnqueue
  <2> QED BY <1>0, <2>1, ReadsKeepRelay
<1>4. ASSUME NEW d \in Controls, ControlReads(d) PROVE RelayKept(c)
  <2>1. \E f : Reads(d, f, "relay", RangeOver("controllers"))
    BY <1>4 DEF ControlReads
  <2> QED BY <1>0, <2>1, ReadsKeepRelay
<1>5. ASSUME NEW d \in Controls, ControlReadsMalformed(d) PROVE RelayKept(c)
  BY <1>5, StillKeepsRelay DEF ControlReadsMalformed, Crash, input
<1>6. ASSUME NEW x \in Proxies, ProxyReads(x) PROVE RelayKept(c)
  <2>1. ASSUME NEW f, NEW label, NEW r, Reads(x, f, label, r), label = "relay" => r = RangeOver("controllers")
        PROVE  RelayKept(c)
    BY <1>0, <2>1, ReadsKeepRelay
  <2>2. CASE \E f, r : Reads(x, f, "inform", r)
    BY <2>1, <2>2
  <2>3. CASE \E f, m, r : Reads(x, f, NotifyOrEnqueue(m), r)
    BY <2>1, <2>3 DEF NotifyOrEnqueue
  <2>4. CASE \E f : Reads(x, f, "relay", RangeOver("controllers"))
    BY <2>1, <2>4
  <2> QED BY <1>6, <2>2, <2>3, <2>4 DEF ProxyReads
<1> QED BY <1>1, <1>2, <1>3, <1>4, <1>5, <1>6 DEF ClientStep

LEMMA RelayOrKept ==
  ASSUME ListInv, GroupInv, RosterInv, DistinctIds, NEW c \in Conn, [Next]_vars
  PROVE  Relay(c) \/ RelayKept(c)
<1>0. Peers \subseteq Conn /\ Controls \subseteq Conn /\ Proxies \subseteq Conn /\ PumpsOK
  BY DEF Conn, GroupInv
<1>1. CASE ClientStep
  BY <1>1, ClientsKeepRelay
<1>2. CASE Dispatcher
  BY <1>2, StillKeepsRelay DEF Dispatcher, Dispatch, LocalBroadcast, RemoteBroadcast, BroadcastRound,
     DispatchPanics, Crash, input
<1>3. CASE \E p \in Peers : PeerServe(p) \/ PeerPump(p)
  BY <1>0, <1>3, ServesKeepRelay, PumpsKeepRelay
<1>4. CASE \E d \in Controls : ControlServe(d) \/ ControlPump(d)
  BY <1>0, <1>4, ServesKeepRelay, PumpsKeepRelay
<1>5. CASE \E x \in Proxies : ProxyServe(x) \/ ProxyPump(x)
  BY <1>0, <1>5, ServesKeepRelay, PumpsKeepRelay
<1>6. CASE UNCHANGED vars
  BY <1>6, StillKeepsRelay DEF vars, input
<1> QED BY <1>1, <1>2, <1>3, <1>4, <1>5, <1>6 DEF Next

\* Under a relay nobody moves what it has yet to come to.
LEMMA RelayedStay ==
  ASSUME ListInv, GroupInv, RosterInv, DistinctIds, NEW c \in Conn, pc[Pump(c)] = "relay",
         "controllers" \notin race', [Next]_vars
  PROVE  /\ "controllers" \notin race
         /\ \A j \in 1..it[Pump(c)].len :
              heap'["controllers"][it[Pump(c)].arr].at[j] = Shown("controllers", it[Pump(c)], j)
<1> DEFINE g == Pump(c)
           r == it[Pump(c)]
<1>1. /\ g \in Goroutines /\ g[2] = "read" /\ "controllers" \in Lists
      /\ r \in LoopState /\ LoopList(g) = "controllers"
  BY PumpParts DEF Lists, LoopList, LoopListAt, ListInv, MoveInv, GoroutineTypes
<1>2. "controllers" \notin race
  BY RaceStays
<1>3. InHeap(heap["controllers"], r)
  BY <1>1 DEF ListInv, MoveInv, RoundsOK, RoundOK, LoopList
<1>4. RoundSees("controllers", r)
  BY <1>1, <1>2 DEF RosterInv, LoopsSee, Loops
<1> HIDE DEF g, r
<1>5. CASE UNCHANGED lists
  BY <1>2, <1>5 DEF lists, Shown, r
<1>6. ASSUME NEW d \in Conn, Adds(d)
      PROVE  \A j \in 1..r.len : heap'["controllers"][r.arr].at[j] = Shown("controllers", r, j)
  <2>1. Joins(d)
    BY <1>6, AddsMove
  <2> QED BY <1>1, <1>3, <1>4, <2>1, JoinKeepsSeen DEF RoundSees
<1>7. ASSUME NEW d \in Conn, CutStore(Pump(d))
      PROVE  \A j \in 1..r.len : heap'["controllers"][r.arr].at[j] = Shown("controllers", r, j)
  <2>1. Pump(d) \in Goroutines /\ Pump(d) # g
    BY <1>7, PumpParts DEF CutStore, At, g
  <2>2. InUse(g, "controllers")
    BY <1>1 DEF InUse
  <2>3. heap'["controllers"] = heap["controllers"]
    BY <1>1, <1>7, <2>1, <2>2, CutElsewhere
  <2> QED BY <2>3 DEF Shown
<1>8. Calm \/ Dispatch \/ LocalBroadcast \/ RemoteBroadcast => UNCHANGED lists
  BY DEF Calm, Dispatch, LocalBroadcast, RemoteBroadcast, BroadcastRound
<1> QED BY <1>2, <1>5, <1>6, <1>7, <1>8, StepKinds DEF GroupInv, r

\* A relay that goes on has not met its target.
LEMMA RelayGoesOn ==
  ASSUME ListInv, RosterInv, DistinctIds, NEW c \in Controls \cup Proxies, Relay(c),
         "controllers" \notin race, pc'[Pump(c)] = "relay"
  PROVE  /\ frame'[c] = frame[c] /\ UNCHANGED lists
         /\ it'[Pump(c)] = NextRound("controllers", it[Pump(c)])
         /\ it[Pump(c)].i > 0 => Id[Shown("controllers", it[Pump(c)], it[Pump(c)].i)] # frame[c].target
<1> DEFINE g == Pump(c)
           r == it[Pump(c)]
<1>1. /\ c \in Conn /\ g \in Goroutines /\ g[1] = c /\ pc[g] = "relay"
      /\ pc \in [Goroutines -> Labels] /\ it \in [Goroutines -> LoopState]
      /\ frame \in [Conn -> Frame \cup {Nil}]
  BY PumpParts DEF Conn, Relay, RelayRound, At, ListInv, MoveInv, GoroutineTypes, InputTypes
<1>2. RoundSees("controllers", r)
  BY <1>1 DEF RosterInv, LoopsSee, Loops, LoopList, LoopListAt
<1> HIDE DEF g, r
<1>3. Touches(g) = {} /\ Goto(g, "relay", NextRound("controllers", it[g]))
  BY <1>1 DEF Relay, RelayRound, Goto, g
<1>4. frame'[c] = frame[c] /\ UNCHANGED lists
  BY <1>1 DEF Relay, RelayRound, g
<1>5. it'[g] = NextRound("controllers", it[g])
  BY <1>1, <1>3 DEF Goto
<1>6. r.cur = Nil \/ Id[r.cur] # frame[c].target
  BY <1>1, <1>3 DEF Touches, r, g
<1>7. ASSUME r.i > 0 PROVE Id[Shown("controllers", r, r.i)] # frame[c].target
  <2>1. r.i # 0 /\ r.i \in 1..r.len
    BY <1>1, <1>2, <1>7 DEF RoundSees, LoopState, r, g
  <2>2. r.cur = Shown("controllers", r, r.i)
    BY <1>2, <2>1 DEF RoundSees
  <2>3. "controllers" \in Lists \ race /\ r \in LoopState
    BY <1>1 DEF Lists, r, g
  <2>4. r.cur \in Members("controllers")
    BY <1>2, <2>1, <2>2, <2>3, SeesMembers
  <2>5. r.cur # Nil
    BY <2>4, KindsDisjoint DEF Members, Conn
  <2> QED BY <1>6, <2>2, <2>5
<1> QED BY <1>4, <1>5, <1>7 DEF g, r

LEMMA RelayInitOK == Init => RelayInv
<1> SUFFICES ASSUME Init, NEW c \in Controls \cup Proxies PROVE pc[Pump(c)] # "relay"
  BY DEF RelayInv
<1>1. Pump(c) \in Goroutines /\ c \in Conn
  BY PumpParts DEF Conn
<1> QED BY <1>1 DEF Init

LEMMA RelayStepOK == ListInv /\ GroupInv /\ RosterInv /\ RelayInv /\ [Next]_vars => RelayInv'
<1> SUFFICES ASSUME ListInv, GroupInv, RosterInv, RelayInv, [Next]_vars, DistinctIds,
                    NEW c \in Controls \cup Proxies,
                    pc'[Pump(c)] = "relay", "controllers" \notin race',
                    NEW j \in 1..it'[Pump(c)].len, j < it'[Pump(c)].i
             PROVE  Id[heap'["controllers"][it'[Pump(c)].arr].at[j]] # frame'[c].target
  BY DEF RelayInv, Shown
<1>0. c \in Conn
  BY DEF Conn
<1>1. "controllers" \notin race
  BY RaceStays
<1>2. CASE Relay(c)
  <2>1. pc[Pump(c)] = "relay" /\ Pump(c) \in Goroutines
    BY <1>0, <1>2, PumpParts DEF Relay, RelayRound, At
  <2>2. /\ frame'[c] = frame[c] /\ heap' = heap
        /\ it'[Pump(c)] = NextRound("controllers", it[Pump(c)])
        /\ it[Pump(c)].i > 0 => Id[Shown("controllers", it[Pump(c)], it[Pump(c)].i)] # frame[c].target
    BY <1>1, <1>2, RelayGoesOn DEF lists
  <2>3. it[Pump(c)] \in LoopState
    BY <2>1 DEF ListInv, MoveInv, GoroutineTypes
  <2>4. /\ it'[Pump(c)].arr = it[Pump(c)].arr /\ it'[Pump(c)].len = it[Pump(c)].len
        /\ it'[Pump(c)].i = it[Pump(c)].i + 1
    BY <2>2, <2>3 DEF NextRound, LoopState
  <2>5. j = it[Pump(c)].i \/ j < it[Pump(c)].i
    BY <2>3, <2>4 DEF LoopState
  <2>6. j < it[Pump(c)].i => Id[Shown("controllers", it[Pump(c)], j)] # frame[c].target
    BY <1>1, <2>1, <2>4 DEF RelayInv
  <2>7. j > 0
    BY <2>3, <2>4 DEF LoopState
  <2> QED BY <2>2, <2>4, <2>5, <2>6, <2>7 DEF Shown
<1>3. CASE RelayKept(c)
  <2>1. CASE pc'[Pump(c)] = pc[Pump(c)] /\ it'[Pump(c)] = it[Pump(c)] /\ frame'[c] = frame[c]
    <3>1. heap'["controllers"][it[Pump(c)].arr].at[j] = Shown("controllers", it[Pump(c)], j)
      BY <1>0, <2>1, RelayedStay
    <3>2. Id[Shown("controllers", it[Pump(c)], j)] # frame[c].target
      BY <1>1, <2>1 DEF RelayInv
    <3> QED BY <2>1, <3>1, <3>2
  <2>2. CASE it'[Pump(c)] = RangeOver("controllers")
    <3>1. it'[Pump(c)].i = 0
      BY <2>2 DEF RangeOver
    <3>2. it'[Pump(c)].len \in Nat
      BY <2>2 DEF RangeOver, ListInv, StoreInv, ListTypes, Lists, Header
    <3> QED BY <3>1, <3>2
  <2> QED BY <1>3, <2>1, <2>2 DEF RelayKept
<1> QED BY <1>0, <1>2, <1>3, RelayOrKept

\* A message of a control reaches the control it is meant for, if the list the
\* relay ranges over has it (control.go:86-107, proxy.go:176-198), for any
\* number of connections and whatever joins or leaves meanwhile.
THEOREM RelaysFindTheirTarget == Spec => RelayFinds
<1> DEFINE Found(c) ==
             DistinctIds /\ race = {} /\ pc[Pump(c)] = "relay" /\ pc'[Pump(c)] # "relay" =>
               \A d \in Ranged(Pump(c), "controllers") :
                 Id[d] = frame[c].target /\ ws[d] = "open" =>
                   <<frame[c].source, frame[c].target>> \in direct'[d]
<1>1. ASSUME ListInv, GroupInv, RosterInv, RelayInv, [Next]_vars, NEW c \in Controls \cup Proxies,
             DistinctIds, race = {}, pc[Pump(c)] = "relay", pc'[Pump(c)] # "relay",
             NEW d \in Ranged(Pump(c), "controllers"), Id[d] = frame[c].target, ws[d] = "open"
      PROVE  <<frame[c].source, frame[c].target>> \in direct'[d]
  <2> DEFINE g == Pump(c)
             r == it[Pump(c)]
  <2>1. c \in Conn /\ g \in Goroutines /\ g[1] = c
    BY <1>1, PumpParts DEF Conn
  <2>2. Relay(c)
    BY <1>1, <2>1, RelayOrKept DEF RelayKept
  <2>3. r \in LoopState /\ "controllers" \in Lists \ race
    BY <1>1, <2>1 DEF ListInv, MoveInv, GoroutineTypes, Lists
  <2>4. RoundSees("controllers", r)
    BY <1>1, <2>1 DEF RosterInv, LoopsSee, Loops, LoopList, LoopListAt
  <2>5. PICK j \in 1..r.len : d = Shown("controllers", r, j)
    BY <1>1 DEF Ranged, Elements, Shown
  <2>6. /\ \A i \in 1..r.len : Shown("controllers", r, i) \in Controls
        /\ \A i, k \in 1..r.len : Shown("controllers", r, i) = Shown("controllers", r, k) => i = k
    BY <1>1, <2>3, <2>4, SeesMembers DEF Members
  <2>7. j >= r.i
    BY <1>1, <2>3, <2>5 DEF RelayInv, LoopState
  <2> HIDE DEF g, r
  <2>8. r.cur = d
    <3>1. CASE j = r.i
      <4>1. r.i # 0
        BY <3>1
      <4> QED BY <2>4, <2>5, <3>1, <4>1 DEF RoundSees
    <3>2. CASE j > r.i
      <4>1. ~Last(r)
        BY <2>3, <2>5, <3>2 DEF Last, LoopState
      <4>2. Touches(g) # {}
        BY <1>1, <2>1, <2>2, <4>1 DEF Relay, RelayRound, Goto, ListInv, MoveInv, GoroutineTypes, g, r
      <4>3. r.cur # Nil /\ Id[r.cur] = frame[c].target
        BY <1>1, <2>1, <4>2 DEF Touches, g, r
      <4>4. r.i # 0 /\ r.cur = Shown("controllers", r, r.i) /\ r.i \in 1..r.len
        BY <2>3, <2>4, <4>3 DEF RoundSees, LoopState
      <4>5. r.cur \in Controls /\ d \in Controls
        BY <2>5, <2>6, <4>4
      <4>6. \A a, b \in Controls : Id[a] = Id[b] => a = b
        BY <1>1 DEF DistinctIds, Lists, Members
      <4> QED BY <1>1, <4>3, <4>5, <4>6
    <3> QED BY <2>3, <2>5, <2>7, <3>1, <3>2 DEF LoopState
  <2>9. d \in Controls /\ d # Nil
    BY <2>5, <2>6, KindsDisjoint DEF Conn
  <2>10. d \in Touches(g)
    BY <1>1, <2>1, <2>8, <2>9 DEF Touches, g, r
  <2> QED BY <1>1, <2>2, <2>9, <2>10 DEF Relay, RelayRound, g
<1>2. ListInv /\ GroupInv /\ RosterInv /\ RelayInv /\ [Next]_vars
        => [\A c \in Controls \cup Proxies : Found(c)]_vars
  BY <1>1
<1>3. ListInv /\ GroupInv /\ RosterInv /\ RelayInv /\ [Next]_vars => RelayInv'
  BY RelayStepOK
<1> QED BY <1>2, <1>3, RelayInitOK, RosterInvariant, PTL DEF Spec, RelayFinds

----------------------------------------------------------------------------
(* Panics.                                                                 *)

\* A step of a process that goes on: websockets open, fail and close.
GoesAlong ==
  /\ crashed' = "no"
  /\ \/ ws' = ws
     \/ \E c \in Conn : \/ ws' = [ws EXCEPT ![c] = "closed"]
                        \/ ws' = [ws EXCEPT ![c] = IF c \in BadUpgrade THEN "nil" ELSE "open"]

\* A step that ends the process, with its cause.
Ends ==
  /\ ws' = ws /\ list' = list
  /\ \/ crashed' \in {"bounds", "malformed"}
     \/ crashed' = "nilws" /\ \E c \in Conn : ws[c] = "nil"
     \/ crashed' = "noControllers" /\ list["controllers"].len = 0

\* Nothing happens to a process that has ended.
Acts == Alive /\ (GoesAlong \/ Ends)

LEMMA QuietActs ==
  ASSUME Alive, crashed' = crashed, ws' = ws
  PROVE  Acts
BY DEF Acts, GoesAlong, Alive

LEMMA CrashActs ==
  ASSUME Alive, NEW why, Crash(why),
         why \in {"bounds", "malformed"} \/ (why = "nilws" /\ \E c \in Conn : ws[c] = "nil")
  PROVE  Acts
BY DEF Acts, Ends, Crash, lists, sockets

LEMMA TouchesConn ==
  ASSUME ListInv, NEW g \in Goroutines
  PROVE  Touches(g) \subseteq Conn
<1>1. g[1] \in Conn /\ it[g].cur \in Conn \cup {Nil}
  BY GoroutineParts DEF ListInv, MoveInv, GoroutineTypes, LoopState
<1>2. Touches(g) \subseteq {g[1], it[g].cur} /\ (it[g].cur = Nil => Touches(g) = {})
  BY DEF Touches
<1>3. Nil \notin Conn
  BY KindsDisjoint
<1> QED BY <1>1, <1>2, <1>3

LEMMA WritePanicsActs ==
  ASSUME ListInv, NEW g \in Goroutines, WritePanics(g)
  PROVE  Acts
<1>1. Alive /\ \E w \in Touches(g) : ws[w] = "nil"
  BY DEF WritePanics, Healthy
<1>2. \E c \in Conn : ws[c] = "nil"
  BY <1>1, TouchesConn
<1>3. CASE g[2] = "serve"
  BY <1>1, <1>3, QuietActs DEF WritePanics, sockets
<1>4. CASE g[2] # "serve"
  BY <1>1, <1>2, <1>4, CrashActs DEF WritePanics
<1> QED BY <1>3, <1>4

LEMMA PumpActs ==
  ASSUME ListInv, NEW c \in Conn, Teardown(c) \/ Panics(c) \/ Notify(c) \/ Enqueue(c) \/ Relay(c)
                                  \/ ReadFails(c) \/ Accept(c)
  PROVE  Acts
<1>0. Pump(c) \in Goroutines
  BY PumpParts
<1>1. CASE Scan(Pump(c)) \/ Enqueue(c) \/ Relay(c) \/ CutStore(Pump(c)) \/ ReadFails(c)
  BY <1>1, QuietActs DEF Scan, Enqueue, Relay, RelayRound, CutStore, ReadFails, At, sockets
<1>2. CASE Cut(Pump(c))
  BY <1>2, QuietActs, CrashActs DEF Cut, At, sockets
<1>3. CASE Close(c)
  BY <1>3 DEF Close, At, Acts, GoesAlong, Alive
<1>4. CASE Accept(c)
  BY <1>4 DEF Accept, At, Acts, GoesAlong, Alive
<1>5. CASE Notify(c)
  BY <1>5 DEF Notify, At, Acts, GoesAlong, Ends, Alive, lists, sockets
<1>6. CASE Panics(c)
  BY <1>0, <1>6, WritePanicsActs, CrashActs DEF Panics, PumpPanics, At
<1> QED BY <1>1, <1>2, <1>3, <1>4, <1>5, <1>6 DEF Teardown

LEMMA LoopActs ==
  ASSUME ListInv, NEW g \in Goroutines,
         PeerToControls(g) \/ PeerToProxies(g) \/ ProxyToFarEnd(g) \/ FindControl(g) \/ CloseControl(g)
  PROVE  Acts
<1>1. CASE PeerToControls(g) \/ PeerToProxies(g) \/ ProxyToFarEnd(g)
  BY <1>1, QuietActs DEF PeerToControls, PeerToProxies, ProxyToFarEnd, AnnounceRound, At
<1>2. CASE FindControl(g)
  BY <1>2, QuietActs DEF FindControl, At, sockets
<1>3. CASE CloseControl(g)
  <2>1. pc[g] = "closeControl" /\ Alive /\ crashed' = crashed /\ ws' = [ws EXCEPT ![it[g].cur] = "closed"]
    BY <1>3 DEF CloseControl, At
  <2>2. it[g].cur \in Controls
    BY <2>1 DEF ListInv, MoveInv, RoundsOK, RoundOK
  <2> QED BY <2>1, <2>2 DEF Acts, GoesAlong, Alive, Conn
<1> QED BY <1>1, <1>2, <1>3

LEMMA AddsActs ==
  ASSUME NEW c \in Conn, Adds(c)
  PROVE  Acts
<1>1. Joins(c)
  BY DEF Adds, AddPeer, AddControl, AddProxy
<1> QED BY <1>1, QuietActs DEF Joins, At, sockets

LEMMA ServeActs ==
  /\ \A p \in Peers : ListInv /\ PeerServe(p) => Acts
  /\ \A c \in Controls : ListInv /\ ControlServe(c) => Acts
  /\ \A x \in Proxies : ListInv /\ ProxyServe(x) => Acts
<1>0. \A c \in Peers \cup Controls \cup Proxies : c \in Conn /\ <<c, "serve">> \in Goroutines
  BY GoroutineParts DEF Conn
<1>1. ASSUME NEW p \in Peers, ListInv, PeerServe(p) PROVE Acts
  BY <1>0, <1>1, AddsActs, LoopActs, WritePanicsActs DEF PeerServe, Adds
<1>2. ASSUME NEW c \in Controls, ListInv, ControlServe(c) PROVE Acts
  <2>1. CASE ControlOwnPeers(c)
    BY <2>1, QuietActs DEF ControlOwnPeers, AnnounceRound, At
  <2>2. CASE ControlProxyPeer(c) \/ ControlProxyPeerSend(c) \/ ControlNextProxy(c)
    BY <2>2, QuietActs DEF ControlProxyPeer, ControlProxyPeerSend, ControlNextProxy, At, sockets
  <2>3. CASE AddControl(c)
    BY <1>0, <2>3, AddsActs DEF Adds
  <2> QED BY <1>0, <1>2, <2>1, <2>2, <2>3, WritePanicsActs DEF ControlServe
<1>3. ASSUME NEW x \in Proxies, ListInv, ProxyServe(x) PROVE Acts
  BY <1>0, <1>3, AddsActs, LoopActs, WritePanicsActs DEF ProxyServe, Adds
<1> QED BY <1>1, <1>2, <1>3

LEMMA PumpsAct ==
  /\ \A p \in Peers : ListInv /\ PeerPump(p) => Acts
  /\ \A c \in Controls : ListInv /\ ControlPump(c) => Acts
  /\ \A x \in Proxies : ListInv /\ ProxyPump(x) => Acts
<1>0. \A c \in Peers \cup Controls \cup Proxies : c \in Conn /\ Pump(c) \in Goroutines
  BY PumpParts DEF Conn
<1>1. ASSUME NEW p \in Peers, ListInv, PeerPump(p) PROVE Acts
  BY <1>0, <1>1, PumpActs, LoopActs DEF PeerPump
<1>2. ASSUME NEW c \in Controls, ListInv, ControlPump(c) PROVE Acts
  <2>1. CASE RelayToProxy(c)
    BY <2>1, QuietActs DEF RelayToProxy, RelayRound, At
  <2> QED BY <1>0, <1>2, <2>1, PumpActs DEF ControlPump
<1>3. ASSUME NEW x \in Proxies, ListInv, ProxyPump(x) PROVE Acts
  <2>1. CASE ProxyInforms(x)
    BY <2>1, QuietActs DEF ProxyInforms, AnnounceRound, At
  <2> QED BY <1>0, <1>3, <2>1, PumpActs, LoopActs DEF ProxyPump
<1> QED BY <1>1, <1>2, <1>3

LEMMA ClientActs ==
  ASSUME ListInv, ClientStep
  PROVE  Acts
<1>1. ASSUME NEW c \in Conn, Accept(c) \/ ReadFails(c) PROVE Acts
  BY <1>1, PumpActs
<1>2. ASSUME NEW c, NEW f, NEW label, NEW r, Reads(c, f, label, r) PROVE Acts
  BY <1>2, QuietActs DEF Reads, At, sockets
<1>3. ASSUME NEW p \in Peers, PeerReads(p) PROVE Acts
  BY <1>2, <1>3 DEF PeerReads
<1>4. ASSUME NEW c \in Controls, ControlReads(c) PROVE Acts
  BY <1>2, <1>4 DEF ControlReads
<1>5. ASSUME NEW c \in Controls, ControlReadsMalformed(c) PROVE Acts
  BY <1>5, CrashActs DEF ControlReadsMalformed, At
<1>6. ASSUME NEW x \in Proxies, ProxyReads(x) PROVE Acts
  BY <1>2, <1>6 DEF ProxyReads
<1> QED BY <1>1, <1>3, <1>4, <1>5, <1>6 DEF ClientStep

LEMMA DispatcherActs ==
  ASSUME ListInv, Dispatcher
  PROVE  Acts
<1>1. CASE Dispatch
  BY <1>1, QuietActs DEF Dispatch, sockets
<1>2. CASE LocalBroadcast \/ RemoteBroadcast
  BY <1>2, QuietActs DEF LocalBroadcast, RemoteBroadcast, BroadcastRound
<1>3. CASE DispatchPanics
  <2>1. DispatchTouches \subseteq {disp.it.cur} /\ (disp.it.cur = Nil => DispatchTouches = {})
    BY DEF DispatchTouches
  <2>2. disp.it.cur \in Conn \cup {Nil}
    BY DEF ListInv, QueueInv, ChannelTypes, LoopState
  <2>3. \E c \in Conn : ws[c] = "nil"
    BY <1>3, <2>1, <2>2 DEF DispatchPanics
  <2> QED BY <1>3, <2>3, CrashActs DEF DispatchPanics
<1> QED BY <1>1, <1>2, <1>3 DEF Dispatcher

LEMMA NextActs == ListInv /\ Next => Acts
BY ClientActs, DispatcherActs, ServeActs, PumpsAct DEF Next

LEMMA PanicStepOK == ListInv /\ PanicInv /\ [Next]_vars => PanicInv'
<1> SUFFICES ASSUME ListInv, PanicInv, [Next]_vars PROVE PanicInv'
  OBVIOUS
<1>1. CASE UNCHANGED vars
  BY <1>1 DEF PanicInv, vars, sockets, lists
<1>2. CASE Alive /\ GoesAlong
  <2>1. ws \in [Conn -> {"none", "open", "closed", "nil"}]
    BY DEF ListInv, SocketTypes
  <2>2. crashed' = "no"
    BY <1>2 DEF GoesAlong
  <2>3. ASSUME NEW d \in Conn, ws'[d] = "nil" PROVE d \in BadUpgrade
    BY <1>2, <2>1, <2>3 DEF GoesAlong, PanicInv
  <2> QED BY <2>2, <2>3 DEF PanicInv
<1>3. CASE Alive /\ Ends
  BY <1>3 DEF Ends, PanicInv
<1> QED BY <1>1, <1>2, <1>3, NextActs DEF Acts

\* What ends the process has a cause (peer.go:97, 173; control.go:157;
\* proxy.go:231; peer.go:213-231): an index out of its list needs updates that
\* overlapped, a nil websocket a handshake that failed, and a missing
\* controllers[0] a list of controls without a race and without a control.
THEOREM PanicsAreExplained == Spec => []PanicsExplained
<1>1. Init => PanicInv
  BY DEF Init, PanicInv
<1>2. ListInv /\ PanicInv => PanicsExplained
  <2> SUFFICES ASSUME ListInv, PanicInv PROVE PanicsExplained
    OBVIOUS
  <2>1. BoundsPanicNeedsRace
    BY DEF ListInv, StoreInv
  <2>2. crashed = "nilws" => \E c \in BadUpgrade : ws[c] = "nil"
    BY DEF PanicInv
  <2>3. ASSUME crashed = "noControllers", DistinctIds, "controllers" \notin race
        PROVE  joined \cap Controls = {}
    <3>1. Elements(heap["controllers"], list["controllers"]) = joined \cap Controls
      BY <2>3 DEF ListInv, StoreInv, ListsExact, Lists, Members
    <3>2. list["controllers"].len = 0
      BY <2>3 DEF PanicInv
    <3> QED BY <3>1, <3>2 DEF Elements
  <2> QED BY <2>1, <2>2, <2>3 DEF PanicsExplained
<1> QED BY <1>1, <1>2, ListInvariant, PanicStepOK, PTL DEF Spec

----------------------------------------------------------------------------
(* Peers of other hosts.                                                   *)

\* A goroutine stays where it is, and the list it ranges over shows the same.
StaysAt(g, k) ==
  /\ pc'[g] = pc[g] /\ it'[g] = it[g]
  /\ pc[g] \in {"inform", "proxyPeers"} =>
       \A j \in 1..it[g].len : heap'[k][it[g].arr].at[j] = Shown(k, it[g], j)

\* A step that leaves alone what the controls learn of other hosts.
RemoteGoesOn ==
  /\ UNCHANGED proxyState /\ race \subseteq race'
  /\ \A x \in Proxies :
       /\ pc'[Pump(x)] = "none" => pc[Pump(x)] = "none"
       /\ pc'[Pump(x)] = "inform" => pc[Pump(x)] = "inform" /\ frame'[x] = frame[x]
  /\ race' = {} =>
       /\ \A c \in Controls \cap joined', x \in Proxies \cap joined' :
            ws'[c] = "open" => \/ c \in joined /\ x \in joined /\ ws[c] = "open"
                               \/ proxyPeers[x] = {}
                               \/ pc'[<<c, "serve">>] = "ownPeers"
       /\ \A c \in Controls \cap joined : view[c] \ LocalIds \subseteq view'[c]
       /\ \A x \in Proxies :
            pc[Pump(x)] = "inform" => frame'[x] = frame[x] /\ StaysAt(Pump(x), "controllers")
       /\ \A c \in Controls :
            pc[<<c, "serve">>] \in {"dead", "ownPeers", "proxyPeers"} =>
              pc'[<<c, "serve">>] = "dead" \/ StaysAt(<<c, "serve">>, "proxies")

LEMMA RemoteCarried ==
  ASSUME DistinctIds, RemoteInv, RemoteGoesOn
  PROVE  RemoteInv'
<1>1. Blank /\ Gone /\ (race = {} => RemoteKnown)
  BY DEF RemoteInv
<1>2. proxyPeers' = proxyPeers /\ mapIt' = mapIt /\ (race' = {} => race = {})
  BY DEF RemoteGoesOn, proxyState
<1>3. Blank'
  BY <1>1, <1>2 DEF Blank, RemoteGoesOn
<1>4. Gone'
  BY <1>1, <1>2 DEF Gone, RemoteGoesOn
<1>5. ASSUME race' = {} PROVE RemoteKnown'
  <2> SUFFICES ASSUME NEW c \in Controls \cap joined', NEW x \in Proxies \cap joined', ws'[c] = "open",
                      NEW r \in proxyPeers[x] \ LocalIds
               PROVE  r \in view'[c] \/ ToInform(c, x, r)' \/ ToLearn(c, x, r)'
    BY <1>2 DEF RemoteKnown, LocalIds
  <2>1. CASE pc'[<<c, "serve">>] = "ownPeers"
    BY <2>1 DEF ToLearn
  <2>2. CASE c \in joined /\ x \in joined /\ ws[c] = "open"
    <3>1. r \in view[c] \/ ToInform(c, x, r) \/ ToLearn(c, x, r)
      BY <1>1, <1>2, <1>5, <2>2 DEF RemoteKnown
    <3>2. CASE r \in view[c]
      BY <1>5, <2>2, <3>2 DEF RemoteGoesOn
    <3>3. CASE ToInform(c, x, r)
      BY <1>5, <3>3 DEF ToInform, ToCome, RemoteGoesOn, StaysAt, Shown
    <3>4. CASE ToLearn(c, x, r)
      <4>1. pc[<<c, "serve">>] \in {"dead", "ownPeers", "proxyPeers"}
        BY <3>4 DEF ToLearn
      <4>2. CASE pc'[<<c, "serve">>] = "dead"
        BY <4>2 DEF ToLearn
      <4>3. CASE StaysAt(<<c, "serve">>, "proxies")
        BY <1>2, <3>4, <4>3 DEF ToLearn, StaysAt, Shown
      <4> QED BY <1>5, <4>1, <4>2, <4>3 DEF RemoteGoesOn
    <3> QED BY <3>1, <3>2, <3>3, <3>4
  <2> QED BY <1>5, <2>1, <2>2 DEF RemoteGoesOn
<1> QED BY <1>3, <1>4, <1>5 DEF RemoteInv

\* Nobody has joined, no websocket opened, and no control been told that a peer
\* of another host left.
KeepsTold == OpensNone /\ \A c \in Controls : view[c] \ LocalIds \subseteq view'[c]

\* A step of one goroutine that is not about other hosts.
LEMMA RemoteMove ==
  ASSUME ListInv, DistinctIds, RosterInv, UNCHANGED <<lists, proxyState>>, KeepsTold,
         NEW g \in Goroutines, NEW label, NEW r, Moves(g, label, r),
         g[2] = "read" => pc[g] \notin {"inform", "none"} /\ label \notin {"inform", "none"},
         g[2] = "serve" => /\ pc[g] # "done"
                           /\ label = "dead" \/ pc[g] \notin {"dead", "ownPeers", "proxyPeers"},
         \A x \in Conn : g # Pump(x) => frame'[x] = frame[x]
  PROVE  RemoteGoesOn
<1>1. list' = list /\ heap' = heap /\ joined' = joined /\ race' = race
  BY DEF lists
<1>2. /\ \A x \in Proxies : x \in Conn /\ Pump(x) \in Goroutines /\ Pump(x)[2] = "read"
      /\ \A c \in Controls : c \in Conn /\ c \in Watchers
                             /\ <<c, "serve">> \in Goroutines /\ <<c, "serve">>[2] = "serve"
      /\ g[2] \in {"serve", "read"}
  BY PumpParts, GoroutineParts DEF Conn, Watchers
<1>3. ASSUME NEW x \in Proxies
      PROVE  /\ pc'[Pump(x)] = "none" => pc[Pump(x)] = "none"
             /\ pc'[Pump(x)] = "inform" => pc[Pump(x)] = "inform" /\ frame'[x] = frame[x]
  <2>1. CASE g = Pump(x)
    BY <1>2, <2>1 DEF Moves
  <2>2. CASE g # Pump(x)
    <3>1. \/ pc'[Pump(x)] = pc[Pump(x)]
          \/ pc'[Pump(x)] = "read"
      BY <1>2, <2>2, ServesStay
    <3> QED BY <1>2, <2>2, <3>1
  <2> QED BY <2>1, <2>2
<1>4. ASSUME race = {}, NEW x \in Proxies, pc[Pump(x)] = "inform"
      PROVE  frame'[x] = frame[x] /\ StaysAt(Pump(x), "controllers")
  <2>1. g # Pump(x)
    BY <1>2, <1>4
  <2>2. pc[<<x, "serve">>] = "done"
    BY <1>4 DEF RosterInv, Served
  <2>3. g # <<x, "serve">>
    BY <2>2
  <2>4. pc'[Pump(x)] = pc[Pump(x)] /\ it'[Pump(x)] = it[Pump(x)]
    BY <1>2, <2>1, <2>3, ServesStay
  <2> QED BY <1>1, <1>2, <2>1, <2>4 DEF StaysAt, Shown
<1>5. ASSUME NEW c \in Controls, pc[<<c, "serve">>] \in {"dead", "ownPeers", "proxyPeers"}
      PROVE  pc'[<<c, "serve">>] = "dead" \/ StaysAt(<<c, "serve">>, "proxies")
  <2>1. CASE g = <<c, "serve">>
    BY <1>2, <1>5, <2>1 DEF Moves
  <2>2. CASE g # <<c, "serve">>
    BY <1>1, <1>2, <2>2, ServesStay DEF StaysAt, Shown
  <2> QED BY <2>1, <2>2
<1> QED BY <1>1, <1>2, <1>3, <1>4, <1>5 DEF RemoteGoesOn, KeepsTold, OpensNone

\* A step in which no goroutine moves.
LEMMA RemoteStays ==
  ASSUME UNCHANGED <<lists, pc, it, proxyState>>, frame' = frame, KeepsTold
  PROVE  RemoteGoesOn
<1>1. heap' = heap /\ joined' = joined /\ race' = race /\ pc' = pc /\ it' = it
  BY DEF lists
<1>2. Controls \subseteq Watchers
  BY DEF Watchers
<1> QED BY <1>1, <1>2 DEF RemoteGoesOn, KeepsTold, OpensNone, StaysAt, Shown

LEMMA PumpLeaves ==
  ASSUME ListInv, DistinctIds, RosterInv, UNCHANGED <<lists, proxyState, view>>, OpensNone,
         NEW c \in Conn, NEW label, NEW r, Goto(Pump(c), label, r),
         pc[Pump(c)] \notin {"inform", "none"}, label \notin {"inform", "none"},
         \A x \in Conn \ {c} : frame'[x] = frame[x]
  PROVE  RemoteGoesOn
<1> DEFINE g == Pump(c)
<1>1. g \in Goroutines /\ g[2] = "read" /\ \A x \in Conn : x # c => g # Pump(x)
  BY PumpParts
<1>2. pc[g] \notin {"inform", "none"} /\ g = Pump(c)
  OBVIOUS
<1> HIDE DEF g
<1>3. Moves(g, label, r)
  BY <1>1, <1>2, GotoIsMove
<1>4. KeepsTold
  BY DEF KeepsTold
<1>5. \A x \in Conn : g # Pump(x) => frame'[x] = frame[x]
  BY <1>2
<1> QED BY <1>1, <1>2, <1>3, <1>4, <1>5, RemoteMove

\* The steps of a client that are not a proxy's "connect" or "disconnect".
LEMMA AcceptLeaves ==
  ASSUME ListInv, DistinctIds, RosterInv, NEW c \in Conn, Accept(c)
  PROVE  RemoteGoesOn
<1> DEFINE g == <<c, "serve">>
           r == RangeOver(Kind(c))
<1>1. /\ g \in Goroutines /\ g[2] = "serve" /\ pc[g] = "new" /\ Goto(g, "append", r)
      /\ UNCHANGED <<lists, proxyState, view>> /\ frame' = frame
      /\ \E e : ws' = [ws EXCEPT ![c] = e]
  BY GoroutineParts DEF Accept, At, input
<1> HIDE DEF g, r
<1>2. Moves(g, "append", r)
  BY <1>1, GotoIsMove
<1>3. c \notin joined
  BY <1>1 DEF ListInv, MoveInv, Fresh, g
<1>4. KeepsTold
  BY <1>1, <1>3 DEF KeepsTold, OpensNone, ListInv, SocketTypes
<1> QED BY <1>1, <1>2, <1>4, RemoteMove

LEMMA ReadFailsLeaves ==
  ASSUME ListInv, DistinctIds, RosterInv, NEW c \in Conn, ReadFails(c)
  PROVE  RemoteGoesOn
<1>1. /\ pc[Pump(c)] = "read" /\ Goto(Pump(c), "scan", [RangeOver(Kind(c)) EXCEPT !.cur = c])
      /\ UNCHANGED <<lists, proxyState, view>> /\ frame' = frame /\ ws' = ws
  BY DEF ReadFails, At, input, sockets
<1> QED BY <1>1, PumpLeaves DEF OpensNone

LEMMA ReadsLeaves ==
  ASSUME ListInv, DistinctIds, RosterInv, NEW c \in Conn, NEW f, NEW label, NEW r,
         Reads(c, f, label, r), label \in {"notify", "enqueue", "relay"}, proxyPeers' = proxyPeers
  PROVE  RemoteGoesOn
<1>1. /\ pc[Pump(c)] = "read" /\ Goto(Pump(c), label, r)
      /\ UNCHANGED <<lists, proxyState, view>> /\ frame' = [frame EXCEPT ![c] = f] /\ ws' = ws
  BY DEF Reads, At, sockets, proxyState
<1>2. \A x \in Conn \ {c} : frame'[x] = frame[x]
  BY <1>1 DEF ListInv, InputTypes
<1> QED BY <1>1, <1>2, PumpLeaves DEF OpensNone

\* The steps of a pump that tell nobody anything.
LEMMA PumpsLeave ==
  ASSUME ListInv, DistinctIds, RosterInv, NEW c \in Conn,
         \/ Notify(c) \/ Enqueue(c) \/ Close(c) \/ CloseControl(Pump(c)) \/ FindControl(Pump(c))
         \/ Relay(c) \/ RelayToProxy(c) \/ PumpPanics(c) \/ Cut(Pump(c))
  PROVE  RemoteGoesOn
<1>1. CASE Notify(c) \/ Cut(Pump(c)) \/ PumpPanics(c)
  <2>1. /\ pc[Pump(c)] \in {"notify", "cut", "read"} /\ frame' = frame /\ ws' = ws
        /\ UNCHANGED <<lists, proxyState, view>>
        /\ UNCHANGED <<pc, it>> \/ Goto(Pump(c), "enqueue", Idle) \/ \E r : Goto(Pump(c), "cutw", r)
    BY <1>1 DEF Notify, Cut, PumpPanics, Crash, At, sockets, input
  <2> QED BY <2>1, PumpLeaves, RemoteStays DEF OpensNone, KeepsTold
<1>2. CASE Enqueue(c) \/ FindControl(Pump(c))
  <2>1. /\ pc[Pump(c)] \in {"enqueue", "findControl"} /\ frame' = frame /\ ws' = ws
        /\ UNCHANGED <<lists, proxyState, view>>
        /\ \E label, r : /\ label \in {"read", "scan", "findControl", "toControls"}
                         /\ Goto(Pump(c), label, r)
    BY <1>2 DEF Enqueue, FindControl, At, sockets, input
  <2> QED BY <2>1, PumpLeaves DEF OpensNone
<1>3. CASE Close(c) \/ CloseControl(Pump(c))
  <2>1. /\ pc[Pump(c)] \in {"closeControl", "close"} /\ UNCHANGED <<lists, proxyState, view>>
        /\ frame' = frame /\ \E w : ws' = [ws EXCEPT ![w] = "closed"]
        /\ \E label, r : label \in {"done", "toControls"} /\ Goto(Pump(c), label, r)
    BY <1>3 DEF CloseControl, Close, At, input
  <2>2. OpensNone
    BY <2>1 DEF OpensNone, ListInv, SocketTypes
  <2> QED BY <2>1, <2>2, PumpLeaves
<1>4. CASE Relay(c) \/ RelayToProxy(c)
  <2>1. /\ pc[Pump(c)] \in {"relay", "relayProxy"} /\ UNCHANGED <<lists, proxyState, view>> /\ ws' = ws
        /\ \E f : frame' = [frame EXCEPT ![c] = f]
        /\ \E label, r : label \in {"relay", "relayProxy", "read"} /\ Goto(Pump(c), label, r)
    BY <1>4 DEF Relay, RelayToProxy, RelayRound, At
  <2>2. \A x \in Conn \ {c} : frame'[x] = frame[x]
    BY <2>1 DEF ListInv, InputTypes
  <2> QED BY <2>1, <2>2, PumpLeaves DEF OpensNone
<1> QED BY <1>1, <1>2, <1>3, <1>4

LEMMA ScanLeaves ==
  ASSUME ListInv, DistinctIds, RosterInv, PumpsOK, NEW c \in Conn, Scan(Pump(c))
  PROVE  RemoteGoesOn
<1> DEFINE g == Pump(c)
           v == it[g].cur
<1>1. /\ pc[g] = "scan" /\ UNCHANGED <<lists, proxyState, view>> /\ frame' = frame /\ ws' = ws
      /\ (\E r : Goto(g, "cut", r)) \/ (\E r : Goto(g, "scan", r)) \/ AfterRemoval(g, v)
  BY DEF Scan, At, sockets, input
<1>2. v \in Conn /\ (c \in Peers => v = c \/ v \in Controls)
  BY <1>1, PumpParts, KindsDisjoint DEF PumpsOK, PumpOK, Removing, Conn, ListInv, MoveInv, RoundsOK, RoundOK
<1>3. \E label, r : /\ label \in {"cut", "scan", "findControl", "close", "closeControl", "toProxy"}
                    /\ Goto(Pump(c), label, r)
  BY <1>1, <1>2, AfterRemovalGoes
<1> QED BY <1>1, <1>3, PumpLeaves DEF OpensNone

LEMMA WritePanicsLeaves ==
  ASSUME ListInv, DistinctIds, RosterInv, NEW g \in Goroutines, WritePanics(g)
  PROVE  RemoteGoesOn
<1>1. UNCHANGED <<lists, proxyState, view>> /\ frame' = frame /\ ws' = ws
  BY DEF WritePanics, Crash, sockets, input
<1>2. KeepsTold
  BY <1>1 DEF KeepsTold, OpensNone
<1>3. CASE UNCHANGED <<pc, it>>
  BY <1>1, <1>2, <1>3, RemoteStays
<1>4. CASE g[2] = "serve" /\ Goto(g, "dead", Idle)
  <2>1. pc[g] # "done"
    BY DEF WritePanics, Healthy, Touches
  <2> QED BY <1>1, <1>2, <1>4, <2>1, GotoIsMove, RemoteMove
<1> QED BY <1>3, <1>4 DEF WritePanics, Crash

LEMMA DispatcherLeaves ==
  ASSUME Dispatcher
  PROVE  RemoteGoesOn
<1>1. UNCHANGED <<lists, pc, it, proxyState, view>> /\ frame' = frame /\ ws' = ws
  BY DEF Dispatcher, Dispatch, LocalBroadcast, RemoteBroadcast, BroadcastRound, DispatchPanics, Crash,
         sockets, input
<1> QED BY <1>1, RemoteStays DEF OpensNone, KeepsTold

\* A peer of this host comes or goes.
LEMMA PeerLeaves ==
  ASSUME ListInv, DistinctIds, RosterInv, NEW g \in Goroutines, g[1] \in Peers,
         PeerToControls(g) \/ PeerToProxies(g)
  PROVE  RemoteGoesOn
<1>1. /\ pc[g] \in {"toControls", "toProxies"}
      /\ UNCHANGED lists /\ ws' = ws /\ frame' = frame
      /\ Tell(Touches(g), Event(g), Id[g[1]])
  BY PeerRound
<1>2. PICK label, r : Moves(g, label, r) /\ PeerLeads(g, label, r)
  BY PeerRound
<1>3. UNCHANGED proxyState
  BY DEF PeerToControls, PeerToProxies, AnnounceRound
<1>4. label \in {"toControls", "toProxies", "done", "close"}
  BY <1>1, <1>2 DEF PeerLeads
<1>5. Id[g[1]] \in LocalIds /\ Controls \subseteq Watchers
  BY DEF LocalIds, Watchers
<1>6. KeepsTold
  BY <1>1, <1>5 DEF KeepsTold, OpensNone, Tell
<1> QED BY <1>1, <1>2, <1>3, <1>4, <1>6, RemoteMove

\* A proxy speaks to its far end.
LEMMA FarEndLeaves ==
  ASSUME ListInv, DistinctIds, RosterInv, NEW g \in Goroutines, g[1] \in Proxies, ProxyToFarEnd(g)
  PROVE  RemoteGoesOn
<1>1. /\ pc[g] = "toProxy" /\ UNCHANGED <<lists, proxyState>> /\ ws' = ws /\ frame' = frame
      /\ Tell(Touches(g), Event(g), Id[it[g].cur])
  BY DEF ProxyToFarEnd, AnnounceRound, At, input
<1>2. \E label, r : Moves(g, label, r) /\ label \in {"toProxy", "done", "close"}
  <2>1. CASE ~Last(it[g])
    BY <2>1, GotoIsMove DEF ProxyToFarEnd, AnnounceRound
  <2>2. CASE Last(it[g]) /\ g[2] = "serve"
    <3>1. g[1] \in Conn /\ g = <<g[1], "serve">> /\ StartPumps(g[1])
      BY <2>2, GoroutineParts DEF ProxyToFarEnd, AnnounceRound
    <3> QED BY <3>1, StartIsMove
  <2>3. CASE Last(it[g]) /\ g[2] # "serve"
    BY <2>3, GotoIsMove DEF ProxyToFarEnd, AnnounceRound
  <2> QED BY <2>1, <2>2, <2>3
<1>3. Touches(g) \subseteq {g[1]}
  BY <1>1 DEF Touches
<1>4. Controls \subseteq Watchers /\ g[1] \notin Controls
  BY KindsDisjoint DEF Watchers
<1>5. KeepsTold
  BY <1>1, <1>3, <1>4 DEF KeepsTold, OpensNone, Tell
<1> QED BY <1>1, <1>2, <1>5, RemoteMove

\* The goroutine that serves control c moves on, and nothing else does.
Serves(c) ==
  LET g == <<c, "serve">> IN
  /\ UNCHANGED <<lists, proxyPeers>> /\ ws' = ws /\ frame' = frame
  /\ \A d \in Controls \ {c} : mapIt'[d] = mapIt[d]
  /\ \A o \in Goroutines \ {g} : pc'[o] = pc[o] /\ it'[o] = it[o]
  /\ \A w \in Controls : view[w] \subseteq view'[w]

\* It has told c of r, or is still to come past it.
LearnsOn(c) ==
  \A x \in Proxies \cap joined : \A r \in proxyPeers[x] :
    ToLearn(c, x, r) => r \in view'[c] \/ ToLearn(c, x, r)'

LEMMA ServesRemote ==
  ASSUME DistinctIds, RemoteInv, NEW c \in Controls, Serves(c),
         race = {} /\ c \in joined /\ ws[c] = "open" => LearnsOn(c)
  PROVE  RemoteInv'
<1> DEFINE g == <<c, "serve">>
<1>1. /\ Blank /\ Gone /\ (race = {} => RemoteKnown)
      /\ list' = list /\ heap' = heap /\ joined' = joined /\ race' = race
      /\ proxyPeers' = proxyPeers /\ ws' = ws /\ frame' = frame
  BY DEF RemoteInv, Serves, lists
<1>2. \A x \in Proxies : pc'[Pump(x)] = pc[Pump(x)] /\ it'[Pump(x)] = it[Pump(x)]
  <2> TAKE x \in Proxies
  <2>1. Pump(x) \in Goroutines \ {g}
    BY GoroutineParts DEF Conn
  <2> QED BY <2>1 DEF Serves
<1>3. \A d \in Controls \ {c} : /\ pc'[<<d, "serve">>] = pc[<<d, "serve">>]
                                /\ it'[<<d, "serve">>] = it[<<d, "serve">>]
                                /\ mapIt'[d] = mapIt[d]
  <2> TAKE d \in Controls \ {c}
  <2>1. <<d, "serve">> \in Goroutines \ {g}
    BY GoroutineParts DEF Conn
  <2> QED BY <2>1 DEF Serves
<1> HIDE DEF g
<1>4. Blank' /\ Gone'
  BY <1>1, <1>2 DEF Blank, Gone
<1>5. ASSUME race = {} PROVE RemoteKnown'
  <2> SUFFICES ASSUME NEW d \in Controls \cap joined, NEW x \in Proxies \cap joined, ws[d] = "open",
                      NEW r \in proxyPeers[x] \ LocalIds
               PROVE  r \in view'[d] \/ ToInform(d, x, r)' \/ ToLearn(d, x, r)'
    BY <1>1 DEF RemoteKnown, LocalIds
  <2>1. r \in view[d] \/ ToInform(d, x, r) \/ ToLearn(d, x, r)
    BY <1>1, <1>5 DEF RemoteKnown
  <2>2. CASE r \in view[d]
    BY <2>2 DEF Serves
  <2>3. CASE ToInform(d, x, r)
    BY <1>1, <1>2, <2>3 DEF ToInform, ToCome, Shown
  <2>4. CASE ToLearn(d, x, r) /\ d # c
    BY <1>1, <1>3, <2>4 DEF ToLearn, Shown
  <2>5. CASE ToLearn(d, x, r) /\ d = c
    BY <1>5, <2>5 DEF LearnsOn
  <2> QED BY <2>1, <2>2, <2>3, <2>4, <2>5
<1> QED BY <1>1, <1>4, <1>5 DEF RemoteInv

\* A control that has been through the local peers has every proxy before it.
LEMMA OwnPeersRemote ==
  ASSUME ListInv, DistinctIds, RosterInv, RemoteInv, NEW c \in Controls, ControlOwnPeers(c)
  PROVE  RemoteInv'
<1> DEFINE g == <<c, "serve">>
<1>0. g \in Goroutines
  BY GoroutineParts DEF Conn
<1>1. /\ pc[g] = "ownPeers" /\ UNCHANGED <<lists, proxyState>> /\ ws' = ws /\ frame' = frame
      /\ Tell(Touches(g), "connect", Id[it[g].cur])
      /\ \/ Goto(g, "ownPeers", NextRound(LoopList(g), it[g]))
         \/ Goto(g, "proxyPeers", RangeOver("proxies"))
  BY DEF ControlOwnPeers, AnnounceRound, At, input
<1> HIDE DEF g
<1>2. /\ \A o \in Goroutines \ {g} : pc'[o] = pc[o] /\ it'[o] = it[o]
      /\ pc'[g] = "ownPeers" \/ (pc'[g] = "proxyPeers" /\ it'[g] = RangeOver("proxies"))
  BY <1>0, <1>1 DEF Goto, ListInv, MoveInv, GoroutineTypes
<1>3. Serves(c)
  BY <1>1, <1>2 DEF Serves, Tell, Watchers, proxyState, g
<1>4. ASSUME race = {}, NEW x \in Proxies \cap joined, NEW r \in proxyPeers[x]
      PROVE  ToLearn(c, x, r)'
  <2>1. CASE pc'[g] = "ownPeers"
    BY <2>1 DEF ToLearn, g
  <2>2. CASE pc'[g] = "proxyPeers" /\ it'[g] = RangeOver("proxies")
    <3>1. Kind(x) = "proxies" /\ list' = list /\ heap' = heap
      BY <1>1, KindsDisjoint DEF Kind, lists
    <3>2. PICK j \in 1..RangeOver("proxies").len : Shown("proxies", RangeOver("proxies"), j) = x
      BY <1>4, <3>1, RangeComes DEF ToCome
    <3>3. RangeOver("proxies").i = 0 /\ 0 < j
      BY DEF RangeOver
    <3> QED BY <2>2, <3>1, <3>2, <3>3 DEF ToLearn, Shown, g
  <2> QED BY <1>2, <2>1, <2>2
<1> QED BY <1>3, <1>4, ServesRemote DEF LearnsOn

\* An entry of a far end's map is taken up, and sent.
LEMMA EntryRemote ==
  ASSUME ListInv, DistinctIds, RemoteInv, NEW c \in Controls,
         ControlProxyPeer(c) \/ ControlProxyPeerSend(c)
  PROVE  RemoteInv'
<1> DEFINE g == <<c, "serve">>
<1>1. pc[g] = "proxyPeers" /\ UNCHANGED <<lists, proxyPeers, pc, it>> /\ ws' = ws /\ frame' = frame
  BY DEF ControlProxyPeer, ControlProxyPeerSend, At, sockets, input
<1>2. mapIt \in [Controls -> [must : SUBSET RemoteIds, seen : SUBSET RemoteIds, id : RemoteIds \cup {Nil}]]
      /\ Controls \subseteq Watchers /\ proxyPeers \in [Proxies -> SUBSET RemoteIds] /\ Nil \notin RemoteIds
  BY KindsDisjoint DEF ListInv, ProxyTypes, Watchers
<1>3. list' = list /\ heap' = heap
  BY <1>1 DEF lists
<1>4. CASE ControlProxyPeer(c)
  <2>1. mapIt[c].id = Nil /\ view' = view
    BY <1>4 DEF ControlProxyPeer, sockets
  <2>2. PICK e : mapIt' = [mapIt EXCEPT ![c] = [must |-> @.must \ {e}, seen |-> @.seen \cup {e}, id |-> e]]
    BY <1>4 DEF ControlProxyPeer
  <2>3. /\ mapIt'[c].must = mapIt[c].must \ {e} /\ mapIt'[c].id = e
        /\ \A d \in Controls \ {c} : mapIt'[d] = mapIt[d]
    BY <1>2, <2>2
  <2>4. Serves(c)
    BY <1>1, <2>1, <2>3 DEF Serves
  <2>5. LearnsOn(c)
    <3> SUFFICES ASSUME NEW x \in Proxies \cap joined, NEW r \in proxyPeers[x], ToLearn(c, x, r)
                 PROVE  ToLearn(c, x, r)'
      BY DEF LearnsOn
    <3>1. r # Nil
      BY <1>2
    <3>2. CASE r = e
      BY <1>1, <2>3, <3>2 DEF ToLearn
    <3>3. CASE r # e
      BY <1>1, <1>3, <2>1, <2>3, <3>1, <3>3 DEF ToLearn, Shown
    <3> QED BY <3>2, <3>3
  <2> QED BY <2>4, <2>5, ServesRemote
<1>5. CASE ControlProxyPeerSend(c)
  <2>1. mapIt[c].id # Nil /\ Tell({c}, "connect", mapIt[c].id) /\ mapIt' = [mapIt EXCEPT ![c].id = Nil]
    BY <1>5 DEF ControlProxyPeerSend
  <2>2. /\ mapIt'[c].must = mapIt[c].must
        /\ \A d \in Controls \ {c} : mapIt'[d] = mapIt[d]
    BY <1>2, <2>1
  <2>3. Serves(c)
    BY <1>1, <1>2, <2>1, <2>2 DEF Serves, Tell
  <2>4. ASSUME ws[c] = "open" PROVE LearnsOn(c)
    <3> SUFFICES ASSUME NEW x \in Proxies \cap joined, NEW r \in proxyPeers[x], ToLearn(c, x, r)
                 PROVE  r \in view'[c] \/ ToLearn(c, x, r)'
      BY DEF LearnsOn
    <3>1. CASE mapIt[c].id = r
      BY <1>2, <2>1, <2>4, <3>1 DEF Tell
    <3>2. CASE mapIt[c].id # r
      BY <1>1, <1>3, <2>2, <3>2 DEF ToLearn, Shown
    <3> QED BY <3>1, <3>2
  <2> QED BY <2>3, <2>4, ServesRemote
<1> QED BY <1>4, <1>5

\* The next proxy: nothing of the last one's map is left that it still owns.
LEMMA NextProxyRemote ==
  ASSUME ListInv, DistinctIds, RosterInv, RemoteInv, NEW c \in Controls, ControlNextProxy(c)
  PROVE  RemoteInv'
<1> DEFINE g == <<c, "serve">>
           n == NextRound("proxies", it[g])
<1>0. g \in Goroutines /\ it[g] \in LoopState
  BY GoroutineParts DEF Conn, ListInv, MoveInv, GoroutineTypes
<1>1. /\ pc[g] = "proxyPeers" /\ mapIt[c].id = Nil /\ mapIt[c].must \cap Owned(it[g].cur) = {}
      /\ UNCHANGED <<lists, proxyPeers, view>> /\ ws' = ws /\ frame' = frame
      /\ \/ Last(it[g]) /\ Goto(g, "done", Idle) /\ mapIt' = [mapIt EXCEPT ![c] = NoEntry]
         \/ /\ ~Last(it[g]) /\ Goto(g, "proxyPeers", n)
            /\ mapIt' = [mapIt EXCEPT ![c] = [NoEntry EXCEPT !.must = Owned(n.cur)]]
  BY DEF ControlNextProxy, At, sockets, input
<1> HIDE DEF g, n
<1>2. /\ mapIt \in [Controls -> [must : SUBSET RemoteIds, seen : SUBSET RemoteIds, id : RemoteIds \cup {Nil}]]
      /\ proxyPeers \in [Proxies -> SUBSET RemoteIds] /\ Nil \notin RemoteIds /\ Nil \notin Proxies
  BY KindsDisjoint DEF ListInv, ProxyTypes, Conn
<1>3. /\ list' = list /\ heap' = heap
      /\ \A d \in Controls \ {c} : mapIt'[d] = mapIt[d]
      /\ \A o \in Goroutines \ {g} : pc'[o] = pc[o] /\ it'[o] = it[o]
  BY <1>0, <1>1, <1>2 DEF lists, Goto, ListInv, MoveInv, GoroutineTypes
<1>4. Serves(c)
  BY <1>1, <1>3 DEF Serves, g
<1>5. ASSUME race = {} PROVE LearnsOn(c)
  <2> SUFFICES ASSUME NEW x \in Proxies \cap joined, NEW r \in proxyPeers[x], ToLearn(c, x, r)
               PROVE  ToLearn(c, x, r)'
    BY DEF LearnsOn
  <2>1. r # Nil /\ r \in Owned(x) /\ x # Nil
    BY <1>2 DEF Owned
  <2>2. PICK j \in 1..it[g].len : /\ Shown("proxies", it[g], j) = x
                                  /\ it[g].i < j \/ (it[g].i = j /\ r \in mapIt[c].must)
    BY <1>1, <2>1 DEF ToLearn, g
  <2>3. RoundSees("proxies", it[g])
    BY <1>0, <1>1, <1>5 DEF RosterInv, LoopsSee, LoopList, LoopListAt, Loops
  <2>4. it[g].i \in Nat /\ it[g].len \in Nat
    BY <1>0 DEF LoopState
  <2>5. it[g].i < j
    <3> SUFFICES ASSUME it[g].i = j, r \in mapIt[c].must PROVE FALSE
      BY <2>2
    <3>1. it[g].cur = x
      BY <2>2, <2>3, <2>4 DEF RoundSees
    <3> QED BY <1>1, <2>1, <3>1
  <2>6. ~Last(it[g])
    BY <2>4, <2>5 DEF Last
  <2>7. /\ n.i = it[g].i + 1 /\ n.arr = it[g].arr /\ n.len = it[g].len
        /\ n.cur = Shown("proxies", it[g], it[g].i + 1)
    BY <1>0, <2>4, <2>5 DEF n, NextRound, Shown, LoopState
  <2>8. pc'[g] = "proxyPeers" /\ it'[g] = n /\ mapIt'[c].must = Owned(n.cur)
    BY <1>0, <1>1, <1>2, <2>6 DEF Goto, ListInv, MoveInv, GoroutineTypes, NoEntry
  <2>9. CASE n.i = j
    <3>1. n.cur = x /\ r \in mapIt'[c].must
      BY <2>1, <2>2, <2>7, <2>8, <2>9
    <3>2. it'[g].i = j /\ j \in 1..it'[g].len /\ heap'["proxies"][it'[g].arr].at[j] = x
      BY <1>3, <2>2, <2>7, <2>8, <2>9 DEF Shown
    <3> QED BY <2>8, <3>1, <3>2 DEF ToLearn, Shown, g
  <2>10. CASE n.i # j
    <3>1. n.i < j
      BY <2>4, <2>5, <2>7, <2>10
    <3> QED BY <1>3, <2>2, <2>7, <2>8, <3>1 DEF ToLearn, Shown, g
  <2> QED BY <2>9, <2>10
<1> QED BY <1>4, <1>5, ServesRemote

\* A far end tells of a peer it gained or lost.
LEMMA FarEndReads ==
  ASSUME ListInv, DistinctIds, RosterInv, RemoteInv, NEW x \in Proxies, ProxyReads(x)
  PROVE  RemoteInv'
<1>0. x \in Conn /\ Pump(x) \in Goroutines
  BY PumpParts DEF Conn
<1>1. CASE \E t \in RemoteIds, m \in Payloads :
             /\ Reads(x, [action |-> "message", source |-> t, target |-> Nil, payload |-> m],
                      NotifyOrEnqueue(m), Idle)
             /\ UNCHANGED proxyPeers
  <2>1. \A m : NotifyOrEnqueue(m) \in {"notify", "enqueue"}
    BY DEF NotifyOrEnqueue
  <2> QED BY <1>0, <1>1, <2>1, ReadsLeaves, RemoteCarried
<1>2. CASE \E t \in RemoteIds, d \in Ids :
             /\ Reads(x, [action |-> "directmessage", source |-> t, target |-> d, payload |-> Nil],
                      "relay", RangeOver("controllers"))
             /\ UNCHANGED proxyPeers
  BY <1>0, <1>2, ReadsLeaves, RemoteCarried
<1>3. CASE \E a \in {"connect", "disconnect"}, t \in RemoteIds :
             /\ Reads(x, [action |-> a, source |-> Id[x], target |-> t, payload |-> Nil],
                      "inform", RangeOver("controllers"))
             /\ proxyPeers' = [proxyPeers EXCEPT ![x] = IF a = "connect" THEN @ \cup {t} ELSE @ \ {t}]
  <2>1. PICK a \in {"connect", "disconnect"}, t \in RemoteIds :
             /\ Reads(x, [action |-> a, source |-> Id[x], target |-> t, payload |-> Nil],
                      "inform", RangeOver("controllers"))
             /\ proxyPeers' = [proxyPeers EXCEPT ![x] = IF a = "connect" THEN @ \cup {t} ELSE @ \ {t}]
    BY <1>3
  <2>2. /\ pc[Pump(x)] = "read" /\ Goto(Pump(x), "inform", RangeOver("controllers"))
        /\ UNCHANGED <<lists, mapIt, view>> /\ ws' = ws
        /\ frame' = [frame EXCEPT ![x] = [action |-> a, source |-> Id[x], target |-> t, payload |-> Nil]]
    BY <2>1 DEF Reads, At, sockets
  <2>3. /\ frame'[x].action = a /\ frame'[x].target = t
        /\ \A y \in Proxies \ {x} : frame'[y] = frame[y] /\ proxyPeers'[y] = proxyPeers[y]
        /\ proxyPeers'[x] = IF a = "connect" THEN proxyPeers[x] \cup {t} ELSE proxyPeers[x] \ {t}
    BY <1>0, <2>1, <2>2 DEF ListInv, InputTypes, ProxyTypes, Conn
  <2>4. /\ pc'[Pump(x)] = "inform" /\ it'[Pump(x)] = RangeOver("controllers")
        /\ \A o \in Goroutines \ {Pump(x)} : pc'[o] = pc[o] /\ it'[o] = it[o]
    BY <1>0, <2>2 DEF Goto, ListInv, MoveInv, GoroutineTypes
  <2>5. /\ \A y \in Proxies \ {x} : pc'[Pump(y)] = pc[Pump(y)] /\ it'[Pump(y)] = it[Pump(y)]
        /\ \A c \in Controls : pc'[<<c, "serve">>] = pc[<<c, "serve">>] /\ it'[<<c, "serve">>] = it[<<c, "serve">>]
    BY <1>0, <2>4, PumpParts, GoroutineParts DEF Conn
  <2>6. list' = list /\ heap' = heap /\ joined' = joined /\ race' = race
    BY <2>2 DEF lists
  <2>7. Blank /\ Gone /\ (race = {} => RemoteKnown)
    BY DEF RemoteInv
  <2>8. Blank'
    BY <2>3, <2>4, <2>5, <2>7 DEF Blank
  <2>9. Gone'
    BY <2>3, <2>4, <2>5, <2>7 DEF Gone
  <2>10. ASSUME race = {} PROVE RemoteKnown'
    <3> SUFFICES ASSUME NEW c \in Controls \cap joined, NEW y \in Proxies \cap joined, ws[c] = "open",
                        NEW r \in proxyPeers'[y] \ LocalIds
                 PROVE  r \in view'[c] \/ ToInform(c, y, r)' \/ ToLearn(c, y, r)'
      BY <2>2, <2>6 DEF RemoteKnown, LocalIds
    <3>1. CASE r \in proxyPeers[y]
      <4>1. r \in view[c] \/ ToInform(c, y, r) \/ ToLearn(c, y, r)
        BY <2>7, <2>10, <3>1 DEF RemoteKnown
      <4>2. CASE r \in view[c]
        BY <2>2, <4>2
      <4>3. CASE ToInform(c, y, r)
        <5>1. y # x
          BY <2>2, <4>3 DEF ToInform
        <5> QED BY <2>3, <2>5, <2>6, <4>3, <5>1 DEF ToInform, ToCome, Shown
      <4>4. CASE ToLearn(c, y, r)
        BY <2>2, <2>5, <2>6, <4>4 DEF ToLearn, Shown
      <4> QED BY <4>1, <4>2, <4>3, <4>4
    <3>2. CASE r \notin proxyPeers[y]
      <4>1. y = x /\ a = "connect" /\ r = t
        BY <2>3, <3>2
      <4>2. Kind(c) = "controllers"
        BY KindsDisjoint DEF Kind
      <4>3. ToCome("controllers", RangeOver("controllers"), c)
        BY <2>10, <4>2, RangeComes
      <4> QED BY <2>3, <2>4, <2>6, <4>1, <4>3 DEF ToInform, ToCome, Shown
    <3> QED BY <3>1, <3>2
  <2> QED BY <2>6, <2>7, <2>8, <2>9, <2>10 DEF RemoteInv
<1> QED BY <1>1, <1>2, <1>3 DEF ProxyReads

\* The controls are told of it, one by one; no other far end owns what is withdrawn.
LEMMA InformsRemote ==
  ASSUME ListInv, DistinctIds, RosterInv, RemoteInv, FarEndsApart, NEW x \in Proxies, ProxyInforms(x)
  PROVE  RemoteInv'
<1> DEFINE g == Pump(x)
<1>0. /\ x \in Conn /\ g \in Goroutines /\ it[g] \in LoopState
      /\ \A y \in Proxies \ {x} : Pump(y) \in Goroutines \ {g}
      /\ \A c \in Controls : <<c, "serve">> \in Goroutines \ {g}
      /\ Controls \subseteq Watchers
  BY PumpParts, GoroutineParts DEF Conn, Watchers, ListInv, MoveInv, GoroutineTypes
<1>1. /\ pc[g] = "inform" /\ UNCHANGED <<lists, proxyState>> /\ ws' = ws /\ frame' = frame
      /\ Tell(Touches(g), frame[x].action, frame[x].target)
      /\ IF Last(it[g]) THEN Goto(g, "read", Idle) ELSE Goto(g, "inform", NextRound(LoopList(g), it[g]))
  BY DEF ProxyInforms, AnnounceRound, At, input
<1>2. g = Pump(x)
  OBVIOUS
<1> HIDE DEF g
<1>3. LoopList(g) = "controllers" /\ pc[g] \in Loops
  BY <1>1 DEF LoopList, LoopListAt, Loops
<1>4. /\ Last(it[g]) => pc'[g] = "read"
      /\ ~Last(it[g]) => pc'[g] = "inform" /\ it'[g] = NextRound("controllers", it[g])
      /\ \A o \in Goroutines \ {g} : pc'[o] = pc[o] /\ it'[o] = it[o]
  BY <1>0, <1>1, <1>3 DEF Goto, ListInv, MoveInv, GoroutineTypes
<1>5. /\ list' = list /\ heap' = heap /\ joined' = joined /\ race' = race
      /\ proxyPeers' = proxyPeers /\ mapIt' = mapIt
  BY <1>1 DEF lists, proxyState
<1>6. Blank /\ Gone /\ (race = {} => RemoteKnown)
  BY DEF RemoteInv
<1>7. Blank'
  BY <1>0, <1>1, <1>2, <1>4, <1>5, <1>6 DEF Blank
<1>8. Gone'
  BY <1>0, <1>1, <1>2, <1>4, <1>5, <1>6 DEF Gone
<1>9. ASSUME race = {} PROVE RemoteKnown'
  <2> SUFFICES ASSUME NEW c \in Controls \cap joined, NEW y \in Proxies \cap joined, ws[c] = "open",
                      NEW r \in proxyPeers[y] \ LocalIds
               PROVE  r \in view'[c] \/ ToInform(c, y, r)' \/ ToLearn(c, y, r)'
    BY <1>1, <1>5 DEF RemoteKnown, LocalIds
  <2>1. r \in view[c] \/ ToInform(c, y, r) \/ ToLearn(c, y, r)
    BY <1>6, <1>9 DEF RemoteKnown
  <2>2. frame[x].action = "connect" \/ r # frame[x].target
    BY <1>1, <1>2, <1>6 DEF Gone, FarEndsApart
  <2>3. CASE r \in view[c]
    BY <1>0, <1>1, <2>2, <2>3 DEF Tell
  <2>4. CASE ToInform(c, y, r) /\ y # x
    BY <1>0, <1>1, <1>4, <1>5, <2>4 DEF ToInform, ToCome, Shown
  <2>5. CASE ToInform(c, y, r) /\ y = x
    <3>1. frame[x].action = "connect" /\ frame[x].target = r /\ ToCome("controllers", it[g], c)
      BY <1>2, <2>5 DEF ToInform
    <3>2. CASE it[g].cur = c
      <4>1. c # Nil
        BY KindsDisjoint DEF Conn
      <4>2. c \in Touches(g)
        BY <1>1, <3>2, <4>1 DEF Touches
      <4> QED BY <1>0, <1>1, <3>1, <4>2 DEF Tell
    <3>3. CASE it[g].cur # c
      <4>1. ~Last(it[g]) /\ ToCome("controllers", NextRound("controllers", it[g]), c)
        BY <1>0, <1>3, <1>9, <3>1, <3>3, StillToCome DEF RosterInv
      <4> QED BY <1>1, <1>2, <1>4, <1>5, <2>5, <3>1, <4>1 DEF ToInform, ToCome, Shown
    <3> QED BY <3>2, <3>3
  <2>6. CASE ToLearn(c, y, r)
    BY <1>0, <1>4, <1>5, <2>6 DEF ToLearn, Shown
  <2> QED BY <2>1, <2>3, <2>4, <2>5, <2>6
<1> QED BY <1>5, <1>6, <1>7, <1>8, <1>9 DEF RemoteInv

\* Where a list changes, a loop over it that no race disturbs sees the same.
LEMMA LoopShows ==
  ASSUME ListInv, DistinctIds, RosterInv, NEW g \in Goroutines,
         (\E c \in Conn : Joins(c)) \/ CutStore(g), race' = {},
         NEW o \in Goroutines, pc[o] \in {"inform", "proxyPeers"}
  PROVE  \A j \in 1..it[o].len : heap'[LoopList(o)][it[o].arr].at[j] = Shown(LoopList(o), it[o], j)
<1> DEFINE k == LoopList(o)
<1>1. pc[o] \in Loops /\ k \in Lists /\ k # "none"
  BY DEF Loops, LoopList, LoopListAt, Lists
<1>2. it[o] \in LoopState /\ InHeap(heap[k], it[o])
  BY <1>1 DEF ListInv, MoveInv, GoroutineTypes, RoundsOK, RoundOK, LoopList
<1>3. k \notin race => RoundSees(k, it[o])
  BY <1>1 DEF RosterInv, LoopsSee
<1>4. CASE \E c \in Conn : Joins(c)
  <2>1. PICK c \in Conn : Joins(c)
    BY <1>4
  <2>2. race = {}
    BY <2>1 DEF Joins
  <2>3. /\ it[o].len <= list[k].len
        /\ \A j \in 1..it[o].len : Shown(k, it[o], j) = Shown(k, list[k], j)
    BY <1>3, <2>2 DEF RoundSees
  <2> HIDE DEF k
  <2>4. \A j \in 1..it[o].len : heap'[k][it[o].arr].at[j] = Shown(k, it[o], j)
    BY <1>1, <1>2, <2>1, <2>3, JoinKeepsSeen
  <2> QED BY <2>4 DEF k
<1>5. CASE CutStore(g)
  <2>1. pc[g] = "cutw"
    BY <1>5 DEF CutStore, At
  <2>2. o # g /\ InUse(o, k)
    BY <2>1 DEF InUse
  <2> HIDE DEF k
  <2>3. heap'[k] = heap[k]
    BY <1>1, <1>5, <2>2, CutElsewhere
  <2> QED BY <2>3 DEF k, Shown
<1> QED BY <1>4, <1>5

LEMMA AddsRemote ==
  ASSUME ListInv, DistinctIds, RosterInv, PumpsOK, RemoteInv, NEW c \in Conn, Adds(c)
  PROVE  RemoteInv'
<1> DEFINE g == <<c, "serve">>
<1>0. /\ g \in Goroutines /\ \A x \in Conn : Pump(x) \in Goroutines /\ Pump(x) # g /\ (x # c => Pump(x) # Pump(c))
      /\ \A x \in Conn : <<x, "serve">> \in Goroutines /\ <<x, "serve">> # Pump(c) /\ (x # c => <<x, "serve">> # g)
      /\ Controls \subseteq Conn /\ Proxies \subseteq Conn /\ Controls \subseteq Watchers
      /\ Controls \cap Proxies = {}
  BY GoroutineParts, PumpParts, KindsDisjoint DEF Conn, Watchers
<1>1. g = <<c, "serve">>
  OBVIOUS
<1> HIDE DEF g
<1>2. /\ Joins(c) /\ view' = view /\ ws' = ws /\ frame' = frame /\ joined' = joined \cup {c}
      /\ race \subseteq race' /\ pc[g] = "append"
      /\ c \in Controls => pc'[g] = "ownPeers"
      /\ \A o \in Goroutines \ {g} : \/ pc'[o] = pc[o] /\ it'[o] = it[o]
                                     \/ o = Pump(c) /\ pc'[o] = "read"
  BY <1>1, AddsMove
<1>3. UNCHANGED proxyState
  BY <1>2 DEF Joins
<1>4. pc[Pump(c)] = "none"
  BY <1>1, <1>2 DEF PumpsOK, PumpOK
<1>5. c \in Proxies => proxyPeers[c] = {}
  BY <1>4 DEF RemoteInv, Blank
<1>6. ASSUME NEW x \in Proxies
      PROVE  /\ pc'[Pump(x)] = "none" => pc[Pump(x)] = "none"
             /\ pc'[Pump(x)] = "inform" => pc[Pump(x)] = "inform" /\ frame'[x] = frame[x]
  BY <1>0, <1>2
<1>7. ASSUME race' = {}, NEW o \in Goroutines, NEW k, o # g, o # Pump(c),
             pc[o] \in {"inform", "proxyPeers"} => k = LoopList(o)
      PROVE  StaysAt(o, k)
  BY <1>0, <1>2, <1>7, LoopShows DEF StaysAt
<1>8. ASSUME race' = {}, NEW x \in Proxies, pc[Pump(x)] = "inform"
      PROVE  frame'[x] = frame[x] /\ StaysAt(Pump(x), "controllers")
  <2>1. Pump(x) \in Goroutines /\ Pump(x) # g /\ Pump(x) # Pump(c) /\ LoopList(Pump(x)) = "controllers"
    BY <1>0, <1>4, <1>8 DEF LoopList, LoopListAt
  <2> QED BY <1>2, <1>7, <1>8, <2>1
<1>9. ASSUME race' = {}, NEW d \in Controls, pc[<<d, "serve">>] \in {"dead", "ownPeers", "proxyPeers"}
      PROVE  StaysAt(<<d, "serve">>, "proxies")
  <2>1. /\ <<d, "serve">> \in Goroutines /\ <<d, "serve">> # g /\ <<d, "serve">> # Pump(c)
        /\ pc[<<d, "serve">>] \in {"inform", "proxyPeers"} => LoopList(<<d, "serve">>) = "proxies"
    BY <1>0, <1>2, <1>9 DEF LoopList, LoopListAt
  <2> QED BY <1>7, <1>9, <2>1
<1>10. \A d \in Controls \cap joined', x \in Proxies \cap joined' :
         ws'[d] = "open" => \/ d \in joined /\ x \in joined /\ ws[d] = "open"
                            \/ proxyPeers[x] = {}
                            \/ pc'[<<d, "serve">>] = "ownPeers"
  BY <1>1, <1>2, <1>5
<1>11. RemoteGoesOn
  BY <1>0, <1>2, <1>3, <1>6, <1>8, <1>9, <1>10 DEF RemoteGoesOn
<1> QED BY <1>11, RemoteCarried

LEMMA CutStoreRemote ==
  ASSUME ListInv, DistinctIds, RosterInv, PumpsOK, RemoteInv, NEW c \in Conn, CutStore(Pump(c))
  PROVE  RemoteInv'
<1> DEFINE g == Pump(c)
<1>0. /\ g \in Goroutines /\ \A x \in Conn : Pump(x) \in Goroutines /\ <<x, "serve">> \in Goroutines
      /\ \A x \in Conn : g # <<x, "serve">>
      /\ Controls \subseteq Conn /\ Proxies \subseteq Conn /\ Controls \subseteq Watchers
  BY GoroutineParts, PumpParts DEF Conn, Watchers
<1>1. g = Pump(c)
  OBVIOUS
<1> HIDE DEF g
<1>2. /\ pc[g] = "cutw" /\ view' = view /\ ws' = ws /\ frame' = frame
      /\ joined' \subseteq joined /\ race \subseteq race'
      /\ pc'[g] \in {"findControl", "closeControl", "close", "toProxy"}
      /\ \A o \in Goroutines \ {g} : pc'[o] = pc[o] /\ it'[o] = it[o]
  BY <1>1, CutMove
<1>3. UNCHANGED proxyState
  BY <1>1 DEF CutStore
<1>4. ASSUME NEW x \in Proxies
      PROVE  /\ pc'[Pump(x)] = "none" => pc[Pump(x)] = "none"
             /\ pc'[Pump(x)] = "inform" => pc[Pump(x)] = "inform" /\ frame'[x] = frame[x]
  BY <1>0, <1>2
<1>5. ASSUME race' = {}, NEW o \in Goroutines, NEW k, o # g,
             pc[o] \in {"inform", "proxyPeers"} => k = LoopList(o)
      PROVE  StaysAt(o, k)
  BY <1>0, <1>1, <1>2, <1>5, LoopShows DEF StaysAt
<1>6. ASSUME race' = {}, NEW x \in Proxies, pc[Pump(x)] = "inform"
      PROVE  frame'[x] = frame[x] /\ StaysAt(Pump(x), "controllers")
  <2>1. Pump(x) \in Goroutines /\ Pump(x) # g /\ LoopList(Pump(x)) = "controllers"
    BY <1>0, <1>2, <1>6 DEF LoopList, LoopListAt
  <2> QED BY <1>2, <1>5, <1>6, <2>1
<1>7. ASSUME race' = {}, NEW d \in Controls, pc[<<d, "serve">>] \in {"dead", "ownPeers", "proxyPeers"}
      PROVE  StaysAt(<<d, "serve">>, "proxies")
  <2>1. /\ <<d, "serve">> \in Goroutines /\ <<d, "serve">> # g
        /\ pc[<<d, "serve">>] \in {"inform", "proxyPeers"} => LoopList(<<d, "serve">>) = "proxies"
    BY <1>0, <1>7 DEF LoopList, LoopListAt
  <2> QED BY <1>5, <1>7, <2>1
<1>8. RemoteGoesOn
  BY <1>0, <1>2, <1>3, <1>4, <1>6, <1>7 DEF RemoteGoesOn
<1> QED BY <1>8, RemoteCarried

LEMMA RemoteInitOK == Init => RemoteInv
<1> SUFFICES ASSUME Init PROVE RemoteInv
  OBVIOUS
<1>1. /\ \A x \in Proxies : pc[Pump(x)] = "none" /\ proxyPeers[x] = {}
      /\ joined = {}
  BY GoroutineParts, PumpParts DEF Init, Conn
<1> QED BY <1>1 DEF RemoteInv, Blank, Gone, RemoteKnown

LEMMA RemoteStepOK ==
  ListInv /\ GroupInv /\ RosterInv /\ RemoteInv /\ FarEndsApart /\ [Next]_vars => RemoteInv'
<1> SUFFICES ASSUME ListInv, GroupInv, RosterInv, RemoteInv, FarEndsApart, [Next]_vars PROVE RemoteInv'
  OBVIOUS
<1>1. CASE ~DistinctIds
  BY <1>1 DEF RemoteInv, DistinctIds
<1>2. CASE DistinctIds
  <2>0. /\ Peers \subseteq Conn /\ Controls \subseteq Conn /\ Proxies \subseteq Conn
        /\ \A c \in Conn : /\ Pump(c) \in Goroutines /\ <<c, "serve">> \in Goroutines
                           /\ Pump(c)[1] = c /\ <<c, "serve">>[1] = c
    BY GoroutineParts, PumpParts DEF Conn
  <2>1. PumpsOK
    BY <1>2 DEF GroupInv
  <2>2. RemoteGoesOn => RemoteInv'
    BY <1>2, RemoteCarried
  <2>3. ASSUME NEW c, NEW f, NEW label, NEW r, c \in Conn, Reads(c, f, label, r), UNCHANGED proxyPeers,
               label \in {"notify", "enqueue", "relay"}
        PROVE  RemoteInv'
    BY <1>2, <2>2, <2>3, ReadsLeaves
  <2>4. CASE ClientStep
    <3>1. ASSUME NEW c \in Conn, Accept(c) \/ ReadFails(c) PROVE RemoteInv'
      BY <1>2, <2>2, <3>1, AcceptLeaves, ReadFailsLeaves
    <3>2. ASSUME NEW p \in Peers, PeerReads(p) PROVE RemoteInv'
      <4>1. \A m : NotifyOrEnqueue(m) \in {"notify", "enqueue"}
        BY DEF NotifyOrEnqueue
      <4> QED BY <2>0, <2>3, <3>2, <4>1 DEF PeerReads
    <3>3. ASSUME NEW c \in Controls, ControlReads(c) PROVE RemoteInv'
      BY <2>0, <2>3, <3>3 DEF ControlReads
    <3>4. ASSUME NEW c \in Controls, ControlReadsMalformed(c) PROVE RemoteInv'
      BY <2>2, <3>4, RemoteStays DEF ControlReadsMalformed, Crash, sockets, input, OpensNone, KeepsTold
    <3> QED BY <1>2, <2>4, <3>1, <3>2, <3>3, <3>4, FarEndReads DEF ClientStep
  <2>5. CASE Dispatcher
    BY <2>2, <2>5, DispatcherLeaves
  <2>6. ASSUME NEW c \in Conn, Teardown(c) PROVE RemoteInv'
    BY <1>2, <2>1, <2>2, <2>6, ScanLeaves, PumpsLeave, CutStoreRemote DEF Teardown
  <2>7. ASSUME NEW c \in Conn, Panics(c) PROVE RemoteInv'
    BY <1>2, <2>0, <2>2, <2>7, PumpsLeave, WritePanicsLeaves DEF Panics
  <2>8. ASSUME NEW p \in Peers, PeerServe(p) PROVE RemoteInv'
    <3>1. AddPeer(p) => Adds(p)
      BY DEF Adds
    <3> QED BY <1>2, <2>0, <2>1, <2>2, <2>8, <3>1, AddsRemote, PeerLeaves, WritePanicsLeaves DEF PeerServe
  <2>9. ASSUME NEW p \in Peers, PeerPump(p) PROVE RemoteInv'
    BY <1>2, <2>0, <2>2, <2>6, <2>7, <2>9, PumpsLeave, PeerLeaves DEF PeerPump
  <2>10. ASSUME NEW c \in Controls, ControlServe(c) PROVE RemoteInv'
    <3>1. AddControl(c) => Adds(c)
      BY DEF Adds
    <3> QED BY <1>2, <2>0, <2>1, <2>2, <2>10, <3>1, AddsRemote, OwnPeersRemote, EntryRemote,
               NextProxyRemote, WritePanicsLeaves DEF ControlServe
  <2>11. ASSUME NEW c \in Controls, ControlPump(c) PROVE RemoteInv'
    BY <1>2, <2>0, <2>2, <2>6, <2>7, <2>11, PumpsLeave DEF ControlPump
  <2>12. ASSUME NEW x \in Proxies, ProxyServe(x) PROVE RemoteInv'
    <3>1. AddProxy(x) => Adds(x)
      BY DEF Adds
    <3> QED BY <1>2, <2>0, <2>1, <2>2, <2>12, <3>1, AddsRemote, FarEndLeaves, WritePanicsLeaves
            DEF ProxyServe
  <2>13. ASSUME NEW x \in Proxies, ProxyPump(x) PROVE RemoteInv'
    BY <1>2, <2>0, <2>2, <2>6, <2>7, <2>13, InformsRemote, PumpsLeave, FarEndLeaves DEF ProxyPump
  <2>14. CASE UNCHANGED vars
    BY <2>2, <2>14, RemoteStays DEF vars, sockets, input, OpensNone, KeepsTold
  <2> QED BY <2>4, <2>5, <2>8, <2>9, <2>10, <2>11, <2>12, <2>13, <2>14 DEF Next
<1> QED BY <1>1, <1>2

\* While no far end withdraws a peer that another one owns, a control that
\* finished addConnection knows every peer the far ends own, unless its proxy
\* is still announcing it (control.go:145-150, proxy.go:104-111): for any
\* number of proxies, controls and peers, whoever joins or leaves meanwhile.
THEOREM RemotePeersAreAnnounced == Spec /\ []FarEndsApart => []RemoteAnnounced
<1>1. ListInv /\ RemoteInv => RemoteAnnounced
  <2> SUFFICES ASSUME RemoteInv, DistinctIds, race = {},
                      NEW c \in Controls \cap joined, NEW x \in Proxies \cap joined,
                      ws[c] = "open", pc[<<c, "serve">>] = "done", pc[Pump(x)] = "read",
                      NEW r \in proxyPeers[x] \ LocalIds
               PROVE  r \in view[c]
    BY DEF RemoteAnnounced
  <2>1. r \in view[c] \/ ToInform(c, x, r) \/ ToLearn(c, x, r)
    BY DEF RemoteInv, RemoteKnown
  <2> QED BY <2>1 DEF ToInform, ToLearn
<1> QED BY <1>1, RosterInvariant, RemoteInitOK, RemoteStepOK, PTL DEF Spec

=============================================================================
