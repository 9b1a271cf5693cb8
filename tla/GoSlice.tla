------------------------------ MODULE GoSlice ------------------------------
(***************************************************************************)
(* The slices that namedwebsockets keeps its connections in, as the Go     *)
(* runtime implements them: a slice is a HEADER (which backing array, how  *)
(* many elements) over an array that other headers may share.  Copying a   *)
(* header (which is what "for range" and every slice expression do) does   *)
(* not copy the elements, so a removal that shifts the elements of the     *)
(* shared array is seen through every header copied earlier.               *)
(*                                                                         *)
(* An array is [cap, at]: its capacity and the elements written to it so   *)
(* far.  Slots beyond Len(at) were never written and are never read: no    *)
(* header is longer than the written part.                                 *)
(***************************************************************************)
EXTENDS Naturals, Sequences

Array(T) == [cap : Nat, at : Seq(T)]
Header == [arr : Nat, len : Nat]

\* make([]T, 0): one backing array without room, and the empty header on it.
EmptyHeap == << [cap |-> 0, at |-> << >>] >>
EmptySlice == [arr |-> 1, len |-> 0]

\* A header points into its heap and covers written slots only.
InHeap(heap, h) == /\ h.arr \in 1..Len(heap)
                   /\ h.len <= Len(heap[h.arr].at)

\* The elements a header shows.
Elements(heap, h) == { heap[h.arr].at[i] : i \in 1..h.len }

\* No element is shown twice.
Distinct(heap, h) ==
  \A i, j \in 1..h.len : heap[h.arr].at[i] = heap[h.arr].at[j] => i = j

----------------------------------------------------------------------------
\* append(s, x) stores in place while the array has room and otherwise moves
\* the elements to a new array of twice the capacity.
HasRoom(heap, h) == h.len < heap[h.arr].cap

Store(a, n, x) ==
  [cap |-> a.cap,
   at  |-> [j \in 1..(IF n < Len(a.at) THEN Len(a.at) ELSE n + 1) |->
              IF j = n + 1 THEN x ELSE a.at[j]]]

Moved(a, n, x) == [cap |-> IF a.cap = 0 THEN 1 ELSE 2 * a.cap,
                   at  |-> [j \in 1..(n + 1) |-> IF j = n + 1 THEN x ELSE a.at[j]]]

AppendHeap(heap, h, x) ==
  IF HasRoom(heap, h)
    THEN [heap EXCEPT ![h.arr] = Store(heap[h.arr], h.len, x)]
    ELSE Append(heap, Moved(heap[h.arr], h.len, x))

AppendHeader(heap, h) ==
  [arr |-> IF HasRoom(heap, h) THEN h.arr ELSE Len(heap) + 1,
   len |-> h.len + 1]

----------------------------------------------------------------------------
\* append(s[:i], s[i+1:]...) moves the elements after position i one slot
\* down in the shared array; the last slot keeps its old element.
Shift(a, i, n) ==
  [cap |-> a.cap,
   at  |-> [j \in 1..Len(a.at) |-> IF j \in i..(n - 1) THEN a.at[j + 1] ELSE a.at[j]]]

RemoveHeap(heap, h, i) == [heap EXCEPT ![h.arr] = Shift(heap[h.arr], i, h.len)]

RemoveHeader(h) == [arr |-> h.arr, len |-> h.len - 1]

=============================================================================
