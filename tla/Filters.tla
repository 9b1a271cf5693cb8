------------------------------ MODULE Filters ------------------------------
(***************************************************************************)
(* The elements of a sequence that are in a set, in their order.  SelectSeq*)
(* would do for checking; this form is one that can be reasoned about.     *)
(***************************************************************************)
EXTENDS Naturals, Sequences

Filter(s, T) ==
  LET kept[n \in 0..Len(s)] ==
        IF n = 0 THEN << >>
        ELSE IF s[n] \in T THEN Append(kept[n - 1], s[n]) ELSE kept[n - 1]
  IN kept[Len(s)]

=============================================================================
