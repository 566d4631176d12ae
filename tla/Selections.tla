------------------------------ MODULE Selections ------------------------------
(***************************************************************************)
(* The loops that keep some elements of a list and drop the others, in the *)
(* order they come: what is kept is said by its places in the list.        *)
(***************************************************************************)
EXTENDS Integers, Sequences

\* The places among the first n that are in a set, in order.
InOrder(n, places) ==
  LET kept[i \in 0..n] == IF i = 0 THEN <<>>
                          ELSE IF i \in places THEN Append(kept[i - 1], i) ELSE kept[i - 1]
  IN kept[n]

\* The elements of a list at a set of places.
Select(s, places) == [k \in DOMAIN InOrder(Len(s), places) |-> s[InOrder(Len(s), places)[k]]]
=============================================================================
