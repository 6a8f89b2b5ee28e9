------------------------------ MODULE Selection ------------------------------
(***************************************************************************)
(* What the code's filters and sorts make of an array: the elements at     *)
(* some of its positions, in the order of a key that tells them apart.     *)
(***************************************************************************)
EXTENDS Naturals, Sequences, FiniteSets

InOrder(seq, keep, key) ==
  LET place    == [i \in keep |-> Cardinality({k \in keep : key[k] <= key[i]})]
      position == [j \in 1 .. Cardinality(keep) |-> CHOOSE i \in keep : place[i] = j]
  IN  [j \in DOMAIN position |-> seq[position[j]]]

\* As they stand.
Picked(seq, keep) == InOrder(seq, keep, [i \in keep |-> i])
==============================================================================
