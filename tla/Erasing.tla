------------------------------- MODULE Erasing -------------------------------
(***************************************************************************)
(* vector::erase() of several elements: the others close up, in their      *)
(* order.                                                                  *)
(***************************************************************************)
EXTENDS Integers, Sequences, FiniteSets

(* The place of keep that becomes the j-th.                                *)
UpTo(keep, i) == {k \in keep : k <= i}
Place(keep, j) == CHOOSE i \in keep : Cardinality(UpTo(keep, i)) = j

(* s without what is at the places.                                        *)
Erase(s, places) ==
  LET keep == (DOMAIN s) \ places
  IN [j \in 1..Cardinality(keep) |-> s[Place(keep, j)]]

(* s without the elements in gone.                                         *)
Without(s, gone) == Erase(s, {i \in DOMAIN s : s[i] \in gone})
=============================================================================
