-------------------------------- MODULE Ranking --------------------------------
(***************************************************************************)
(* The order by which the modules show that a sequence of steps ends:      *)
(* triples of natural numbers, the first difference deciding.  No sequence *)
(* of triples descends for ever.                                           *)
(***************************************************************************)
EXTENDS Naturals

Ranks == Nat \X Nat \X Nat

Lower(a, b) ==
  \/ a[1] < b[1]
  \/ a[1] = b[1] /\ a[2] < b[2]
  \/ a[1] = b[1] /\ a[2] = b[2] /\ a[3] < b[3]
=============================================================================
