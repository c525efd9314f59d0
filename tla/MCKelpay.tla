------------------------------ MODULE MCKelpay ------------------------------
(* Instances of KelpayFlow and its invariant for TLC: ids are model values,  *)
(* so payments and tickets may be permuted in the runs that check no         *)
(* liveness.                                                                 *)
EXTENDS KelpayInvariant, TLC

Symmetry == Permutations(Tickets) \cup Permutations(Payments)
              \cup Permutations(Tasks)
=============================================================================
