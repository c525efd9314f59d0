--------------------------- MODULE SaleAuthority ---------------------------
(***************************************************************************)
(* What every flow of the ticket office owes the club: a ticket is sold    *)
(* only on the authority of a payment for it, and an authority once given  *)
(* is not forgotten.  A sale may be undone.                                *)
(***************************************************************************)
CONSTANT Tickets

VARIABLES
  authorised,   \* tickets paid for at Kelpay, or declared paid by a person
  sold          \* tickets that are sold

vars == <<authorised, sold>>

Init == authorised = {} /\ sold = {}

Authorise(k) ==
  /\ authorised' = authorised \cup {k}
  /\ UNCHANGED sold

Sell(k) ==
  /\ k \in authorised
  /\ sold' = sold \cup {k}
  /\ UNCHANGED authorised

Unsell(k) ==
  /\ sold' = sold \ {k}
  /\ UNCHANGED authorised

Next == \E k \in Tickets : Authorise(k) \/ Sell(k) \/ Unsell(k)

Spec == Init /\ [][Next]_vars
=============================================================================
