--------------------------- MODULE PaymentLedger ---------------------------
(***************************************************************************)
(* What the Kelpay orchestrator promises, without requests, rows or locks: *)
(* an entry per payment that is opened, then closed once as paid or lost;  *)
(* the money that moved at the gateway; the tickets sold.                  *)
(***************************************************************************)
CONSTANTS Tickets, Payments, None

VARIABLES
  book,    \* [Payments -> {"absent", "open", "paid", "lost"}]
  owner,   \* [Payments -> Tickets \cup {None}]: the ticket an entry is for
  money,   \* the payments a customer was charged for
  sold     \* the tickets that are sold

vars == <<book, owner, money, sold>>

Init ==
  /\ book = [p \in Payments |-> "absent"]
  /\ owner = [p \in Payments |-> None]
  /\ money = {}
  /\ sold = {}

(* An entry is opened for a ticket that has no open one and is not sold. *)
Open(p, k) ==
  /\ book[p] = "absent"
  /\ k \notin sold
  /\ \A q \in Payments : owner[q] = k => book[q] # "open"
  /\ book' = [book EXCEPT ![p] = "open"]
  /\ owner' = [owner EXCEPT ![p] = k]
  /\ UNCHANGED <<money, sold>>

(* The customer pays; the entry may be closed by then. *)
Collect(p) ==
  /\ book[p] # "absent"
  /\ money' = money \cup {p}
  /\ UNCHANGED <<book, owner, sold>>

(* Closing as paid and selling the ticket are one step. *)
ClosePaid(p) ==
  /\ book[p] = "open"
  /\ p \in money
  /\ book' = [book EXCEPT ![p] = "paid"]
  /\ sold' = sold \cup {owner[p]}
  /\ UNCHANGED <<owner, money>>

CloseLost(p) ==
  /\ book[p] = "open"
  /\ book' = [book EXCEPT ![p] = "lost"]
  /\ UNCHANGED <<owner, money, sold>>

(* markAsSold may sell the ticket of a paid entry again. *)
SellAgain(p) ==
  /\ book[p] = "paid"
  /\ sold' = sold \cup {owner[p]}
  /\ UNCHANGED <<book, owner, money>>

(* The ledger does not promise that a sale lasts: markAsFailed of a lost    *)
(* entry of the same ticket may undo it.                                    *)
Unsell(p) ==
  /\ book[p] = "lost"
  /\ sold' = sold \ {owner[p]}
  /\ UNCHANGED <<book, owner, money>>

Next == \E p \in Payments :
  \/ \E k \in Tickets : Open(p, k)
  \/ Collect(p) \/ ClosePaid(p) \/ CloseLost(p) \/ SellAgain(p) \/ Unsell(p)

Spec == Init /\ [][Next]_vars
=============================================================================
