------------------------ MODULE TransactionInvariant ------------------------
(***************************************************************************)
(* The inductive invariant behind ImplementsFlow of SaleTransactions: what *)
(* a transaction has read under its row locks is still so when it commits. *)
(***************************************************************************)
EXTENDS SaleTransactions, KelpayInvariant

Opening == {"lockTicket", "readOpen", "insert"}
Closing == {"lockPayment", "savePayment", "claimLock", "commit"}

Paying(r) == r.pc = "finalizeSuccess"

(* The payment of r as its transaction is going to leave it. *)
ClosedRow(r, row) ==
  [row EXCEPT !.status = ClosedAs[r.pc], !.transactionId = @ \/ Paying(r)]

(* Transaction x of slot t, opened by request r, over the given locks and   *)
(* tables.  initiate holds a ticket that stays available and an id that is  *)
(* nobody else's; the others hold a payment that stays open, and what they  *)
(* are going to write is what the row calls for then as well as now.        *)
Holds(t, x, r, own, pay, tck) ==
  /\ x.pc \in Opening =>
       "initiate" \in Endpoints /\ r = Idle /\ x.k \in Tickets /\ ~x.claims
  /\ x.pc \in {"lockTicket", "readOpen"} => x.p = None
  /\ x.pc \in {"readOpen", "insert"} => own[x.k] = t /\ tck[x.k].status = "available"
  /\ x.pc = "insert" => x.p \in Payments /\ pay[x.p].status = "absent"
  /\ x.pc \in Closing => r.pc \in DOMAIN ClosedAs /\ x.p = r.p /\ x.p \in Payments
  /\ x.pc \in Closing \ {"lockPayment"} => own[x.p] = t /\ pay[x.p].status \in OPEN
  /\ x.pc = "savePayment" => x.paymentRow = pay[x.p]
  /\ x.pc \in {"claimLock", "commit"} => x.paymentRow = ClosedRow(r, pay[x.p])
  /\ x.pc \in {"lockPayment", "savePayment", "claimLock"} => x.k = None /\ ~x.claims
  /\ x.pc = "claimLock" => Paying(r)
  /\ x.pc = "commit" =>
       IF Paying(r)
         THEN /\ x.k = pay[x.p].ticketId /\ own[x.k] = t
              /\ x.claims <=> \/ tck[x.k].status = "available"
                              \/ tck[x.k].status = "reserved" /\ tck[x.k].paymentId = x.p
              /\ x.ticketRow = [status |-> "sold", paymentId |-> x.p]
         ELSE ~x.claims

TransactionsHold == \A t \in Tasks : Holds(t, tx[t], task[t], owner, payment, ticket)

(* No two transactions insert the same payment. *)
InsertsDiffer ==
  \A t, u \in Tasks :
    tx[t].pc = "insert" /\ tx[u].pc = "insert" /\ tx[t].p = tx[u].p => t = u

(* No lock outlives the transaction that took it. *)
LocksEnd ==
  \A r \in Tickets \cup Payments : owner[r] # None =>
    /\ r \in {tx[owner[r]].k, tx[owner[r]].p}
    /\ tx[owner[r]].pc \notin {"none", "lockTicket", "lockPayment"}

IdleIsIdle == \A t \in Tasks : task[t].pc = "idle" => task[t] = Idle

(* Between two statements of a transaction no other request, whatever it    *)
(* saves without one, changes what the transaction has decided on; and the  *)
(* rows are as sound as KelpayFlow keeps them.                              *)
TxInv ==
  /\ TxTypeOK
  /\ IInv
  /\ IdleIsIdle
  /\ TransactionsHold
  /\ InsertsDiffer
  /\ LocksEnd
=============================================================================
