--------------------------- MODULE OfficeInvariant ---------------------------
(***************************************************************************)
(* The inductive invariant behind SoldIsAuthorised, LinkNamesOwnPayment    *)
(* and OrphanedByFailedRelease: what the requests of every flow may hold   *)
(* while the others write the same rows.                                   *)
(***************************************************************************)
EXTENDS TicketOffice

Backed == {p \in Payments : Authorised(p)}

(* A row of ticket k that links to no payment, or to one of k. *)
LinkSound(row, k, pay) ==
  row.paymentId # None =>
    pay[row.paymentId].status # "absent" /\ pay[row.paymentId].ticketId = k

OnTicket == Buying \cup {"removeRow"}
OnPayment == Label \ (OnTicket \cup {"idle"})
Selling == {"finalizeSuccess", "soldRead", "soldSave"}
TicketNamed == {"soldRead", "soldSave", "releaseRead", "releaseSave"}
TicketHeld == Buying \cup {"soldSave", "releaseSave"}
PaymentHeld == {"rollbackSave", "checkSave", "completeSave", "statusSave"}

(* A request works on a payment that exists or on a ticket; it sells only   *)
(* for a backed payment, and the rows it will write back are harmless: they *)
(* keep the payment's ticket and the ticket's link, and a purchase writes   *)
(* no sale.                                                                 *)
Sound(r, pay, backed) ==
  /\ r.pc \in OnPayment =>
       /\ r.p \in Payments
       /\ pay[r.p].status # "absent"
       /\ r.then \in {"idle", "finalizeSuccess", "finalizeFailure"}
  /\ r.pc \in Selling \/ r.then = "finalizeSuccess" => r.p \in backed
  /\ r.pc \in TicketNamed => r.k = pay[r.p].ticketId
  /\ r.pc \in OnTicket => r.k \in Tickets /\ r.then = "idle"
  /\ r.pc \in TicketHeld => LinkSound(r.ticketRow, r.k, pay)
  /\ r.pc \in Buying => r.ticketRow.status \in {"reserved", "available"}
  /\ r.pc = "purchaseLink" => r.ticketRow.paymentId # None
  /\ r.pc = "purchaseUndo" => r.ticketRow.status = "available"
  /\ r.pc \in PaymentHeld =>
       r.paymentRow.status # "absent" /\ r.paymentRow.ticketId = pay[r.p].ticketId
  /\ r.pc = "checkSave" /\ r.paymentRow.status \in PAID => r.p \in backed

PaymentsSound ==
  \A p \in Payments :
    /\ payment[p].status = "absent" => gateway[p] = "none" /\ p \notin approved
    /\ payment[p].status # "absent" => payment[p].ticketId \in Tickets
    /\ payment[p].status \in PAID => Authorised(p)

CallbacksSound == \A p \in callbacks : gateway[p] \in {"charged", "declined"}

TasksSound == \A t \in Tasks : Sound(task[t], payment, Backed)

LinksSound == \A k \in Tickets : LinkSound(ticket[k], k, payment)

(* No reachable state lets a request of any flow write back a row that      *)
(* sells a ticket nobody answers for or links it to another ticket's        *)
(* payment, however many saves of older rows come before.                   *)
OfficeInv ==
  /\ TypeOK
  /\ approved \subseteq Payments
  /\ PaymentsSound
  /\ CallbacksSound
  /\ TasksSound
  /\ LinksSound
  /\ SoldIsAuthorised
=============================================================================
