--------------------------- MODULE KelpayInvariant ---------------------------
(***************************************************************************)
(* The inductive invariant behind SoldIsCharged, LinkIsCharged and         *)
(* PaidIsCharged.  Those three say nothing about the rows that requests    *)
(* have read and will write back; the invariant does.                      *)
(***************************************************************************)
EXTENDS KelpayFlow

Collected == {p \in Payments : Charged(p)}

(* A ticket row of k that links to no payment, or to a collected one of k. *)
LinkSound(row, k, pay, collected) ==
  row.paymentId # None =>
    /\ row.paymentId \in collected
    /\ pay[row.paymentId].ticketId = k

(* The labels at which a request is about to sell, and at which it has been *)
(* told the ticket to write.                                                *)
Selling == {"finalizeSuccess", "completedRead", "soldRead", "soldSave"}
TicketHeld == {"soldRead", "soldSave", "releaseRead", "releaseSave"}

(* A request that is under way works on a payment that exists, sells only   *)
(* for a collected payment, and holds rows whose write-back is harmless.    *)
Sound(r, pay, collected) ==
  r.pc # "idle" =>
    /\ r.p \in Payments
    /\ pay[r.p].status # "absent"
    /\ r.then \in {"idle", "finalizeSuccess", "finalizeFailure"}
    /\ r.pc \in Selling \/ r.then = "finalizeSuccess" => r.p \in collected
    /\ r.pc \in TicketHeld => r.k = pay[r.p].ticketId
    /\ r.pc \in {"soldSave", "releaseSave"} =>
         LinkSound(r.ticketRow, r.k, pay, collected)
    /\ r.pc \in {"rollbackSave", "checkSave"} =>
         /\ r.paymentRow.status # "absent"
         /\ r.paymentRow.ticketId = pay[r.p].ticketId
         /\ r.paymentRow.status \in PAID => r.p \in collected

PaymentsSound ==
  \A p \in Payments :
    /\ payment[p].status = "absent" => gateway[p] = "none"
    /\ payment[p].status # "absent" => payment[p].ticketId \in Tickets
    /\ payment[p].status \in PAID => Charged(p)

CallbacksSound == \A p \in callbacks : gateway[p] \in {"charged", "declined"}

TasksSound == \A t \in Tasks : Sound(task[t], payment, Collected)

(* No reachable state lets a request write back a row that would sell an    *)
(* unpaid ticket: TypeOK and the three properties, strengthened by what     *)
(* every request in flight has read.                                        *)
IInv ==
  /\ TypeOK
  /\ PaymentsSound
  /\ CallbacksSound
  /\ TasksSound
  /\ SoldIsCharged
  /\ LinkIsCharged
-----------------------------------------------------------------------------
(* What holds besides while no stale payment row is saved, that is, without *)
(* verify, confirm and calls to Kelpay that fail.                           *)
NoCheckUnderWay ==
  \A t \in Tasks : task[t].pc \notin {"checkHttp", "checkRead", "checkSave"}

NoRollbackUnderWay ==
  \A t \in Tasks : task[t].pc \notin {"rollbackRead", "rollbackSave"}

(* A request that is about to sell or to release a ticket found its payment *)
(* paid or lost, and what it found is still so.                             *)
ChainSettled(r) ==
  /\ r.pc \in {"soldRead", "soldSave"} => payment[r.p].status \in PAID
  /\ r.pc \in {"releaseRead", "releaseSave"} => payment[r.p].status \in LOST

ChainsSettled == \A t \in Tasks : ChainSettled(task[t])

TicketsOnSale == \A k \in Tickets : ticket[k].status \in {"available", "sold"}

OpenAreMobile ==
  \A p \in Payments : payment[p].status \in OPEN => payment[p].method = "mobile_money"

(* The invariant behind ImplementsLedger: the release or the second sale    *)
(* that a request performs late is still the one its payment calls for.     *)
LedgerInv ==
  /\ IInv /\ NoCheckUnderWay /\ NoRollbackUnderWay
  /\ ChainsSettled /\ TicketsOnSale /\ OpenAreMobile
=============================================================================
