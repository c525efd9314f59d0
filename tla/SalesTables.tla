---------------------------- MODULE SalesTables ----------------------------
(***************************************************************************)
(* The two database tables a sale goes through (tickets, payments), the    *)
(* state of the Kelpay gateway that the backend can only observe, and the  *)
(* requests the backend is serving.  A request is a slot of Tasks; between *)
(* two of its awaits any other request may run.  The module also holds the *)
(* chain every flow ends with: TicketsWebhookService.handlePaymentCompleted*)
(* and handlePaymentFailed, and the markAsSold / markAsFailed they call.   *)
(*                                                                         *)
(* repository.save(entity) is a write of the whole row as it was read      *)
(* earlier; repository.update is a write of the named columns; a           *)
(* transaction that takes its row locks first is one step.                 *)
(*                                                                         *)
(* The operators named Slip... are no part of the model.  Each is the next *)
(* definition with one plausible programming error in it, and shows that a *)
(* property would notice the error.                                        *)
(***************************************************************************)
EXTENDS FiniteSets

CONSTANTS
  Tickets,         \* ids of the rows of "tickets"
  Payments,        \* ids a row of "payments" can get
  Tasks,           \* slots for requests served at the same time
  None,            \* SQL NULL in an id column
  Endpoints,       \* the routes clients use in this instance
  Faults           \* what may go wrong: a subset of FaultKinds

Routes == {"initiate", "verify", "confirm", "cancel", "callback", "purchase",
           "complete", "updateStatus", "webhook", "removeTicket"}

(* A request that stops between two awaits; attempts to reach Kelpay that   *)
(* fail, or whose answer cannot be read; a notification lost; a statement   *)
(* of purchase failing.                                                     *)
FaultKinds == {"abort", "httpError", "loseCallback", "dbError"}

ASSUME ConstantsAssumption ==
  /\ None \notin Tickets
  /\ None \notin Payments
  /\ Endpoints \subseteq Routes
  /\ Faults \subseteq FaultKinds

VARIABLES
  ticket,      \* [Tickets -> TicketRow]
  payment,     \* [Payments -> PaymentRow]
  gateway,     \* [Payments -> GatewayState]: what Kelpay did with the push
  callbacks,   \* payments whose notification is on its way to the backend
  task         \* [Tasks -> Task]

vars == <<ticket, payment, gateway, callbacks, task>>
-----------------------------------------------------------------------------
TicketStatus == {"absent", "available", "reserved", "sold"}
PaymentStatus == {"absent", "pending", "processing", "success", "completed",
                  "failed", "expired", "cancelled"}
OPEN == {"pending", "processing"}
PAID == {"success", "completed"}
LOST == {"failed", "expired", "cancelled"}
TERMINAL == PAID \cup LOST
GatewayState == {"none", "sent", "refused", "pushed", "charged", "declined"}

TicketRow == [status : TicketStatus, paymentId : Payments \cup {None}]
PaymentRow == [status : PaymentStatus, ticketId : Tickets \cup {None},
               method : {"mobile_money", "card"}, transactionId : BOOLEAN]

NoTicket == [status |-> "absent", paymentId |-> None]
NoPayment == [status |-> "absent", ticketId |-> None,
              method |-> "card", transactionId |-> FALSE]

(* Where a request is: the await it is about to perform. *)
Label == {"idle", "initiateHttp", "initiatePersist", "rollbackRead",
          "rollbackSave", "checkHttp", "checkRead", "checkSave",
          "finalizeSuccess", "finalizeFailure", "cancelCommit",
          "completedRead", "soldRead", "soldSave",
          "failedRead", "releaseRead", "releaseSave",
          "purchaseReserve", "purchaseCreate", "purchaseLink", "purchaseUndo",
          "completeSave", "statusSave", "removeRow"}

(* A request in flight: the payment and the ticket it works on, the rows it *)
(* has read and not written back yet, and the label it goes to afterwards.  *)
Task == [pc : Label, p : Payments \cup {None}, k : Tickets \cup {None},
         then : Label, paymentRow : PaymentRow, ticketRow : TicketRow]

Handling(label, p) ==
  [pc |-> label, p |-> p, k |-> None, then |-> "idle",
   paymentRow |-> NoPayment, ticketRow |-> NoTicket]

Idle == Handling("idle", None)

TypeOK ==
  /\ ticket \in [Tickets -> TicketRow]
  /\ payment \in [Payments -> PaymentRow]
  /\ gateway \in [Payments -> GatewayState]
  /\ callbacks \subseteq Payments
  /\ task \in [Tasks -> Task]

Init ==
  /\ ticket = [k \in Tickets |-> [status |-> "available", paymentId |-> None]]
  /\ payment = [p \in Payments |-> NoPayment]
  /\ gateway = [p \in Payments |-> "none"]
  /\ callbacks = {}
  /\ task = [t \in Tasks |-> Idle]
-----------------------------------------------------------------------------
(* A payment of ticket k that is mobile_money and still open.  Its absence *)
(* is what initiate checks and what the catalogue query filters on.        *)
OpenKelpay(p, k) ==
  /\ payment[p].ticketId = k
  /\ payment[p].method = "mobile_money"
  /\ payment[p].status \in OPEN

(* Slip: the ticket's status alone decides. *)
SlipStatusOnly(k) == ticket[k].status = "available"

CatalogAvailable(k) ==
  /\ ticket[k].status = "available"
  /\ \A p \in Payments : ~OpenKelpay(p, k)
-----------------------------------------------------------------------------
Free(t, route) == route \in Endpoints /\ task[t].pc = "idle"

Become(t, r) == task' = [task EXCEPT ![t] = r]
Finish(t) == Become(t, Idle)

(* Slip: the caller is trusted and the payment's status not looked at. *)
SlipTrustedCompletion(t) ==
  LET p == task[t].p IN
  /\ task[t].pc = "completedRead"
  /\ Become(t, [Handling("soldRead", p) EXCEPT !.k = payment[p].ticketId])
  /\ UNCHANGED <<ticket, payment, gateway, callbacks>>

(* handlePaymentCompleted: read the payment; only a paid one goes on. *)
CompletedRead(t) ==
  LET p == task[t].p IN
  /\ task[t].pc = "completedRead"
  /\ IF payment[p].status \in PAID
       THEN Become(t, [Handling("soldRead", p) EXCEPT !.k = payment[p].ticketId])
       ELSE Finish(t)
  /\ UNCHANGED <<ticket, payment, gateway, callbacks>>

(* markAsSold: read the ticket; one that is missing or sold is left alone. *)
SoldRead(t) ==
  LET k == task[t].k IN
  /\ task[t].pc = "soldRead"
  /\ IF ticket[k].status \in {"absent", "sold"}
       THEN Finish(t)
       ELSE Become(t, [task[t] EXCEPT !.pc = "soldSave", !.ticketRow = ticket[k]])
  /\ UNCHANGED <<ticket, payment, gateway, callbacks>>

SoldSave(t) ==
  /\ task[t].pc = "soldSave"
  /\ ticket' = [ticket EXCEPT
                  ![task[t].k] = [task[t].ticketRow EXCEPT !.status = "sold"]]
  /\ Finish(t)
  /\ UNCHANGED <<payment, gateway, callbacks>>

(* Slip: the body of handlePaymentCompleted copied, markAsSold and all. *)
SlipFailedSells(t) ==
  LET p == task[t].p IN
  /\ task[t].pc = "failedRead"
  /\ Become(t, [Handling("soldRead", p) EXCEPT !.k = payment[p].ticketId])
  /\ UNCHANGED <<ticket, payment, gateway, callbacks>>

(* handlePaymentFailed: read the payment; only a lost one goes on. *)
FailedRead(t) ==
  LET p == task[t].p IN
  /\ task[t].pc = "failedRead"
  /\ IF payment[p].status \in LOST
       THEN Become(t, [Handling("releaseRead", p) EXCEPT !.k = payment[p].ticketId])
       ELSE Finish(t)
  /\ UNCHANGED <<ticket, payment, gateway, callbacks>>

(* markAsFailed: read the ticket; one that is missing or sold is left alone, *)
(* whichever payment holds it.                                               *)
ReleaseRead(t) ==
  LET k == task[t].k IN
  /\ task[t].pc = "releaseRead"
  /\ IF ticket[k].status \in {"absent", "sold"}
       THEN Finish(t)
       ELSE Become(t, [task[t] EXCEPT !.pc = "releaseSave", !.ticketRow = ticket[k]])
  /\ UNCHANGED <<ticket, payment, gateway, callbacks>>

ReleaseSave(t) ==
  /\ task[t].pc = "releaseSave"
  /\ ticket' = [ticket EXCEPT
                  ![task[t].k] = [task[t].ticketRow EXCEPT !.status = "available",
                                                           !.paymentId = None]]
  /\ Finish(t)
  /\ UNCHANGED <<payment, gateway, callbacks>>

WebhookChain(t) ==
  \/ CompletedRead(t) \/ SoldRead(t) \/ SoldSave(t)
  \/ FailedRead(t) \/ ReleaseRead(t) \/ ReleaseSave(t)

(* A request ends before its next await: the process stops, or the database *)
(* refuses the statement and the exception leaves the handler.              *)
Abort(t) ==
  /\ "abort" \in Faults
  /\ task[t].pc # "idle"
  /\ Finish(t)
  /\ UNCHANGED <<ticket, payment, gateway, callbacks>>
=============================================================================
