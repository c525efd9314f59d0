---------------------------- MODULE CounterSales ----------------------------
(***************************************************************************)
(* Sales that do not go through Kelpay, and the staff's hand on payments:  *)
(* TicketsService.purchase and remove, PaymentService.completePayment and  *)
(* updateStatus, TicketsWebhookService.handlePaymentWebhook.  None of them *)
(* locks a row: each reads with findOne and saves the whole row later.     *)
(***************************************************************************)
EXTENDS SalesTables

CONSTANTS
  StaffStatuses,     \* the statuses staff set, or a webhook names
  PurchaseMethods    \* the payment methods buyers choose in purchase

ASSUME CounterAssumption ==
  /\ StaffStatuses \subseteq PaymentStatus \ {"absent"}
  /\ PurchaseMethods \subseteq {"mobile_money", "card"}

(* History: the payments a person declared paid (complete, or a status of   *)
(* PAID set by hand).  The code keeps no such record.                       *)
VARIABLE approved

counterVars == <<ticket, payment, gateway, callbacks, task, approved>>
-----------------------------------------------------------------------------
(* purchase: read the ticket, reserve it, insert the payment, link them; an *)
(* error in the last two puts the ticket back on sale, if it can.           *)
StartPurchase(t, k, m) ==
  /\ Free(t, "purchase")
  /\ ticket[k].status = "available"
  /\ Become(t, [Idle EXCEPT !.pc = "purchaseReserve", !.k = k,
                            !.paymentRow = [NoPayment EXCEPT !.method = m],
                            !.ticketRow = [ticket[k] EXCEPT !.status = "reserved"]])
  /\ UNCHANGED <<ticket, payment, gateway, callbacks, approved>>

PurchaseReserve(t) ==
  /\ task[t].pc = "purchaseReserve"
  /\ ticket' = [ticket EXCEPT ![task[t].k] = task[t].ticketRow]
  /\ Become(t, [task[t] EXCEPT !.pc = "purchaseCreate"])
  /\ UNCHANGED <<payment, gateway, callbacks, approved>>

(* Slip: the new row's link is the ticket's own id. *)
SlipLinkWrongId(t, p) ==
  LET k == task[t].k IN
  /\ task[t].pc = "purchaseCreate"
  /\ payment[p].status = "absent"
  /\ payment' = [payment EXCEPT ![p] =
                   [task[t].paymentRow EXCEPT !.status = "pending", !.ticketId = k]]
  /\ Become(t, [task[t] EXCEPT !.pc = "purchaseLink", !.p = p,
                               !.paymentRow = NoPayment,
                               !.ticketRow.paymentId = k])
  /\ UNCHANGED <<ticket, gateway, callbacks, approved>>

PurchaseCreate(t, p) ==
  LET k == task[t].k IN
  /\ task[t].pc = "purchaseCreate"
  /\ payment[p].status = "absent"
  /\ payment' = [payment EXCEPT ![p] =
                   [task[t].paymentRow EXCEPT !.status = "pending", !.ticketId = k]]
  /\ Become(t, [task[t] EXCEPT !.pc = "purchaseLink", !.p = p,
                               !.paymentRow = NoPayment,
                               !.ticketRow.paymentId = p])
  /\ UNCHANGED <<ticket, gateway, callbacks, approved>>

(* What the catch block saves. *)
PurchaseUndone(t) ==
  [Idle EXCEPT !.pc = "purchaseUndo", !.k = task[t].k,
               !.ticketRow = [status |-> "available", paymentId |-> None]]

(* Slip: the exception leaves purchase without the catch block. *)
SlipNoCatch(t) ==
  /\ "dbError" \in Faults
  /\ task[t].pc \in {"purchaseCreate", "purchaseLink"}
  /\ Finish(t)
  /\ UNCHANGED <<ticket, payment, gateway, callbacks, approved>>

(* The insert or the save that links fails. *)
PurchaseFails(t) ==
  /\ "dbError" \in Faults
  /\ task[t].pc \in {"purchaseCreate", "purchaseLink"}
  /\ Become(t, PurchaseUndone(t))
  /\ UNCHANGED <<ticket, payment, gateway, callbacks, approved>>

(* Save the link, then decrypt the password for the answer, which may fail. *)
PurchaseLink(t) ==
  /\ task[t].pc = "purchaseLink"
  /\ ticket' = [ticket EXCEPT ![task[t].k] = task[t].ticketRow]
  /\ \/ Finish(t)
     \/ "dbError" \in Faults /\ Become(t, PurchaseUndone(t))
  /\ UNCHANGED <<payment, gateway, callbacks, approved>>

PurchaseUndo(t) ==
  /\ task[t].pc = "purchaseUndo"
  /\ ticket' = [ticket EXCEPT ![task[t].k] = task[t].ticketRow]
  /\ Finish(t)
  /\ UNCHANGED <<payment, gateway, callbacks, approved>>

(* The save that reserves, or the one in the catch block, fails in its turn: *)
(* the exception leaves purchase with the ticket as it is.                   *)
PurchaseGivesUp(t) ==
  /\ "dbError" \in Faults
  /\ task[t].pc \in {"purchaseReserve", "purchaseUndo"}
  /\ Finish(t)
  /\ UNCHANGED <<ticket, payment, gateway, callbacks, approved>>
-----------------------------------------------------------------------------
(* completePayment by staff, or by the student who created the payment when *)
(* it is not an open mobile_money one: read, check, save as completed.      *)
StartComplete(t, p) ==
  /\ Free(t, "complete")
  /\ payment[p].status \in OPEN \cup {"success"}
  /\ \E tx \in BOOLEAN :
       Become(t, [Handling("completeSave", p) EXCEPT
                    !.paymentRow = [payment[p] EXCEPT
                                      !.status = "completed",
                                      !.transactionId = @ \/ tx]])
  /\ UNCHANGED <<ticket, payment, gateway, callbacks, approved>>

(* Slip: a payment that failed is taken off its ticket. *)
SlipDetachFailed(t, p, s) ==
  /\ Free(t, "updateStatus")
  /\ payment[p].status # "absent"
  /\ Become(t, [Handling("statusSave", p) EXCEPT
                  !.paymentRow = [payment[p] EXCEPT
                    !.status = s, !.ticketId = IF s \in LOST THEN None ELSE @]])
  /\ UNCHANGED <<ticket, payment, gateway, callbacks, approved>>

(* updateStatus: any status to any status. *)
StartUpdateStatus(t, p, s) ==
  /\ Free(t, "updateStatus")
  /\ payment[p].status # "absent"
  /\ Become(t, [Handling("statusSave", p) EXCEPT
                  !.paymentRow = [payment[p] EXCEPT !.status = s]])
  /\ UNCHANGED <<ticket, payment, gateway, callbacks, approved>>

(* Which handler of the webhook service a status leads to. *)
HandlerOf(s) ==
  CASE s \in PAID -> "completedRead"
    [] s \in LOST -> "failedRead"
    [] OTHER -> "idle"

StaffSave(t) ==
  LET p == task[t].p
      s == task[t].paymentRow.status IN
  /\ task[t].pc \in {"completeSave", "statusSave"}
  /\ payment' = [payment EXCEPT ![p] = task[t].paymentRow]
  /\ approved' = IF s \in PAID THEN approved \cup {p} ELSE approved
  /\ IF HandlerOf(s) = "idle" THEN Finish(t) ELSE Become(t, Handling(HandlerOf(s), p))
  /\ UNCHANGED <<ticket, gateway, callbacks>>

(* handlePaymentWebhook: the status only chooses the handler; the payment *)
(* itself is not written.                                                 *)
Webhook(t, p, s) ==
  /\ Free(t, "webhook")
  /\ payment[p].status # "absent"
  /\ HandlerOf(s) # "idle"
  /\ Become(t, Handling(HandlerOf(s), p))
  /\ UNCHANGED <<ticket, payment, gateway, callbacks, approved>>
-----------------------------------------------------------------------------
(* remove: read the ticket, delete the row by its id. *)
StartRemove(t, k) ==
  /\ Free(t, "removeTicket")
  /\ ticket[k].status # "absent"
  /\ Become(t, [Idle EXCEPT !.pc = "removeRow", !.k = k])
  /\ UNCHANGED <<ticket, payment, gateway, callbacks, approved>>

RemoveRow(t) ==
  LET k == task[t].k IN
  /\ task[t].pc = "removeRow"
  /\ ticket' = [ticket EXCEPT ![k] = NoTicket]
  /\ Finish(t)
  /\ UNCHANGED <<payment, gateway, callbacks, approved>>
-----------------------------------------------------------------------------
CounterStart(t) ==
  \/ \E k \in Tickets :
       \/ StartRemove(t, k)
       \/ \E m \in PurchaseMethods : StartPurchase(t, k, m)
  \/ \E p \in Payments :
       \/ StartComplete(t, p)
       \/ \E s \in StaffStatuses : StartUpdateStatus(t, p, s) \/ Webhook(t, p, s)

CounterStep(t) ==
  \/ PurchaseReserve(t) \/ PurchaseFails(t)
  \/ PurchaseLink(t) \/ PurchaseUndo(t) \/ PurchaseGivesUp(t)
  \/ \E p \in Payments : PurchaseCreate(t, p)
  \/ StaffSave(t)
  \/ RemoveRow(t)

CounterNext == \E t \in Tasks : CounterStart(t) \/ CounterStep(t)
=============================================================================
