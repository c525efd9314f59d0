----------------------------- MODULE KelpayFlow -----------------------------
(***************************************************************************)
(* Mobile-money sales: KelpayPaymentOrchestratorService (initiate, verify, *)
(* confirm, cancel, callback) and TicketsService.claimTicketForSuccessful- *)
(* KelpayPayment, over the tables of SalesTables.  Each disjunct of        *)
(* KelpayStep is what a request does between two awaits that matter.       *)
(* A request the code refuses before its first write changes nothing and   *)
(* is not a step.                                                          *)
(***************************************************************************)
EXTENDS SalesTables

(* Slip: the ticket is reserved and linked as soon as the payment exists. *)
SlipReserveAtOnce(t, k, p) ==
  /\ Free(t, "initiate")
  /\ CatalogAvailable(k)
  /\ payment[p].status = "absent"
  /\ payment' = [payment EXCEPT ![p] =
                   [status |-> "pending", ticketId |-> k,
                    method |-> "mobile_money", transactionId |-> FALSE]]
  /\ ticket' = [ticket EXCEPT ![k] = [status |-> "reserved", paymentId |-> p]]
  /\ gateway' = [gateway EXCEPT ![p] = "sent"]
  /\ Become(t, Handling("initiateHttp", p))
  /\ UNCHANGED callbacks

(* initiate: the transaction that locks the ticket and inserts the payment. *)
(* The request to Kelpay is on its way from here on.                        *)
Initiate(t, k, p) ==
  /\ Free(t, "initiate")
  /\ CatalogAvailable(k)
  /\ payment[p].status = "absent"
  /\ payment' = [payment EXCEPT ![p] =
                   [status |-> "pending", ticketId |-> k,
                    method |-> "mobile_money", transactionId |-> FALSE]]
  /\ gateway' = [gateway EXCEPT ![p] = "sent"]
  /\ Become(t, Handling("initiateHttp", p))
  /\ UNCHANGED <<ticket, callbacks>>

(* Slip: code 0 of payment.asp is read as "paid", as code 0 of the check is. *)
SlipAcceptedIsPaid(t) ==
  LET p == task[t].p IN
  /\ task[t].pc = "initiateHttp"
  /\ gateway[p] \in {"pushed", "charged", "declined"}
  /\ \E next \in {"finalizeSuccess", "finalizeFailure"} :
       Become(t, [Handling("initiatePersist", p) EXCEPT !.then = next])
  /\ UNCHANGED <<ticket, payment, gateway, callbacks>>

(* Answer code 0, with or without a transaction id: without one the request *)
(* goes on to finalizeFailure.                                              *)
InitiateAccepted(t) ==
  LET p == task[t].p IN
  /\ task[t].pc = "initiateHttp"
  /\ gateway[p] \in {"pushed", "charged", "declined"}
  /\ \E next \in {"idle", "finalizeFailure"} :
       Become(t, [Handling("initiatePersist", p) EXCEPT !.then = next])
  /\ UNCHANGED <<ticket, payment, gateway, callbacks>>

(* Any other answer is taken for a refusal.  With attempts that fail, it need *)
(* not be one: an earlier attempt may have been taken, or still be, and the   *)
(* body of this one may be unreadable.                                        *)
InitiateRefused(t) ==
  /\ task[t].pc = "initiateHttp"
  /\ gateway[task[t].p] = "refused" \/ "httpError" \in Faults
  /\ Become(t, Handling("finalizeFailure", task[t].p))
  /\ UNCHANGED <<ticket, payment, gateway, callbacks>>

(* Every attempt of postJson failed: the push may have been received or not. *)
InitiateHttpError(t) ==
  /\ "httpError" \in Faults
  /\ task[t].pc = "initiateHttp"
  /\ Become(t, Handling("rollbackRead", task[t].p))
  /\ UNCHANGED <<ticket, payment, gateway, callbacks>>

Continue(t) ==
  IF task[t].then = "idle" THEN Finish(t)
                           ELSE Become(t, Handling(task[t].then, task[t].p))

(* The UPDATE of the transactionId column alone. *)
InitiatePersist(t) ==
  /\ task[t].pc = "initiatePersist"
  /\ payment' = [payment EXCEPT ![task[t].p].transactionId =
                                  @ \/ task[t].then = "idle"]
  /\ Continue(t)
  /\ UNCHANGED <<ticket, gateway, callbacks>>

(* rollbackInitiationFailure: read, then save the row as failed, whatever *)
(* its status is.                                                         *)
RollbackRead(t) ==
  LET p == task[t].p IN
  /\ task[t].pc = "rollbackRead"
  /\ Become(t, [Handling("rollbackSave", p) EXCEPT !.paymentRow = payment[p]])
  /\ UNCHANGED <<ticket, payment, gateway, callbacks>>

RollbackSave(t) ==
  LET p == task[t].p IN
  /\ task[t].pc = "rollbackSave"
  /\ payment' = [payment EXCEPT ![p] = [task[t].paymentRow EXCEPT !.status = "failed"]]
  /\ Become(t, Handling("failedRead", p))
  /\ UNCHANGED <<ticket, gateway, callbacks>>
-----------------------------------------------------------------------------
(* verify and confirm ask Kelpay again; both need the transaction id, and *)
(* confirm also that the payment is still open when it is first read.     *)
Checkable(p) ==
  /\ payment[p].status # "absent"
  /\ payment[p].method = "mobile_money"
  /\ payment[p].transactionId

StartVerify(t, p) ==
  /\ Free(t, "verify")
  /\ Checkable(p)
  /\ Become(t, Handling("checkHttp", p))
  /\ UNCHANGED <<ticket, payment, gateway, callbacks>>

StartConfirm(t, p) ==
  /\ Free(t, "confirm")
  /\ Checkable(p)
  /\ payment[p].status \in OPEN
  /\ Become(t, Handling("checkHttp", p))
  /\ UNCHANGED <<ticket, payment, gateway, callbacks>>

(* Slip: a delivered push counts as a paid one. *)
SlipDeliveredIsPaid(p) ==
  CASE gateway[p] \in {"pushed", "charged"} -> {"finalizeSuccess"}
    [] gateway[p] = "declined" -> {"finalizeFailure"}
    [] gateway[p] = "sent" -> {"idle"}
    [] gateway[p] \in {"none", "refused"} -> {"idle", "finalizeFailure"}

(* resolveKelpayCheckTerminal of what Kelpay says of the transaction: the     *)
(* labels the request may go to.  A transaction Kelpay never took may be      *)
(* reported as failed or not at all.                                          *)
Outcomes(p) ==
  CASE gateway[p] = "charged" -> {"finalizeSuccess"}
    [] gateway[p] = "declined" -> {"finalizeFailure"}
    [] gateway[p] \in {"sent", "pushed"} -> {"idle"}
    [] gateway[p] \in {"none", "refused"} -> {"idle", "finalizeFailure"}

(* An answer that cannot be read decides nothing. *)
Readings(p) ==
  IF "httpError" \in Faults THEN Outcomes(p) \cup {"idle"} ELSE Outcomes(p)

CheckAnswered(t) ==
  LET p == task[t].p IN
  /\ task[t].pc = "checkHttp"
  /\ \E next \in Readings(p) :
       Become(t, [Handling("checkRead", p) EXCEPT !.then = next])
  /\ UNCHANGED <<ticket, payment, gateway, callbacks>>

CheckHttpError(t) ==
  /\ "httpError" \in Faults
  /\ task[t].pc = "checkHttp"
  /\ Finish(t)
  /\ UNCHANGED <<ticket, payment, gateway, callbacks>>

(* runSingleKelpayCheckAndPersist: read the row again, save it with one more *)
(* journal entry.  The save is not in a transaction with the read.           *)
CheckRead(t) ==
  /\ task[t].pc = "checkRead"
  /\ Become(t, [task[t] EXCEPT !.pc = "checkSave", !.paymentRow = payment[task[t].p]])
  /\ UNCHANGED <<ticket, payment, gateway, callbacks>>

CheckSave(t) ==
  /\ task[t].pc = "checkSave"
  /\ payment' = [payment EXCEPT ![task[t].p] = task[t].paymentRow]
  /\ Continue(t)
  /\ UNCHANGED <<ticket, gateway, callbacks>>
-----------------------------------------------------------------------------
(* claimTicketForSuccessfulKelpayPayment, inside finalizeSuccess. *)
Claimable(k, p) ==
  \/ ticket[k].status = "available"
  \/ ticket[k].status = "reserved" /\ ticket[k].paymentId = p

(* Slip: the ticket's id is written where the payment's belongs. *)
SlipClaimedWrongId(k, p) ==
  IF Claimable(k, p)
    THEN [ticket EXCEPT ![k] = [status |-> "sold", paymentId |-> k]]
    ELSE ticket

(* Slip: only a reservation is turned into a sale. *)
SlipClaimReservedOnly(k, p) ==
  IF ticket[k].status = "reserved" /\ ticket[k].paymentId = p
    THEN [ticket EXCEPT ![k] = [status |-> "sold", paymentId |-> p]]
    ELSE ticket

Claimed(k, p) ==
  IF Claimable(k, p)
    THEN [ticket EXCEPT ![k] = [status |-> "sold", paymentId |-> p]]
    ELSE ticket

(* Slip: the payment is recorded as paid whatever its status is by now. *)
SlipSuccessUnchecked(t) ==
  LET p == task[t].p IN
  /\ task[t].pc = "finalizeSuccess"
  /\ payment' = [payment EXCEPT ![p].status = "success", ![p].transactionId = TRUE]
  /\ ticket' = Claimed(payment[p].ticketId, p)
  /\ Become(t, Handling("completedRead", p))
  /\ UNCHANGED <<gateway, callbacks>>

(* finalizeSuccess: one transaction over the payment and the ticket. *)
FinalizeSuccess(t) ==
  LET p == task[t].p IN
  /\ task[t].pc = "finalizeSuccess"
  /\ IF payment[p].status \in OPEN
       THEN /\ payment' = [payment EXCEPT ![p].status = "success",
                                          ![p].transactionId = TRUE]
            /\ ticket' = Claimed(payment[p].ticketId, p)
            /\ Become(t, Handling("completedRead", p))
       ELSE /\ Finish(t)
            /\ UNCHANGED <<ticket, payment>>
  /\ UNCHANGED <<gateway, callbacks>>

(* Slip: the status is not looked at again under the lock. *)
SlipCloseUnchecked(t, status) ==
  LET p == task[t].p IN
  /\ payment' = [payment EXCEPT ![p].status = status]
  /\ Become(t, Handling("failedRead", p))
  /\ UNCHANGED <<ticket, gateway, callbacks>>

(* Lock the payment, close it with the given status if it is still open. *)
Close(t, status) ==
  LET p == task[t].p IN
  /\ IF payment[p].status \in OPEN
       THEN /\ payment' = [payment EXCEPT ![p].status = status]
            /\ Become(t, Handling("failedRead", p))
       ELSE /\ Finish(t)
            /\ UNCHANGED payment
  /\ UNCHANGED <<ticket, gateway, callbacks>>

FinalizeFailure(t) == task[t].pc = "finalizeFailure" /\ Close(t, "failed")

StartCancel(t, p) ==
  /\ Free(t, "cancel")
  /\ payment[p].method = "mobile_money"
  /\ payment[p].status \in OPEN
  /\ Become(t, Handling("cancelCommit", p))
  /\ UNCHANGED <<ticket, payment, gateway, callbacks>>

CancelCommit(t) == task[t].pc = "cancelCommit" /\ Close(t, "cancelled")

(* Slip: the payment is looked up by its transaction id only; one that has   *)
(* none yet is not found and the notification is dropped.                   *)
SlipByTransactionOnly(t, p) ==
  /\ Free(t, "callback")
  /\ p \in callbacks
  /\ callbacks' \in {callbacks, callbacks \ {p}}
  /\ \E next \in IF payment[p].transactionId THEN Outcomes(p) ELSE {"idle"} :
       Become(t, Handling(next, p))
  /\ UNCHANGED <<ticket, payment, gateway>>

(* handleKelpayCallback: the notification carries the reference and the *)
(* transaction id; the same notification may arrive again.              *)
ReceiveCallback(t, p) ==
  /\ Free(t, "callback")
  /\ p \in callbacks
  /\ callbacks' \in {callbacks, callbacks \ {p}}
  /\ payment' = [payment EXCEPT ![p].transactionId = TRUE]
  /\ \E next \in Outcomes(p) : Become(t, Handling(next, p))
  /\ UNCHANGED <<ticket, gateway>>
-----------------------------------------------------------------------------
(* Kelpay: it takes the push or refuses it, the customer then accepts or *)
(* declines (or never answers), and Kelpay notifies the backend.         *)
GatewayTakesPush(p) ==
  /\ gateway[p] = "sent"
  /\ \E g \in {"pushed", "refused"} : gateway' = [gateway EXCEPT ![p] = g]
  /\ UNCHANGED <<ticket, payment, callbacks, task>>

GatewaySettles(p) ==
  /\ gateway[p] = "pushed"
  /\ \E g \in {"charged", "declined"} : gateway' = [gateway EXCEPT ![p] = g]
  /\ callbacks' = callbacks \cup {p}
  /\ UNCHANGED <<ticket, payment, task>>

LoseCallback(p) ==
  /\ "loseCallback" \in Faults
  /\ p \in callbacks
  /\ callbacks' = callbacks \ {p}
  /\ UNCHANGED <<ticket, payment, gateway, task>>
-----------------------------------------------------------------------------
KelpayStep(t) ==
  \/ InitiateAccepted(t) \/ InitiateRefused(t) \/ InitiateHttpError(t)
  \/ InitiatePersist(t) \/ RollbackRead(t) \/ RollbackSave(t)
  \/ CheckAnswered(t) \/ CheckHttpError(t) \/ CheckRead(t) \/ CheckSave(t)
  \/ FinalizeSuccess(t) \/ FinalizeFailure(t) \/ CancelCommit(t)
  \/ WebhookChain(t)

KelpayStart(t) ==
  \E p \in Payments :
    \/ \E k \in Tickets : Initiate(t, k, p)
    \/ StartVerify(t, p) \/ StartConfirm(t, p) \/ StartCancel(t, p)
    \/ ReceiveCallback(t, p)

Gateway == \E p \in Payments :
  GatewayTakesPush(p) \/ GatewaySettles(p) \/ LoseCallback(p)

Next ==
  \/ \E t \in Tasks : KelpayStart(t) \/ KelpayStep(t) \/ Abort(t)
  \/ Gateway

Spec == Init /\ [][Next]_vars

(* The event loop runs every request on to its end (a call to Kelpay ends    *)
(* with its timeout), and Kelpay gets a notification through unless it is    *)
(* lost: the server accepts any number of requests, Tasks is a bound of the  *)
(* model, so a slot that is free again and again is enough.                  *)
FairSpec ==
  /\ Spec
  /\ \A t \in Tasks : WF_vars(KelpayStep(t))
  /\ \A p \in Payments : SF_vars(\E t \in Tasks : ReceiveCallback(t, p))
-----------------------------------------------------------------------------
Charged(p) == gateway[p] = "charged"

(* A ticket is sold only when Kelpay has charged a customer for a payment of *)
(* that ticket: no order of initiate, verify, confirm, cancel, callback,     *)
(* rollback and the stale ticket saves of markAsSold sells an unpaid ticket. *)
SoldIsCharged ==
  \A k \in Tickets : ticket[k].status = "sold" =>
    \E p \in Payments : payment[p].ticketId = k /\ Charged(p)

(* The payment a ticket row points to (tickets.paymentId) is a payment of   *)
(* that ticket and has been charged: the link that "my tickets" follows is  *)
(* never left on a cancelled or failed attempt.                             *)
LinkIsCharged ==
  \A k \in Tickets : LET p == ticket[k].paymentId IN
    p # None => payment[p].ticketId = k /\ Charged(p)

(* A payment the tables show as paid was charged at Kelpay, whatever row a  *)
(* verify read before the answer and saved after other requests wrote it.   *)
PaidIsCharged ==
  \A p \in Payments : payment[p].status \in PAID => Charged(p)

(* Two open Kelpay payments never compete for one ticket: what the lock of  *)
(* initiate and its look-up of an open payment are for.                     *)
OneOpenPayment ==
  \A p, q \in Payments, k \in Tickets :
    OpenKelpay(p, k) /\ OpenKelpay(q, k) => p = q

(* A closed payment keeps its status: callback, cancel and the rest find it *)
(* in TERMINAL under the lock and leave it.                                 *)
TerminalIsFinal ==
  [][\A p \in Payments : payment[p].status \in TERMINAL =>
       payment'[p].status = payment[p].status]_vars

(* With every route in use: a closed payment changes its status by nothing  *)
(* but a save of a row read earlier, that of a verify or confirm, or that   *)
(* of an initiate whose call failed.  Callback, cancel and the closings of  *)
(* verify, confirm and initiate leave what another of them has closed.      *)
ClosedIsOverwrittenBySaves ==
  [][\A p \in Payments :
       payment[p].status \in TERMINAL /\ payment'[p].status # payment[p].status =>
         \E t \in Tasks : task[t].p = p /\ task[t].pc \in {"checkSave", "rollbackSave"}]_vars

(* The customer has paid and the payment stays open: no notification of it   *)
(* is under way and no request is about to record it.                        *)
Stranded(p) ==
  /\ Charged(p)
  /\ payment[p].status \in OPEN
  /\ p \notin callbacks
  /\ \A t \in Tasks : ~(task[t].p = p /\ task[t].pc = "finalizeSuccess")

(* A charge is not forgotten by any order of notification, answers, cancel   *)
(* and checks.  It takes a notification that is lost, a request that ends    *)
(* before it records the charge (the notification was answered OK all the    *)
(* same), or a check that saves the row it read before the payment closed.   *)
StrandedByFault ==
  [][\A p \in Payments : ~Stranded(p) /\ Stranded(p)' =>
       \/ LoseCallback(p)
       \/ \E t \in Tasks :
            /\ task[t].p = p
            /\ \/ task[t].pc = "finalizeSuccess" /\ Abort(t)
               \/ CheckSave(t) /\ payment[p].status \in TERMINAL]_vars

(* A ticket that is sold is not put back on sale. *)
SoldStaysSold ==
  [][\A k \in Tickets : ticket[k].status = "sold" => ticket'[k].status = "sold"]_vars

(* No two successful payments are for the same ticket. *)
OneSuccessPerTicket ==
  \A p, q \in Payments :
    /\ payment[p].status \in PAID /\ payment[q].status \in PAID
    /\ payment[p].ticketId = payment[q].ticketId
    => p = q

(* What Kelpay charged does not stay open in the tables: the notification    *)
(* alone settles it, whether or not the customer comes back.                 *)
ChargedIsRecorded ==
  \A p \in Payments : Charged(p) ~> payment[p].status \in TERMINAL

(* A payment does not stay open for ever: the message of initiate tells the  *)
(* next buyer to finish it "ou attendez son expiration".                     *)
OpenPaymentExpires ==
  \A p \in Payments : payment[p].status \in OPEN ~> payment[p].status \notin OPEN

(* The orchestrator as a ledger: see PaymentLedger. *)
Entry(status) ==
  CASE status = "absent" -> "absent"
    [] status \in OPEN -> "open"
    [] status \in PAID -> "paid"
    [] status \in LOST -> "lost"

Ledger == INSTANCE PaymentLedger WITH
  book  <- [p \in Payments |-> Entry(payment[p].status)],
  owner <- [p \in Payments |-> payment[p].ticketId],
  money <- {p \in Payments : Charged(p)},
  sold  <- {k \in Tickets : ticket[k].status = "sold"}

(* initiate, cancel and callback keep the ledger: one open entry per ticket, *)
(* an entry closes once, it closes as paid only for money that has moved and *)
(* with the ticket sold in the same step.                                    *)
ImplementsLedger == Ledger!Spec
=============================================================================
