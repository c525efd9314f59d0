---------------------------- MODULE LedgerProofs ----------------------------
(***************************************************************************)
(* KelpayFlow implements PaymentLedger while no stale payment row is saved *)
(* (no verify or confirm, no call to Kelpay that fails): the invariant     *)
(* LedgerInv, and the refinement step by step.                             *)
(***************************************************************************)
EXTENDS KelpayProofs

Money == {p \in Payments : Charged(p)}
SoldTickets == {k \in Tickets : ticket[k].status = "sold"}
Book == [p \in Payments |-> Entry(payment[p].status)]
Owner == [p \in Payments |-> payment[p].ticketId]

LEMMA EntryIs ==
  ASSUME NEW status \in PaymentStatus
  PROVE  /\ (Entry(status) = "absent") <=> (status = "absent")
         /\ (Entry(status) = "open") <=> (status \in OPEN)
         /\ (Entry(status) = "paid") <=> (status \in PAID)
         /\ (Entry(status) = "lost") <=> (status \in LOST)
<1>1. CASE status = "absent"
  <2>1. Entry(status) = "absent"
    BY <1>1, Zenon DEF Entry, OPEN, PAID, LOST
  <2> QED BY <1>1, <2>1 DEF OPEN, PAID, LOST
<1>2. CASE status \in OPEN
  <2>1. Entry(status) = "open"
    BY <1>2, Zenon DEF Entry, OPEN, PAID, LOST
  <2> QED BY <1>2, <2>1 DEF OPEN, PAID, LOST
<1>3. CASE status \in PAID
  <2>1. Entry(status) = "paid"
    BY <1>3, Zenon DEF Entry, OPEN, PAID, LOST
  <2> QED BY <1>3, <2>1 DEF OPEN, PAID, LOST
<1>4. CASE status \in LOST
  <2>1. Entry(status) = "lost"
    BY <1>4, Zenon DEF Entry, OPEN, PAID, LOST
  <2> QED BY <1>4, <2>1 DEF OPEN, PAID, LOST
<1> QED BY <1>1, <1>2, <1>3, <1>4 DEF PaymentStatus, OPEN, PAID, LOST
-----------------------------------------------------------------------------
Chain == {"soldRead", "soldSave", "releaseRead", "releaseSave"}

LEMMA Settled ==
  ASSUME LedgerInv, NEW t \in Tasks, task[t].pc \in Chain
  PROVE  /\ task[t].p \in Payments
         /\ payment[task[t].p].status \in TERMINAL
         /\ payment[task[t].p].ticketId \in Tickets
         /\ task[t].k = payment[task[t].p].ticketId
  BY UnderWay DEF LedgerInv, ChainsSettled, ChainSettled, Chain, TERMINAL, Sound, TicketHeld

(* A request that stays or waits in the chain is settled as before, since a *)
(* closed payment keeps its status.                                         *)
LEMMA StaysSettled ==
  ASSUME LedgerInv, [Next]_vars, NEW t \in Tasks
  PROVE  ChainSettled(task[t])'
           \/ task'[t] # task[t]
<1> SUFFICES ASSUME task'[t] = task[t] PROVE ChainSettled(task[t])'
  OBVIOUS
<1>1. CASE task[t].pc \in Chain
  <2>1. payment'[task[t].p].status = payment[task[t].p].status
    BY <1>1, Settled, TerminalStep DEF LedgerInv
  <2> QED BY <2>1 DEF LedgerInv, ChainsSettled, ChainSettled
<1>2. CASE task[t].pc \notin Chain
  BY <1>2 DEF ChainSettled, Chain
<1> QED BY <1>1, <1>2

LEMMA ChainStep ==
  ASSUME LedgerInv, [Next]_vars, NEW t \in Tasks, NEW r, Become(t, r),
         r.pc \notin Chain \/ ChainSettled(r)'
  PROVE  ChainsSettled'
<1> SUFFICES ASSUME NEW i \in Tasks PROVE ChainSettled(task[i])'
  BY DEF ChainsSettled
<1>1. CASE i = t
  <2>1. task'[i] = r
    BY <1>1 DEF Become, LedgerInv, IInv, TypeOK
  <2> QED BY <2>1 DEF ChainSettled, Chain
<1>2. CASE i # t
  <2>1. task'[i] = task[i]
    BY <1>2 DEF Become, LedgerInv, IInv, TypeOK
  <2> QED BY <2>1, StaysSettled
<1> QED BY <1>1, <1>2

LEMMA ChainsNext ==
  ASSUME LedgerInv, [Next]_vars
  PROVE  ChainsSettled'
<1> USE DEF Handling, Finish, Idle, Chain
<1>1. ASSUME NEW t \in Tasks, KelpayStart(t) PROVE ChainsSettled'
  <2> PICK p \in Payments :
         \/ \E k \in Tickets : Initiate(t, k, p)
         \/ StartVerify(t, p) \/ StartConfirm(t, p) \/ StartCancel(t, p)
         \/ ReceiveCallback(t, p)
    BY <1>1 DEF KelpayStart
  <2>1. CASE \E k \in Tickets : Initiate(t, k, p)
    BY <2>1, ChainStep DEF Initiate
  <2>2. CASE StartVerify(t, p) \/ StartConfirm(t, p) \/ StartCancel(t, p)
    BY <2>2, ChainStep DEF StartVerify, StartConfirm, StartCancel
  <2>3. CASE ReceiveCallback(t, p)
    <3>1. PICK next \in Outcomes(p) : Become(t, Handling(next, p))
      BY <2>3 DEF ReceiveCallback
    <3>2. next \in {"idle", "finalizeSuccess", "finalizeFailure"}
      BY <3>1, <2>3 DEF Outcomes, LedgerInv, IInv, CallbacksSound, ReceiveCallback
    <3> QED BY <3>1, <3>2, ChainStep
  <2> QED BY <2>1, <2>2, <2>3
<1>2. ASSUME NEW t \in Tasks, KelpayStep(t) PROVE ChainsSettled'
  <2>1. CASE \/ InitiateAccepted(t) \/ InitiateRefused(t) \/ InitiateHttpError(t)
             \/ RollbackRead(t) \/ RollbackSave(t)
    BY <2>1, ChainStep DEF InitiateAccepted, InitiateRefused, InitiateHttpError,
                           RollbackRead, RollbackSave
  <2>2. CASE InitiatePersist(t)
    <3>1. task[t].then \in {"idle", "finalizeSuccess", "finalizeFailure"}
      BY <2>2, UnderWay DEF LedgerInv, InitiatePersist, Sound
    <3> QED BY <2>2, <3>1, ChainStep DEF InitiatePersist, Continue
  <2>3. ~(CheckAnswered(t) \/ CheckHttpError(t) \/ CheckRead(t) \/ CheckSave(t))
    BY DEF LedgerInv, NoCheckUnderWay, CheckAnswered, CheckHttpError, CheckRead, CheckSave
  <2>4. CASE FinalizeSuccess(t) \/ FinalizeFailure(t) \/ CancelCommit(t)
    BY <2>4, ChainStep DEF FinalizeSuccess, FinalizeFailure, CancelCommit, Close
  <2>5. CASE CompletedRead(t) \/ FailedRead(t)
    <3>1. PICK r : Become(t, r) /\ (r.pc \notin Chain \/ ChainSettled(r))
      BY <2>5 DEF CompletedRead, FailedRead, ChainSettled
    <3>2. payment' = payment
      BY <2>5 DEF CompletedRead, FailedRead
    <3> QED BY <3>1, <3>2, ChainStep DEF ChainSettled
  <2>6. CASE SoldRead(t) \/ ReleaseRead(t)
    <3>1. ChainSettled(task[t]) /\ task[t] \in Task
      BY DEF LedgerInv, ChainsSettled, IInv, TypeOK
    <3>2. PICK r : /\ Become(t, r)
                   /\ \/ r = Idle
                      \/ /\ task[t].pc = "soldRead"
                         /\ r = [task[t] EXCEPT !.pc = "soldSave",
                                               !.ticketRow = ticket[task[t].k]]
                      \/ /\ task[t].pc = "releaseRead"
                         /\ r = [task[t] EXCEPT !.pc = "releaseSave",
                                               !.ticketRow = ticket[task[t].k]]
      BY <2>6 DEF SoldRead, ReleaseRead
    <3>3. PICK q : q = task[t]
      OBVIOUS
    <3>4. \/ r.pc = "idle"
          \/ task[t].pc = "soldRead" /\ r.pc = "soldSave" /\ r.p = task[t].p
          \/ task[t].pc = "releaseRead" /\ r.pc = "releaseSave" /\ r.p = task[t].p
      <4>1. q \in Task
        BY <3>1, <3>3
      <4>2. CASE r = [q EXCEPT !.pc = "soldSave", !.ticketRow = ticket[task[t].k]]
        BY <3>2, <3>3, <4>1, <4>2 DEF Task
      <4>3. CASE r = [q EXCEPT !.pc = "releaseSave", !.ticketRow = ticket[task[t].k]]
        BY <3>2, <3>3, <4>1, <4>3 DEF Task
      <4> QED BY <3>2, <3>3, <4>2, <4>3
    <3>5. r.pc \notin Chain \/ ChainSettled(r)
      BY <3>1, <3>4 DEF ChainSettled
    <3>6. payment' = payment
      BY <2>6 DEF SoldRead, ReleaseRead
    <3> QED BY <3>2, <3>6, <3>5, ChainStep DEF ChainSettled
  <2>7. CASE SoldSave(t) \/ ReleaseSave(t)
    BY <2>7, ChainStep DEF SoldSave, ReleaseSave
  <2> QED BY <1>2, <2>1, <2>2, <2>3, <2>4, <2>5, <2>6, <2>7 DEF KelpayStep, WebhookChain
<1>3. ASSUME NEW t \in Tasks, Abort(t) PROVE ChainsSettled'
  BY <1>3, ChainStep DEF Abort
<1>4. CASE UNCHANGED task
  BY <1>4, StaysSettled DEF ChainsSettled
<1> QED BY <1>1, <1>2, <1>3, <1>4
        DEF Next, Gateway, GatewayTakesPush, GatewaySettles, LoseCallback, vars

(* No route of Kelpay reserves or deletes a ticket. *)
LEMMA OnSaleNext ==
  ASSUME LedgerInv, [Next]_vars
  PROVE  TicketsOnSale'
<1>0. ticket \in [Tickets -> TicketRow] /\ TicketsOnSale
  BY DEF LedgerInv, IInv, TypeOK
<1>1. ASSUME ticket' = ticket PROVE TicketsOnSale'
  BY <1>0, <1>1 DEF TicketsOnSale
<1>2. ASSUME \A k \in Tickets : ticket'[k].status \in {ticket[k].status, "available", "sold"}
      PROVE  TicketsOnSale'
  BY <1>0, <1>2 DEF TicketsOnSale
<1>3. ASSUME NEW t \in Tasks, FinalizeSuccess(t) PROVE TicketsOnSale'
  <2>1. payment[task[t].p].ticketId \in Tickets
    BY <1>3, UnderWay DEF LedgerInv, FinalizeSuccess
  <2> QED BY <1>0, <1>1, <1>2, <1>3, <2>1 DEF FinalizeSuccess, Claimed
<1>4. ASSUME NEW t \in Tasks, SoldSave(t) \/ ReleaseSave(t) PROVE TicketsOnSale'
  <2>1. PICK row : /\ ticket' = [ticket EXCEPT ![task[t].k] = row]
                   /\ \/ row = [task[t].ticketRow EXCEPT !.status = "sold"]
                      \/ row = [task[t].ticketRow EXCEPT !.status = "available",
                                                        !.paymentId = None]
    BY <1>4 DEF SoldSave, ReleaseSave
  <2>2. task[t].ticketRow \in TicketRow
    BY DEF LedgerInv, IInv, TypeOK, Task
  <2>3. row.status \in {"available", "sold"}
    BY <2>1, <2>2 DEF TicketRow
  <2>4. \A k \in Tickets : ticket'[k] \in {ticket[k], row}
    BY <1>0, <2>1
  <2> QED BY <1>2, <2>3, <2>4
<1>5. ASSUME NEW t \in Tasks, KelpayStart(t) PROVE TicketsOnSale'
  BY <1>1, <1>5 DEF KelpayStart, Initiate, StartVerify, StartConfirm, StartCancel,
                    ReceiveCallback
<1>6. ASSUME NEW t \in Tasks, KelpayStep(t) PROVE TicketsOnSale'
  BY <1>1, <1>3, <1>4, <1>6
  DEF KelpayStep, WebhookChain, InitiateAccepted, InitiateRefused, InitiateHttpError,
      InitiatePersist, RollbackRead, RollbackSave, CheckAnswered, CheckHttpError,
      CheckRead, CheckSave, FinalizeFailure, CancelCommit, Close, CompletedRead,
      SoldRead, FailedRead, ReleaseRead
<1> QED BY <1>1, <1>5, <1>6
        DEF Next, Abort, Gateway, GatewayTakesPush, GatewaySettles, LoseCallback, vars

(* Only initiate opens a payment. *)
LEMMA OpenMobileNext ==
  ASSUME LedgerInv, [Next]_vars
  PROVE  OpenAreMobile'
<1> SUFFICES ASSUME NEW p \in Payments, payment'[p].status \in OPEN
             PROVE  payment'[p].method = "mobile_money"
  BY DEF OpenAreMobile
<1>1. CASE \E t \in Tasks, k \in Tickets : Initiate(t, k, p)
  BY <1>1 DEF Initiate, LedgerInv, IInv, TypeOK
<1>2. CASE ~ \E t \in Tasks, k \in Tickets : Initiate(t, k, p)
  <2>1. \A t \in Tasks : ~RollbackSave(t)
    BY DEF RollbackSave, LedgerInv, NoRollbackUnderWay
  <2>2. Advances(p)
    BY <1>2, <2>1, StepsAdvance DEF LedgerInv, CheckSave, NoCheckUnderWay
  <2> QED BY <2>2 DEF Advances, OPEN, TERMINAL, PAID, LOST, LedgerInv, OpenAreMobile
<1> QED BY <1>1, <1>2

LEMMA LedgerInvNext ==
  ASSUME NoChecks, NoHttpErrors, LedgerInv, [Next]_vars
  PROVE  LedgerInv'
  BY NextInv, NoCheckStep, NoRollbackStep, ChainsNext, OnSaleNext, OpenMobileNext
  DEF LedgerInv
-----------------------------------------------------------------------------
(* The ledger's view of a step.  It sees of a payment only its entry and its *)
(* ticket.                                                                   *)
SameEntry(p) ==
  /\ payment'[p].status = payment[p].status
  /\ payment'[p].ticketId = payment[p].ticketId

LEMMA SameBooks ==
  ASSUME \A p \in Payments : SameEntry(p)
  PROVE  Book' = Book /\ Owner' = Owner
  BY DEF SameEntry, Book, Owner

LEMMA SameMoney == gateway' = gateway => Money' = Money
  BY DEF Money, Charged

LEMMA SameSold == ticket' = ticket => SoldTickets' = SoldTickets
  BY DEF SoldTickets

LedgerVars == <<Book, Owner, Money, SoldTickets>>

LEMMA Opens ==
  ASSUME LedgerInv, NEW t \in Tasks, NEW k \in Tickets, NEW p \in Payments, Initiate(t, k, p)
  PROVE  Ledger!Open(p, k)
<1>1. payment[p].status = "absent" /\ ticket[k].status = "available"
  BY DEF Initiate, CatalogAvailable
<1>2. payment \in [Payments -> PaymentRow]
  BY DEF LedgerInv, IInv, TypeOK
<1>3. \A q \in Payments : payment[q].status \in PaymentStatus
  BY <1>2 DEF PaymentRow
<1>4. Book[p] = "absent"
  BY <1>1, <1>3, EntryIs DEF Book
<1>5. \A q \in Payments : Owner[q] = k => Book[q] # "open"
  BY <1>3, EntryIs DEF Initiate, CatalogAvailable, OpenKelpay, LedgerInv, OpenAreMobile,
                       Owner, Book
<1>6. payment'[p].status = "pending" /\ payment'[p].ticketId = k
  BY <1>2 DEF Initiate
<1>7. \A q \in Payments \ {p} : payment'[q] = payment[q]
  BY <1>2 DEF Initiate
<1>8. Entry("pending") = "open"
  BY EntryIs DEF PaymentStatus, OPEN
<1>9. Book' = [Book EXCEPT ![p] = "open"]
  BY <1>6, <1>7, <1>8 DEF Book
<1>10. Owner' = [Owner EXCEPT ![p] = k]
  BY <1>6, <1>7 DEF Owner
<1>11. Money' = Money
  <2>1. gateway[p] = "none"
    BY <1>1 DEF LedgerInv, IInv, PaymentsSound
  <2>2. gateway' = [gateway EXCEPT ![p] = "sent"] /\ gateway \in [Payments -> GatewayState]
    BY DEF Initiate, LedgerInv, IInv, TypeOK
  <2> QED BY <2>1, <2>2 DEF Money, Charged
<1>12. SoldTickets' = SoldTickets /\ k \notin SoldTickets
  BY <1>1, SameSold DEF Initiate, SoldTickets
<1> QED BY <1>4, <1>5, <1>9, <1>10, <1>11, <1>12
        DEF Ledger!Open, Book, Owner, Money, SoldTickets

(* A row that is closed under the lock. *)
LEMMA Closes ==
  ASSUME LedgerInv, NEW p \in Payments, payment[p].status \in OPEN,
         NEW row, payment' = [payment EXCEPT ![p] = row],
         row.ticketId = payment[p].ticketId, row.status \in TERMINAL
  PROVE  /\ Book[p] = "open" /\ Owner' = Owner
         /\ row.status \in PAID => Book' = [Book EXCEPT ![p] = "paid"]
         /\ row.status \in LOST => Book' = [Book EXCEPT ![p] = "lost"]
<1>1. payment \in [Payments -> PaymentRow]
  BY DEF LedgerInv, IInv, TypeOK
<1>2. payment'[p] = row /\ \A q \in Payments \ {p} : payment'[q] = payment[q]
  BY <1>1
<1>3. Owner' = Owner
  BY <1>2 DEF Owner
<1>4. Book[p] = "open"
  BY EntryIs DEF Book, OPEN, PaymentStatus
<1>5. ASSUME row.status \in PAID PROVE Book' = [Book EXCEPT ![p] = "paid"]
  <2>1. Entry(row.status) = "paid"
    BY <1>5, EntryIs DEF PAID, PaymentStatus
  <2>2. \A q \in Payments : Entry(payment'[q].status) =
                              IF q = p THEN "paid" ELSE Entry(payment[q].status)
    BY <1>2, <2>1
  <2> QED BY <2>2 DEF Book
<1>6. ASSUME row.status \in LOST PROVE Book' = [Book EXCEPT ![p] = "lost"]
  <2>1. Entry(row.status) = "lost"
    BY <1>6, EntryIs DEF LOST, PaymentStatus
  <2>2. \A q \in Payments : Entry(payment'[q].status) =
                              IF q = p THEN "lost" ELSE Entry(payment[q].status)
    BY <1>2, <2>1
  <2> QED BY <2>2 DEF Book
<1> QED BY <1>3, <1>4, <1>5, <1>6

LEMMA ClosesAsPaid ==
  ASSUME LedgerInv, NEW t \in Tasks, FinalizeSuccess(t)
  PROVE  Ledger!Next \/ UNCHANGED LedgerVars
<1>1. PICK p : p = task[t].p
  OBVIOUS
<1>2. /\ p \in Payments /\ payment[p].ticketId \in Tickets /\ p \in Money
      /\ payment \in [Payments -> PaymentRow]
  BY <1>1, UnderWay DEF FinalizeSuccess, LedgerInv, Sound, Selling, Collected, Money, IInv, TypeOK
<1>3. Money' = Money
  BY SameMoney DEF FinalizeSuccess
<1>4. CASE payment[p].status \in OPEN
  <2>1. PICK row : /\ row = [payment[p] EXCEPT !.status = "success", !.transactionId = TRUE]
                   /\ payment' = [payment EXCEPT ![p] = row]
    BY <1>1, <1>2, <1>4 DEF FinalizeSuccess
  <2>2. row.status = "success" /\ row.ticketId = payment[p].ticketId
    BY <1>2, <2>1 DEF PaymentRow
  <2>3. Book[p] = "open" /\ Owner' = Owner /\ Book' = [Book EXCEPT ![p] = "paid"]
    BY <1>2, <1>4, <2>1, <2>2, Closes DEF TERMINAL, PAID
  <2>4. SoldTickets' = SoldTickets \cup {Owner[p]}
    <3>1. PICK k : k = payment[p].ticketId
      OBVIOUS
    <3>2. k \in Tickets /\ Owner[p] = k /\ ticket' = Claimed(k, p)
      BY <1>1, <1>2, <1>4, <3>1 DEF FinalizeSuccess, Owner
    <3>3. ticket \in [Tickets -> TicketRow] /\ ticket[k].status \in {"available", "sold"}
      BY <3>2 DEF LedgerInv, TicketsOnSale, IInv, TypeOK
    <3>4. CASE Claimable(k, p)
      BY <3>2, <3>3, <3>4 DEF Claimed, SoldTickets
    <3>5. CASE ~Claimable(k, p)
      BY <3>2, <3>3, <3>5 DEF Claimed, Claimable, SoldTickets
    <3> QED BY <3>4, <3>5
  <2> QED BY <1>2, <1>3, <2>3, <2>4
          DEF Ledger!Next, Ledger!ClosePaid, Book, Owner, Money, SoldTickets
<1>5. CASE payment[p].status \notin OPEN
  <2>1. ticket' = ticket /\ payment' = payment
    BY <1>1, <1>5 DEF FinalizeSuccess
  <2> QED BY <1>3, <2>1, SameBooks, SameSold DEF LedgerVars, SameEntry
<1> QED BY <1>4, <1>5

LEMMA ClosesAsLost ==
  ASSUME LedgerInv, NEW t \in Tasks, task[t].pc # "idle",
         NEW status \in LOST, Close(t, status)
  PROVE  Ledger!Next \/ UNCHANGED LedgerVars
<1>1. PICK p : p = task[t].p
  OBVIOUS
<1>2. p \in Payments /\ payment \in [Payments -> PaymentRow]
  BY <1>1, UnderWay DEF LedgerInv, IInv, TypeOK
<1>3. Money' = Money /\ SoldTickets' = SoldTickets
  BY SameMoney, SameSold DEF Close
<1>4. CASE payment[p].status \in OPEN
  <2>1. PICK row : /\ row = [payment[p] EXCEPT !.status = status]
                   /\ payment' = [payment EXCEPT ![p] = row]
    BY <1>1, <1>2, <1>4 DEF Close
  <2>2. row.status = status /\ row.ticketId = payment[p].ticketId
    BY <1>2, <2>1 DEF PaymentRow
  <2>3. Book[p] = "open" /\ Owner' = Owner /\ Book' = [Book EXCEPT ![p] = "lost"]
    BY <1>2, <1>4, <2>1, <2>2, Closes DEF TERMINAL
  <2> QED BY <1>2, <1>3, <2>3
          DEF Ledger!Next, Ledger!CloseLost, Book, Owner, Money, SoldTickets
<1>5. CASE payment[p].status \notin OPEN
  <2>1. payment' = payment
    BY <1>1, <1>5 DEF Close
  <2> QED BY <1>3, <2>1, SameBooks DEF LedgerVars, SameEntry
<1> QED BY <1>4, <1>5

(* A ticket row is saved by a request whose payment is closed, and is that  *)
(* payment's ticket.                                                        *)
LEMMA SavesSold ==
  ASSUME LedgerInv, NEW t \in Tasks, SoldSave(t)
  PROVE  Ledger!Next \/ UNCHANGED LedgerVars
<1>1. PICK p, k : p = task[t].p /\ k = task[t].k
  OBVIOUS
<1>2. p \in Payments /\ k \in Tickets /\ Owner[p] = k
  BY <1>1, Settled DEF SoldSave, Chain, Owner
<1>3. Book[p] = "paid"
  BY <1>1, <1>2, EntryIs DEF SoldSave, Book, LedgerInv, ChainsSettled, ChainSettled,
                           PAID, PaymentStatus
<1>4. Book' = Book /\ Owner' = Owner /\ Money' = Money
  BY SameBooks, SameMoney DEF SoldSave, SameEntry
<1>5. PICK row : row = [task[t].ticketRow EXCEPT !.status = "sold"]
  OBVIOUS
<1>6. row.status = "sold"
  BY <1>5 DEF LedgerInv, IInv, TypeOK, Task, TicketRow
<1>7. ticket \in [Tickets -> TicketRow] /\ ticket' = [ticket EXCEPT ![k] = row]
  BY <1>1, <1>5 DEF SoldSave, LedgerInv, IInv, TypeOK
<1>8. SoldTickets' = SoldTickets \cup {Owner[p]}
  BY <1>2, <1>6, <1>7 DEF SoldTickets
<1> QED BY <1>2, <1>3, <1>4, <1>8
        DEF Ledger!Next, Ledger!SellAgain, Book, Owner, Money, SoldTickets

LEMMA SavesReleased ==
  ASSUME LedgerInv, NEW t \in Tasks, ReleaseSave(t)
  PROVE  Ledger!Next \/ UNCHANGED LedgerVars
<1>1. PICK p, k : p = task[t].p /\ k = task[t].k
  OBVIOUS
<1>2. p \in Payments /\ k \in Tickets /\ Owner[p] = k
  BY <1>1, Settled DEF ReleaseSave, Chain, Owner
<1>3. Book[p] = "lost"
  BY <1>1, <1>2, EntryIs DEF ReleaseSave, Book, LedgerInv, ChainsSettled, ChainSettled,
                           LOST, PaymentStatus
<1>4. Book' = Book /\ Owner' = Owner /\ Money' = Money
  BY SameBooks, SameMoney DEF ReleaseSave, SameEntry
<1>5. PICK row : row = [task[t].ticketRow EXCEPT !.status = "available", !.paymentId = None]
  OBVIOUS
<1>6. row.status = "available"
  BY <1>5 DEF LedgerInv, IInv, TypeOK, Task, TicketRow
<1>7. ticket \in [Tickets -> TicketRow] /\ ticket' = [ticket EXCEPT ![k] = row]
  BY <1>1, <1>5 DEF ReleaseSave, LedgerInv, IInv, TypeOK
<1>8. SoldTickets' = SoldTickets \ {Owner[p]}
  BY <1>2, <1>6, <1>7 DEF SoldTickets
<1> QED BY <1>2, <1>3, <1>4, <1>8
        DEF Ledger!Next, Ledger!Unsell, Book, Owner, Money, SoldTickets

LEMMA Collects ==
  ASSUME LedgerInv, Gateway
  PROVE  Ledger!Next \/ UNCHANGED LedgerVars
<1>1. PICK p \in Payments : GatewayTakesPush(p) \/ GatewaySettles(p) \/ LoseCallback(p)
  BY DEF Gateway
<1>2. /\ gateway \in [Payments -> GatewayState]
      /\ payment[p].status \in PaymentStatus
      /\ payment[p].status = "absent" => gateway[p] = "none"
  BY DEF LedgerInv, IInv, TypeOK, PaymentRow, PaymentsSound
<1>3. Book' = Book /\ Owner' = Owner /\ SoldTickets' = SoldTickets
  BY <1>1, SameBooks, SameSold DEF GatewayTakesPush, GatewaySettles, LoseCallback, SameEntry
<1>4. \/ gateway' = gateway
      \/ /\ gateway[p] \in {"sent", "pushed"}
         /\ gateway' = [gateway EXCEPT ![p] = gateway'[p]]
  BY <1>1, <1>2 DEF GatewayTakesPush, GatewaySettles, LoseCallback
<1>5. CASE gateway' = gateway
  BY <1>3, <1>5, SameMoney DEF LedgerVars
<1>6. CASE gateway'[p] = "charged" /\ gateway' # gateway
  <2>1. Money' = Money \cup {p}
    BY <1>2, <1>4, <1>6 DEF Money, Charged
  <2>2. Book[p] # "absent"
    BY <1>2, <1>4, <1>6, EntryIs DEF Book
  <2> QED BY <1>3, <2>1, <2>2
          DEF Ledger!Next, Ledger!Collect, Book, Owner, Money, SoldTickets
<1>7. CASE gateway'[p] # "charged" /\ gateway' # gateway
  <2>1. Money' = Money
    BY <1>2, <1>4, <1>7 DEF Money, Charged
  <2> QED BY <1>3, <2>1 DEF LedgerVars
<1> QED BY <1>5, <1>6, <1>7

(* Everything else writes at most the transaction id of a payment. *)
LEMMA LedgerStep ==
  LedgerInv /\ [Next]_vars => [Ledger!Next]_(Ledger!vars)
<1> SUFFICES ASSUME LedgerInv, [Next]_vars
             PROVE  Ledger!Next \/ UNCHANGED LedgerVars
  BY DEF LedgerVars, Book, Owner, Money, SoldTickets, Ledger!vars
<1>1. payment \in [Payments -> PaymentRow]
  BY DEF LedgerInv, IInv, TypeOK
<1>2. ASSUME ticket' = ticket, gateway' = gateway, \A p \in Payments : SameEntry(p)
      PROVE  UNCHANGED LedgerVars
  BY <1>2, SameBooks, SameMoney, SameSold DEF LedgerVars
<1>3. ASSUME NEW t \in Tasks, KelpayStart(t) PROVE Ledger!Next \/ UNCHANGED LedgerVars
  <2> PICK p \in Payments :
         \/ \E k \in Tickets : Initiate(t, k, p)
         \/ StartVerify(t, p) \/ StartConfirm(t, p) \/ StartCancel(t, p)
         \/ ReceiveCallback(t, p)
    BY <1>3 DEF KelpayStart
  <2>1. CASE \E k \in Tickets : Initiate(t, k, p)
    BY <2>1, Opens DEF Ledger!Next
  <2>2. CASE StartVerify(t, p) \/ StartConfirm(t, p) \/ StartCancel(t, p)
    BY <1>2, <2>2 DEF StartVerify, StartConfirm, StartCancel, SameEntry
  <2>3. CASE ReceiveCallback(t, p)
    BY <1>1, <1>2, <2>3 DEF ReceiveCallback, SameEntry
  <2> QED BY <2>1, <2>2, <2>3
<1>4. ASSUME NEW t \in Tasks, KelpayStep(t) PROVE Ledger!Next \/ UNCHANGED LedgerVars
  <2>1. CASE InitiatePersist(t)
    <3>1. PICK b : payment' = [payment EXCEPT ![task[t].p].transactionId = b]
      BY <2>1 DEF InitiatePersist
    <3>2. \A p \in Payments : SameEntry(p)
      BY <1>1, <3>1 DEF SameEntry
    <3> QED BY <1>2, <2>1, <3>2 DEF InitiatePersist
  <2>2. CASE \/ InitiateAccepted(t) \/ InitiateRefused(t) \/ InitiateHttpError(t)
             \/ CompletedRead(t) \/ SoldRead(t) \/ FailedRead(t) \/ ReleaseRead(t)
    BY <1>2, <2>2 DEF InitiateAccepted, InitiateRefused, InitiateHttpError,
                      CompletedRead, SoldRead, FailedRead, ReleaseRead, SameEntry
  <2>3. ~(\/ RollbackRead(t) \/ RollbackSave(t) \/ CheckAnswered(t)
          \/ CheckHttpError(t) \/ CheckRead(t) \/ CheckSave(t))
    BY DEF LedgerInv, NoCheckUnderWay, NoRollbackUnderWay, RollbackRead, RollbackSave,
           CheckAnswered, CheckHttpError, CheckRead, CheckSave
  <2>4. CASE FinalizeFailure(t) \/ CancelCommit(t)
    BY <2>4, ClosesAsLost DEF FinalizeFailure, CancelCommit, LOST
  <2> QED BY <1>4, <2>1, <2>2, <2>3, <2>4, ClosesAsPaid, SavesSold, SavesReleased
          DEF KelpayStep, WebhookChain
<1>5. ASSUME NEW t \in Tasks, Abort(t) PROVE UNCHANGED LedgerVars
  BY <1>2, <1>5 DEF Abort, SameEntry
<1>6. CASE UNCHANGED vars
  BY <1>2, <1>6 DEF vars, SameEntry
<1> QED BY <1>3, <1>4, <1>5, <1>6, Collects DEF Next

LEMMA LedgerInit == Init => Ledger!Init /\ LedgerInv
<1> SUFFICES ASSUME Init PROVE Ledger!Init /\ LedgerInv
  OBVIOUS
<1>1. \A p \in Payments : payment[p].status = "absent" /\ payment[p].ticketId = None
  BY DEF Init, NoPayment
<1>2. Book = [p \in Payments |-> "absent"]
  BY <1>1, EntryIs DEF Book, PaymentStatus
<1>3. Owner = [p \in Payments |-> None] /\ Money = {} /\ SoldTickets = {}
  BY <1>1 DEF Init, Owner, Money, Charged, SoldTickets
<1>4. NoCheckUnderWay /\ NoRollbackUnderWay /\ ChainsSettled
  BY DEF Init, NoCheckUnderWay, NoRollbackUnderWay, ChainsSettled, ChainSettled, Idle, Handling
<1>5. TicketsOnSale /\ OpenAreMobile
  BY <1>1 DEF Init, TicketsOnSale, OpenAreMobile, OPEN
<1> QED BY <1>2, <1>3, <1>4, <1>5, InitInv
        DEF Ledger!Init, Book, Owner, Money, SoldTickets, LedgerInv

(* While no stale row of a payment is saved, a request about to sell or to   *)
(* release a ticket still has a payment that calls for it.                   *)
THEOREM LedgerInvariant == NoChecks /\ NoHttpErrors /\ Spec => []LedgerInv
<1> SUFFICES ASSUME NoChecks, NoHttpErrors PROVE Spec => []LedgerInv
  OBVIOUS
<1>1. LedgerInv /\ [Next]_vars => LedgerInv'
  BY LedgerInvNext
<1> QED BY <1>1, LedgerInit, PTL DEF Spec

(* initiate, cancel and callback keep a ledger: one open entry per ticket,   *)
(* each closed once, as paid only for money that has moved and with its      *)
(* ticket sold in the same step, for any number of tickets, payments and     *)
(* requests, also when requests stop and notifications are lost.             *)
THEOREM KelpayIsLedger == NoChecks /\ NoHttpErrors /\ Spec => ImplementsLedger
<1> SUFFICES ASSUME NoChecks, NoHttpErrors PROVE Spec => ImplementsLedger
  OBVIOUS
<1>1. Spec => []LedgerInv
  BY LedgerInvariant, PTL
<1> QED BY <1>1, LedgerInit, LedgerStep, PTL DEF Spec, ImplementsLedger, Ledger!Spec
=============================================================================
