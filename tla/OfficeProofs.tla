---------------------------- MODULE OfficeProofs ----------------------------
(***************************************************************************)
(* Proofs about the whole ticket office, Kelpay and counter sales together:*)
(* whom a sold ticket is sold for, what a ticket's link names, what leaves *)
(* a reservation behind, and that the office implements SaleAuthority.     *)
(***************************************************************************)
EXTENDS OfficeInvariant, TLAPS

LEMMA EmptyRows == NoPayment \in PaymentRow /\ NoTicket \in TicketRow
BY DEF NoPayment, NoTicket, PaymentRow, TicketRow, PaymentStatus, TicketStatus

LEMMA HandlingIsTask ==
  ASSUME NEW label \in Label, NEW p \in Payments \cup {None}
  PROVE  Handling(label, p) \in Task
BY EmptyRows DEF Handling, Task, Label

LEMMA IdleIsTask == Idle \in Task
BY HandlingIsTask DEF Idle, Label

LEMMA IdleSound == Sound(Idle, payment, Backed)
BY DEF Sound, Idle, Handling, OnPayment, OnTicket, Buying, Selling, TicketNamed,
       TicketHeld, PaymentHeld

(* What a step may do to the payments so that a request elsewhere, holding  *)
(* rows it read before, is still sound.                                     *)
Grows(pay, pay2, backed, backed2) ==
  /\ backed \subseteq backed2
  /\ \A p \in Payments : pay[p].status # "absent" =>
       pay2[p].status # "absent" /\ pay2[p].ticketId = pay[p].ticketId

(* What every step of the office does: it keeps the invariant, the payments *)
(* grow, and either at most one payment gets a backing or at most one       *)
(* ticket row is written.                                                   *)
StepSound ==
  /\ OfficeInv'
  /\ Grows(payment, payment', Backed, Backed')
  /\ \/ /\ ticket' = ticket
        /\ Backed' = Backed \/ \E p \in Payments : Backed' = Backed \cup {p}
     \/ /\ Backed' = Backed
        /\ \E k \in Tickets : \A j \in Tickets \ {k} : ticket'[j] = ticket[j]

LEMMA LinkStable ==
  ASSUME NEW pay, NEW pay2, NEW backed, NEW backed2, NEW row, NEW k,
         row.paymentId \in Payments \cup {None},
         Grows(pay, pay2, backed, backed2), LinkSound(row, k, pay)
  PROVE  LinkSound(row, k, pay2)
BY DEF Grows, LinkSound

LEMMA SoundStable ==
  ASSUME NEW pay, NEW pay2, NEW backed, NEW backed2, NEW r \in Task,
         Grows(pay, pay2, backed, backed2), Sound(r, pay, backed)
  PROVE  Sound(r, pay2, backed2)
<1>1. LinkSound(r.ticketRow, r.k, pay) => LinkSound(r.ticketRow, r.k, pay2)
  BY LinkStable DEF Task, TicketRow
<1>2. TicketNamed \cup PaymentHeld \subseteq OnPayment
  BY DEF TicketNamed, PaymentHeld, OnPayment, OnTicket, Buying, Label
<1>. QED
  BY <1>1, <1>2 DEF Grows, Sound

(* What the invariant says of a request on a payment. *)
LEMMA UnderWay ==
  ASSUME OfficeInv, NEW t \in Tasks, task[t].pc \in OnPayment
  PROVE  /\ task[t] \in Task
         /\ task[t].p \in Payments
         /\ payment[task[t].p] \in PaymentRow
         /\ payment[task[t].p].status # "absent"
         /\ payment[task[t].p].ticketId \in Tickets
         /\ payment[task[t].p].status \in PAID => task[t].p \in Backed
         /\ Sound(task[t], payment, Backed)
<1>1. task[t] \in Task /\ Sound(task[t], payment, Backed)
  BY DEF OfficeInv, TypeOK, TasksSound
<1>. QED
  BY <1>1 DEF OfficeInv, TypeOK, PaymentsSound, Sound, Backed

(* ... and of one on a ticket. *)
LEMMA AtCounter ==
  ASSUME OfficeInv, NEW t \in Tasks, task[t].pc \in OnTicket
  PROVE  /\ task[t] \in Task
         /\ task[t].k \in Tickets
         /\ Sound(task[t], payment, Backed)
BY DEF OfficeInv, TypeOK, TasksSound, Sound

-----------------------------------------------------------------------------
(* A step that only moves one request on keeps the invariant if the record  *)
(* it leaves in the slot is a sound task.                                   *)
LEMMA MoveStep ==
  ASSUME OfficeInv, NEW t \in Tasks, NEW STATE r, r \in Task,
         Sound(r, payment, Backed),
         Become(t, r), UNCHANGED <<ticket, payment, gateway, callbacks, approved>>
  PROVE  StepSound
<1>1. TypeOK'
  BY DEF OfficeInv, TypeOK, Become
<1>2. Backed' = Backed
  BY DEF Backed, Authorised, Charged
<1>3. /\ approved' \subseteq Payments
      /\ PaymentsSound' /\ CallbacksSound' /\ LinksSound' /\ SoldIsAuthorised'
  BY DEF OfficeInv, PaymentsSound, CallbacksSound, LinksSound, LinkSound,
         SoldIsAuthorised, Authorised, Charged
<1>4. TasksSound'
  <2>. SUFFICES ASSUME NEW s \in Tasks PROVE Sound(task'[s], payment, Backed)
    BY <1>2 DEF TasksSound
  <2>1. task'[s] = r \/ task'[s] = task[s]
    BY DEF OfficeInv, TypeOK, Become
  <2>. QED
    BY <2>1 DEF OfficeInv, TasksSound
<1>. QED
  BY <1>1, <1>2, <1>3, <1>4 DEF OfficeInv, StepSound, Grows

LEMMA FinishStep ==
  ASSUME OfficeInv, NEW t \in Tasks, Finish(t),
         UNCHANGED <<ticket, payment, gateway, callbacks, approved>>
  PROVE  StepSound
BY MoveStep, IdleIsTask, IdleSound DEF Finish

LEMMA HandlingSound ==
  ASSUME NEW STATE label, label \in OnPayment, NEW STATE p, p \in Payments,
         payment[p].status # "absent",
         label \notin TicketNamed \cup PaymentHeld,
         label \in Selling => p \in Backed
  PROVE  Handling(label, p) \in Task /\ Sound(Handling(label, p), payment, Backed)
<1>1. Handling(label, p) \in Task
  BY HandlingIsTask DEF OnPayment
<1>2. label \notin Buying \cup OnTicket \cup TicketHeld
         \cup {"purchaseLink", "purchaseUndo", "checkSave"}
  BY DEF OnPayment, OnTicket, Buying, TicketHeld, TicketNamed, PaymentHeld
<1>. QED
  BY <1>1, <1>2 DEF Sound, Handling

LEMMA HandlingStep ==
  ASSUME OfficeInv, NEW t \in Tasks,
         NEW STATE label, label \in OnPayment, NEW STATE p, p \in Payments,
         payment[p].status # "absent",
         label \notin TicketNamed \cup PaymentHeld,
         label \in Selling => p \in Backed,
         Become(t, Handling(label, p)),
         UNCHANGED <<ticket, payment, gateway, callbacks, approved>>
  PROVE  StepSound
BY HandlingSound, MoveStep
-----------------------------------------------------------------------------
(* The steps of KelpayFlow that only move a request on. *)
LEMMA LabelSets ==
  /\ OnPayment = {"initiateHttp", "initiatePersist", "rollbackRead", "rollbackSave",
                  "checkHttp", "checkRead", "checkSave", "finalizeSuccess",
                  "finalizeFailure", "cancelCommit", "completedRead", "soldRead",
                  "soldSave", "failedRead", "releaseRead", "releaseSave",
                  "completeSave", "statusSave"}
  /\ OnTicket = {"purchaseReserve", "purchaseCreate", "purchaseLink",
                 "purchaseUndo", "removeRow"}
  /\ TicketHeld = {"purchaseReserve", "purchaseCreate", "purchaseLink",
                   "purchaseUndo", "soldSave", "releaseSave"}
BY DEF OnPayment, OnTicket, Buying, Label, TicketHeld

LEMMA InitiateAnswerSteps ==
  ASSUME OfficeInv, NEW t \in Tasks, UNCHANGED approved,
         \/ InitiateAccepted(t) \/ InitiateRefused(t) \/ InitiateHttpError(t)
  PROVE  StepSound
<1>0. task[t].pc \in OnPayment
  BY LabelSets DEF InitiateAccepted, InitiateRefused, InitiateHttpError
<1>1. CASE InitiateAccepted(t)
  <2>1. PICK next \in {"idle", "finalizeFailure"} :
          Become(t, [Handling("initiatePersist", task[t].p) EXCEPT !.then = next])
    BY <1>1 DEF InitiateAccepted
  <2>. DEFINE r == [Handling("initiatePersist", task[t].p) EXCEPT !.then = next]
  <2>2. r \in Task
    BY <1>0, UnderWay, EmptyRows DEF Handling, Task, Label
  <2>3. Sound(r, payment, Backed)
    BY <1>0, UnderWay, LabelSets DEF Handling, Sound, Buying, Selling, TicketNamed, PaymentHeld
  <2>. QED
    BY <1>1, <2>1, <2>2, <2>3, MoveStep DEF InitiateAccepted
<1>2. CASE InitiateRefused(t)
  BY <1>0, <1>2, UnderWay, HandlingStep, LabelSets
     DEF InitiateRefused, Selling, TicketNamed, PaymentHeld
<1>3. CASE InitiateHttpError(t)
  BY <1>0, <1>3, UnderWay, HandlingStep, LabelSets
     DEF InitiateHttpError, Selling, TicketNamed, PaymentHeld
<1>. QED
  BY <1>1, <1>2, <1>3

LEMMA StartSteps ==
  ASSUME OfficeInv, NEW t \in Tasks, NEW p \in Payments, UNCHANGED approved,
         \/ StartVerify(t, p) \/ StartConfirm(t, p) \/ StartCancel(t, p)
  PROVE  StepSound
<1>1. CASE StartVerify(t, p) \/ StartConfirm(t, p)
  BY <1>1, HandlingStep, LabelSets
     DEF StartVerify, StartConfirm, Checkable, Selling, TicketNamed, PaymentHeld
<1>2. CASE StartCancel(t, p)
  BY <1>2, HandlingStep, LabelSets DEF StartCancel, OPEN, Selling, TicketNamed, PaymentHeld
<1>. QED
  BY <1>1, <1>2

LEMMA RereadSteps ==
  ASSUME OfficeInv, NEW t \in Tasks, UNCHANGED approved,
         \/ RollbackRead(t) \/ CheckAnswered(t) \/ CheckHttpError(t) \/ CheckRead(t)
  PROVE  StepSound
<1>0. task[t].pc \in OnPayment
  BY LabelSets DEF RollbackRead, CheckAnswered, CheckHttpError, CheckRead
<1>1. CASE RollbackRead(t)
  <2>. DEFINE r == [Handling("rollbackSave", task[t].p) EXCEPT
                      !.paymentRow = payment[task[t].p]]
  <2>1. r \in Task
    BY <1>0, UnderWay, EmptyRows DEF Handling, Task, Label
  <2>2. Sound(r, payment, Backed)
    BY <1>0, UnderWay, LabelSets DEF Handling, Sound, Buying, Selling, TicketNamed, PaymentHeld
  <2>. QED
    BY <1>1, <2>1, <2>2, MoveStep DEF RollbackRead
<1>2. CASE CheckAnswered(t)
  <2>1. PICK next \in Readings(task[t].p) :
          Become(t, [Handling("checkRead", task[t].p) EXCEPT !.then = next])
    BY <1>2 DEF CheckAnswered
  <2>2. /\ next \in {"idle", "finalizeSuccess", "finalizeFailure"}
        /\ next = "finalizeSuccess" => task[t].p \in Backed
    BY <1>0, <2>1, UnderWay
       DEF Readings, Outcomes, Backed, Authorised, Charged, OfficeInv, TypeOK, GatewayState
  <2>. DEFINE r == [Handling("checkRead", task[t].p) EXCEPT !.then = next]
  <2>3. r \in Task
    BY <1>0, <2>2, UnderWay, EmptyRows DEF Handling, Task, Label
  <2>4. Sound(r, payment, Backed)
    BY <1>0, <2>2, UnderWay, LabelSets
       DEF Handling, Sound, Buying, Selling, TicketNamed, PaymentHeld
  <2>. QED
    BY <1>2, <2>1, <2>3, <2>4, MoveStep DEF CheckAnswered
<1>3. CASE CheckHttpError(t)
  BY <1>3, FinishStep DEF CheckHttpError
<1>4. CASE CheckRead(t)
  <2>. DEFINE r == [task[t] EXCEPT !.pc = "checkSave", !.paymentRow = payment[task[t].p]]
  <2>1. r \in Task
    BY <1>0, UnderWay DEF Task, Label
  <2>2. Sound(r, payment, Backed)
    BY <1>0, UnderWay, LabelSets DEF Task, Sound, Buying, Selling, TicketNamed, PaymentHeld
  <2>. QED
    BY <1>4, <2>1, <2>2, MoveStep DEF CheckRead
<1>. QED
  BY <1>1, <1>2, <1>3, <1>4

LEMMA ChainReadSteps ==
  ASSUME OfficeInv, NEW t \in Tasks, UNCHANGED approved,
         \/ CompletedRead(t) \/ FailedRead(t) \/ SoldRead(t) \/ ReleaseRead(t)
  PROVE  StepSound
<1>. DEFINE p == task[t].p
            k == task[t].k
            At(label) == [Handling(label, p) EXCEPT !.k = payment[p].ticketId]
            Holding(label) == [task[t] EXCEPT !.pc = label, !.ticketRow = ticket[k]]
<1>0. task[t].pc \in OnPayment
  BY LabelSets DEF CompletedRead, FailedRead, SoldRead, ReleaseRead
<1>1. CASE CompletedRead(t)
  <2>1. At("soldRead") \in Task
    BY <1>0, UnderWay, EmptyRows DEF Handling, Task, Label
  <2>2. payment[p].status \in PAID => Sound(At("soldRead"), payment, Backed)
    BY <1>0, UnderWay, LabelSets DEF Handling, Sound, Buying, Selling, TicketNamed, PaymentHeld
  <2>. QED
    BY <1>1, <2>1, <2>2, MoveStep, FinishStep DEF CompletedRead
<1>2. CASE FailedRead(t)
  <2>1. At("releaseRead") \in Task
    BY <1>0, UnderWay, EmptyRows DEF Handling, Task, Label
  <2>2. Sound(At("releaseRead"), payment, Backed)
    BY <1>0, UnderWay, LabelSets DEF Handling, Sound, Buying, Selling, TicketNamed, PaymentHeld
  <2>. QED
    BY <1>2, <2>1, <2>2, MoveStep, FinishStep DEF FailedRead
<1>3. ASSUME task[t].pc \in {"soldRead", "releaseRead"}
      PROVE  /\ k \in Tickets
             /\ ticket[k] \in TicketRow
             /\ LinkSound(ticket[k], k, payment)
  <2>1. k \in Tickets
    BY <1>0, <1>3, UnderWay DEF Sound, TicketNamed
  <2>. QED
    BY <2>1 DEF OfficeInv, TypeOK, LinksSound
<1>4. CASE SoldRead(t)
  <2>1. Holding("soldSave") \in Task
    BY <1>0, <1>3, <1>4, UnderWay DEF SoldRead, Task, Label
  <2>2. Sound(Holding("soldSave"), payment, Backed)
    BY <1>0, <1>3, <1>4, UnderWay, LabelSets
       DEF SoldRead, Task, Sound, Buying, Selling, TicketNamed, PaymentHeld
  <2>. QED
    BY <1>4, <2>1, <2>2, MoveStep, FinishStep DEF SoldRead
<1>5. CASE ReleaseRead(t)
  <2>1. Holding("releaseSave") \in Task
    BY <1>0, <1>3, <1>5, UnderWay DEF ReleaseRead, Task, Label
  <2>2. Sound(Holding("releaseSave"), payment, Backed)
    BY <1>0, <1>3, <1>5, UnderWay, LabelSets
       DEF ReleaseRead, Task, Sound, Buying, Selling, TicketNamed, PaymentHeld
  <2>. QED
    BY <1>5, <2>1, <2>2, MoveStep, FinishStep DEF ReleaseRead
<1>. QED
  BY <1>1, <1>2, <1>4, <1>5
-----------------------------------------------------------------------------
(* The steps of CounterSales that only move a request on. *)
LEMMA CounterReads ==
  ASSUME OfficeInv, NEW t \in Tasks,
         \/ \E k \in Tickets, m \in PurchaseMethods : StartPurchase(t, k, m)
         \/ \E k \in Tickets : StartRemove(t, k)
         \/ PurchaseFails(t)
  PROVE  StepSound
<1>1. ASSUME NEW k \in Tickets, NEW m \in PurchaseMethods, StartPurchase(t, k, m)
      PROVE  StepSound
  <2>. DEFINE r == [Idle EXCEPT !.pc = "purchaseReserve", !.k = k,
                                !.paymentRow = [NoPayment EXCEPT !.method = m],
                                !.ticketRow = [ticket[k] EXCEPT !.status = "reserved"]]
  <2>1. /\ ticket[k] \in TicketRow
        /\ LinkSound(ticket[k], k, payment)
        /\ m \in {"mobile_money", "card"}
    BY CounterAssumption DEF OfficeInv, TypeOK, LinksSound
  <2>2. r \in Task
    <3>1. [NoPayment EXCEPT !.method = m] \in PaymentRow
      BY <2>1 DEF NoPayment, PaymentRow, PaymentStatus
    <3>2. [ticket[k] EXCEPT !.status = "reserved"] \in TicketRow
      BY <2>1 DEF TicketRow, TicketStatus
    <3>. QED
      BY <3>1, <3>2 DEF Idle, Handling, Task, Label
  <2>3. Sound(r, payment, Backed)
    BY <2>1, LabelSets
       DEF Idle, Handling, Sound, LinkSound, TicketRow, Buying, Selling, TicketNamed, PaymentHeld
  <2>. QED
    BY <1>1, <2>2, <2>3, MoveStep DEF StartPurchase
<1>2. ASSUME NEW k \in Tickets, StartRemove(t, k)
      PROVE  StepSound
  <2>. DEFINE r == [Idle EXCEPT !.pc = "removeRow", !.k = k]
  <2>1. r \in Task
    BY EmptyRows DEF Idle, Handling, Task, Label
  <2>2. Sound(r, payment, Backed)
    BY LabelSets DEF Idle, Handling, Sound, Buying, Selling, TicketNamed, PaymentHeld
  <2>. QED
    BY <1>2, <2>1, <2>2, MoveStep DEF StartRemove
<1>3. CASE PurchaseFails(t)
  <2>1. task[t].pc \in OnTicket
    BY <1>3, LabelSets DEF PurchaseFails
  <2>2. PurchaseUndone(t) \in Task
    BY <2>1, AtCounter, EmptyRows
       DEF PurchaseUndone, Idle, Handling, Task, Label, TicketRow, TicketStatus
  <2>3. Sound(PurchaseUndone(t), payment, Backed)
    BY <2>1, AtCounter, LabelSets
       DEF PurchaseUndone, Idle, Handling, Sound, LinkSound, Buying, Selling, TicketNamed,
           PaymentHeld
  <2>. QED
    BY <1>3, <2>2, <2>3, MoveStep DEF PurchaseFails
<1>. QED
  BY <1>1, <1>2, <1>3

LEMMA StaffReads ==
  ASSUME OfficeInv, NEW t \in Tasks, NEW p \in Payments,
         \/ StartComplete(t, p)
         \/ \E s \in StaffStatuses : StartUpdateStatus(t, p, s) \/ Webhook(t, p, s)
  PROVE  StepSound
<1>0. payment[p] \in PaymentRow
  BY DEF OfficeInv, TypeOK
<1>1. ASSUME NEW label \in {"completeSave", "statusSave"}, NEW row \in PaymentRow,
             payment[p].status # "absent",
             row.status # "absent", row.ticketId = payment[p].ticketId,
             Become(t, [Handling(label, p) EXCEPT !.paymentRow = row]),
             UNCHANGED <<ticket, payment, gateway, callbacks, approved>>
      PROVE  StepSound
  <2>. DEFINE r == [Handling(label, p) EXCEPT !.paymentRow = row]
  <2>1. r \in Task
    BY <1>1, EmptyRows DEF Handling, Task, Label
  <2>2. Sound(r, payment, Backed)
    BY <1>1, LabelSets DEF Handling, Sound, Buying, Selling, TicketNamed, PaymentHeld
  <2>. QED
    BY <1>1, <2>1, <2>2, MoveStep
<1>2. CASE StartComplete(t, p)
  <2>1. PICK tx \in BOOLEAN :
          Become(t, [Handling("completeSave", p) EXCEPT
                       !.paymentRow = [payment[p] EXCEPT !.status = "completed",
                                                         !.transactionId = @ \/ tx]])
    BY <1>2 DEF StartComplete
  <2>. DEFINE b == payment[p].transactionId \/ tx
              row == [payment[p] EXCEPT !.status = "completed", !.transactionId = b]
  <2>2. Become(t, [Handling("completeSave", p) EXCEPT !.paymentRow = row])
    BY <2>1
  <2>3. b \in BOOLEAN
    OBVIOUS
  <2>. HIDE DEF b
  <2>4. row \in PaymentRow /\ row.status = "completed" /\ row.ticketId = payment[p].ticketId
    BY <1>0, <2>3 DEF PaymentRow, PaymentStatus
  <2>. HIDE DEF row
  <2>5. payment[p].status # "absent" /\ UNCHANGED <<ticket, payment, gateway, callbacks, approved>>
    BY <1>2 DEF StartComplete, OPEN
  <2>. QED
    BY <1>1, <2>2, <2>4, <2>5
<1>3. ASSUME NEW s \in StaffStatuses, StartUpdateStatus(t, p, s)
      PROVE  StepSound
  <2>. DEFINE row == [payment[p] EXCEPT !.status = s]
  <2>1. row \in PaymentRow /\ row.status = s /\ row.ticketId = payment[p].ticketId
        /\ s # "absent"
    BY <1>0, CounterAssumption DEF PaymentRow, PaymentStatus
  <2>. HIDE DEF row
  <2>. QED
    BY <1>1, <1>3, <2>1 DEF StartUpdateStatus, row
<1>4. ASSUME NEW s \in StaffStatuses, Webhook(t, p, s)
      PROVE  StepSound
  <2>1. HandlerOf(s) \in {"completedRead", "failedRead"}
    BY <1>4 DEF Webhook, HandlerOf, PAID, LOST
  <2>. QED
    BY <1>4, <2>1, HandlingStep, LabelSets DEF Webhook, Selling, TicketNamed, PaymentHeld
<1>. QED
  BY <1>2, <1>3, <1>4
-----------------------------------------------------------------------------
(* A step that writes the tables keeps every other request sound if the     *)
(* payments grow; what is left to show is about the rows it wrote.          *)
LEMMA GrowStep ==
  ASSUME OfficeInv, TypeOK', approved' \subseteq Payments,
         NEW t \in Tasks, NEW STATE r, r \in Task, Become(t, r),
         Grows(payment, payment', Backed, Backed'),
         Sound(r, payment', Backed'),
         PaymentsSound', CallbacksSound', LinksSound', SoldIsAuthorised'
  PROVE  OfficeInv'
<1>1. TasksSound'
  <2>. SUFFICES ASSUME NEW s \in Tasks PROVE Sound(task'[s], payment', Backed')
    BY DEF TasksSound
  <2>1. CASE task'[s] = r
    BY <2>1
  <2>2. CASE task'[s] = task[s]
    BY <2>2, SoundStable DEF OfficeInv, TypeOK, TasksSound
  <2>. QED
    BY <2>1, <2>2 DEF OfficeInv, TypeOK, Become
<1>. QED
  BY <1>1 DEF OfficeInv

LEMMA BackedExist ==
  ASSUME OfficeInv, NEW p \in Payments, Authorised(p)
  PROVE  payment[p].status # "absent"
BY DEF OfficeInv, PaymentsSound, Authorised, Charged

(* Tickets that nobody writes stay covered by the payments. *)
LEMMA TicketsKept ==
  ASSUME OfficeInv, Grows(payment, payment', Backed, Backed'), ticket' = ticket
  PROVE  LinksSound' /\ SoldIsAuthorised'
<1>1. SoldIsAuthorised'
  <2>. SUFFICES ASSUME NEW k \in Tickets, ticket[k].status = "sold"
                PROVE  \E p \in Payments : payment'[p].ticketId = k /\ p \in Backed'
    BY DEF SoldIsAuthorised, Backed
  <2>1. PICK p \in Payments : payment[p].ticketId = k /\ Authorised(p)
    BY DEF OfficeInv, SoldIsAuthorised
  <2>. QED
    BY <2>1, BackedExist DEF Grows, Backed
<1>2. LinksSound'
  <2>. SUFFICES ASSUME NEW k \in Tickets PROVE LinkSound(ticket[k], k, payment')
    BY DEF LinksSound
  <2>. QED
    BY LinkStable DEF OfficeInv, TypeOK, TicketRow, LinksSound
<1>. QED
  BY <1>1, <1>2

(* A step of a request that writes one payment that exists, and nothing     *)
(* else: the row keeps the ticket and is paid only if the payment is backed.*)
LEMMA PaymentWriteStep ==
  ASSUME OfficeInv, NEW t \in Tasks, NEW STATE p, p \in Payments,
         payment[p].status # "absent",
         NEW STATE row, row \in PaymentRow,
         row.status # "absent", row.ticketId = payment[p].ticketId,
         row.status \in PAID => p \in Backed \/ p \in approved',
         payment' = [payment EXCEPT ![p] = row],
         callbacks' \in SUBSET callbacks,
         approved' \in {approved, approved \cup {p}},
         NEW STATE r, r \in Task, Sound(r, payment, Backed), Become(t, r),
         UNCHANGED <<ticket, gateway>>
  PROVE  StepSound
<1>1. TypeOK' /\ approved' \subseteq Payments
  BY DEF OfficeInv, TypeOK, Become
<1>2. Backed \subseteq Backed'
  BY DEF Backed, Authorised, Charged
<1>3. Grows(payment, payment', Backed, Backed')
  BY <1>2 DEF Grows, OfficeInv, TypeOK
<1>4. PaymentsSound' /\ CallbacksSound'
  <2>1. payment[p].ticketId \in Tickets
    BY DEF OfficeInv, PaymentsSound
  <2>2. CallbacksSound'
    BY DEF OfficeInv, CallbacksSound
  <2>3. PaymentsSound'
    BY <2>1 DEF OfficeInv, TypeOK, PaymentsSound, Backed, Authorised, Charged
  <2>. QED
    BY <2>2, <2>3
<1>5. Sound(r, payment', Backed')
  BY <1>3, SoundStable
<1>6. Backed' \in {Backed, Backed \cup {p}}
  BY DEF Backed, Authorised, Charged
<1>. QED
  BY <1>1, <1>3, <1>4, <1>5, <1>6, TicketsKept, GrowStep DEF StepSound

(* A step that writes one ticket row and nothing else. *)
LEMMA TicketWriteStep ==
  ASSUME OfficeInv, NEW t \in Tasks, NEW STATE k, k \in Tickets,
         NEW STATE row, row \in TicketRow,
         LinkSound(row, k, payment),
         row.status = "sold" =>
           \E p \in Payments : payment[p].ticketId = k /\ Authorised(p),
         ticket' = [ticket EXCEPT ![k] = row],
         NEW STATE r, r \in Task, Sound(r, payment, Backed), Become(t, r),
         UNCHANGED <<payment, gateway, callbacks, approved>>
  PROVE  StepSound
<1>1. TypeOK' /\ approved' \subseteq Payments
  BY DEF OfficeInv, TypeOK, Become
<1>2. Backed' = Backed
  BY DEF Backed, Authorised, Charged
<1>3. PaymentsSound' /\ CallbacksSound'
  BY DEF OfficeInv, PaymentsSound, CallbacksSound, Authorised, Charged
<1>4. SoldIsAuthorised'
  BY DEF OfficeInv, TypeOK, SoldIsAuthorised, Authorised, Charged
<1>5. LinksSound'
  BY DEF OfficeInv, TypeOK, LinksSound, LinkSound
<1>6. Grows(payment, payment', Backed, Backed')
  BY <1>2 DEF Grows
<1>. QED
  BY <1>1, <1>2, <1>3, <1>4, <1>5, <1>6, GrowStep DEF StepSound, OfficeInv, TypeOK
-----------------------------------------------------------------------------
(* The insert of a payment, by initiate or by purchase. *)
LEMMA InsertStep ==
  ASSUME OfficeInv, NEW t \in Tasks, NEW STATE p, p \in Payments,
         payment[p].status = "absent",
         NEW STATE row, row \in PaymentRow,
         row.status = "pending", row.ticketId \in Tickets,
         payment' = [payment EXCEPT ![p] = row],
         gateway' \in {gateway, [gateway EXCEPT ![p] = "sent"]},
         NEW STATE r, r \in Task, Sound(r, payment', Backed'), Become(t, r),
         UNCHANGED <<ticket, callbacks, approved>>
  PROVE  StepSound
<1>1. gateway[p] = "none" /\ p \notin approved
  BY DEF OfficeInv, PaymentsSound
<1>2. TypeOK' /\ approved' \subseteq Payments
  BY DEF OfficeInv, TypeOK, Become, GatewayState
<1>3. Grows(payment, payment', Backed, Backed')
  BY <1>1 DEF Grows, OfficeInv, TypeOK, Backed, Authorised, Charged
<1>4. PaymentsSound'
  BY <1>1 DEF OfficeInv, TypeOK, PaymentsSound, PAID, Authorised, Charged
<1>5. CallbacksSound'
  BY <1>1 DEF OfficeInv, TypeOK, CallbacksSound
<1>6. Backed' = Backed
  BY <1>1 DEF OfficeInv, TypeOK, Backed, Authorised, Charged
<1>. QED
  BY <1>2, <1>3, <1>4, <1>5, <1>6, TicketsKept, GrowStep DEF StepSound

LEMMA InitiateStep ==
  ASSUME OfficeInv, NEW t \in Tasks, NEW k \in Tickets, NEW p \in Payments,
         UNCHANGED approved, Initiate(t, k, p)
  PROVE  StepSound
<1>. DEFINE r == Handling("initiateHttp", p)
            row == [status |-> "pending", ticketId |-> k,
                    method |-> "mobile_money", transactionId |-> FALSE]
<1>1. r \in Task
  BY HandlingIsTask DEF Label
<1>2. row \in PaymentRow
  BY DEF PaymentRow, PaymentStatus
<1>3. Sound(r, payment', Backed')
  BY LabelSets
     DEF Sound, Handling, Buying, Selling, TicketNamed, PaymentHeld, Initiate, OfficeInv, TypeOK
<1>. QED
  BY <1>1, <1>2, <1>3, InsertStep DEF Initiate

LEMMA PurchaseCreateStep ==
  ASSUME OfficeInv, NEW t \in Tasks, NEW p \in Payments, PurchaseCreate(t, p)
  PROVE  StepSound
<1>. DEFINE k == task[t].k
            row == [task[t].paymentRow EXCEPT !.status = "pending", !.ticketId = k]
            r == [task[t] EXCEPT !.pc = "purchaseLink", !.p = p,
                                 !.paymentRow = NoPayment, !.ticketRow.paymentId = p]
<1>1. /\ task[t].pc = "purchaseCreate"
      /\ payment[p].status = "absent"
      /\ payment' = [payment EXCEPT ![p] = row]
      /\ Become(t, r)
      /\ UNCHANGED <<ticket, gateway, callbacks, approved>>
  BY DEF PurchaseCreate
<1>2. task[t] \in Task /\ k \in Tickets /\ Sound(task[t], payment, Backed)
  BY <1>1, AtCounter, LabelSets
<1>3. row \in PaymentRow /\ row.status = "pending" /\ row.ticketId = k
  BY <1>2 DEF Task, PaymentRow, PaymentStatus
<1>4. r \in Task
  BY <1>2, EmptyRows DEF Task, Label, TicketRow
<1>5. /\ r.pc = "purchaseLink" /\ r.k = k /\ r.then = task[t].then
      /\ r.ticketRow.paymentId = p
      /\ r.ticketRow.status = task[t].ticketRow.status
  BY <1>2 DEF Task, TicketRow
<1>6. payment'[p] = row
  BY <1>1 DEF OfficeInv, TypeOK
<1>7. LinkSound(r.ticketRow, r.k, payment')
  BY <1>3, <1>5, <1>6 DEF LinkSound
<1>8. Sound(r, payment', Backed')
  <2>1. r.then = "idle" /\ r.ticketRow.status \in {"reserved", "available"} /\ p # None
    BY <1>1, <1>2, <1>5, LabelSets, ConstantsAssumption DEF Sound, Buying
  <2>. HIDE DEF r
  <2>. QED
    BY <1>2, <1>5, <1>7, <2>1, LabelSets DEF Sound, Buying, Selling, TicketNamed, PaymentHeld
<1>. HIDE DEF row, r
<1>. QED
  BY <1>1, <1>2, <1>3, <1>4, <1>8, InsertStep
-----------------------------------------------------------------------------
(* The steps that write a payment that exists. *)
LEMMA CloseStep ==
  ASSUME OfficeInv, NEW t \in Tasks, task[t].pc \in OnPayment, UNCHANGED approved,
         NEW status \in LOST, Close(t, status)
  PROVE  StepSound
<1>. DEFINE p == task[t].p
<1>1. CASE payment[p].status \in OPEN
  <2>. DEFINE row == [payment[p] EXCEPT !.status = status]
              r == Handling("failedRead", p)
  <2>1. payment' = [payment EXCEPT ![p] = row] /\ Become(t, r)
        /\ UNCHANGED <<ticket, gateway, callbacks>>
    BY <1>1 DEF Close
  <2>2. row \in PaymentRow /\ row.status # "absent" /\ row.status \notin PAID
        /\ row.ticketId = payment[p].ticketId
    BY UnderWay DEF PaymentRow, PaymentStatus, LOST, PAID
  <2>3. r \in Task /\ Sound(r, payment, Backed)
    BY UnderWay, HandlingSound, LabelSets DEF Selling, TicketNamed, PaymentHeld
  <2>. QED
    BY <2>1, <2>2, <2>3, UnderWay, PaymentWriteStep
<1>2. CASE payment[p].status \notin OPEN
  BY <1>2, FinishStep DEF Close
<1>. QED
  BY <1>1, <1>2

LEMMA ContinueSound ==
  ASSUME OfficeInv, NEW t \in Tasks, task[t].pc \in OnPayment, Continue(t)
  PROVE  \E label \in {"idle", "finalizeSuccess", "finalizeFailure"} :
           \E q \in {task[t].p, None} :
           /\ Handling(label, q) \in Task
           /\ Sound(Handling(label, q), payment, Backed)
           /\ Become(t, Handling(label, q))
<1>1. CASE task[t].then = "idle"
  BY <1>1, IdleIsTask, IdleSound DEF Continue, Finish, Idle
<1>2. CASE task[t].then # "idle"
  <2>1. /\ task[t].then \in {"finalizeSuccess", "finalizeFailure"}
        /\ task[t].then = "finalizeSuccess" => task[t].p \in Backed
        /\ task[t].p \in Payments
        /\ payment[task[t].p].status # "absent"
    BY <1>2, UnderWay DEF Sound
  <2>2. /\ Handling(task[t].then, task[t].p) \in Task
        /\ Sound(Handling(task[t].then, task[t].p), payment, Backed)
    BY <2>1, HandlingSound, LabelSets DEF Selling, TicketNamed, PaymentHeld
  <2>. QED
    BY <1>2, <2>1, <2>2 DEF Continue
<1>. QED
  BY <1>1, <1>2

LEMMA JournalSteps ==
  ASSUME OfficeInv, NEW t \in Tasks, UNCHANGED approved,
         InitiatePersist(t) \/ RollbackSave(t) \/ CheckSave(t)
  PROVE  StepSound
<1>. DEFINE p == task[t].p
<1>0. task[t].pc \in OnPayment
  BY LabelSets DEF InitiatePersist, RollbackSave, CheckSave
<1>1. CASE InitiatePersist(t)
  <2>. DEFINE b == payment[p].transactionId \/ task[t].then = "idle"
              row == [payment[p] EXCEPT !.transactionId = b]
  <2>1. payment' = [payment EXCEPT ![p] = row]
    BY <1>1 DEF InitiatePersist
  <2>2. b \in BOOLEAN
    OBVIOUS
  <2>. HIDE DEF b
  <2>3. row \in PaymentRow /\ row.status = payment[p].status
        /\ row.ticketId = payment[p].ticketId
    BY <1>0, <2>2, UnderWay DEF PaymentRow
  <2>. HIDE DEF row
  <2>4. Continue(t) /\ UNCHANGED <<ticket, gateway, callbacks>>
    BY <1>1 DEF InitiatePersist
  <2>. QED
    BY <1>0, <2>1, <2>3, <2>4, UnderWay, ContinueSound, PaymentWriteStep
<1>2. CASE RollbackSave(t)
  <2>. DEFINE row == [task[t].paymentRow EXCEPT !.status = "failed"]
  <2>1. payment' = [payment EXCEPT ![p] = row] /\ Become(t, Handling("failedRead", p))
        /\ UNCHANGED <<ticket, gateway, callbacks>>
    BY <1>2 DEF RollbackSave
  <2>2. row \in PaymentRow /\ row.status = "failed" /\ row.status \notin PAID
        /\ row.ticketId = payment[p].ticketId
    BY <1>0, <1>2, UnderWay
       DEF RollbackSave, Task, PaymentRow, PaymentStatus, PAID, Sound, PaymentHeld
  <2>3. /\ Handling("failedRead", p) \in Task
        /\ Sound(Handling("failedRead", p), payment, Backed)
    BY <1>0, UnderWay, HandlingSound, LabelSets DEF Selling, TicketNamed, PaymentHeld
  <2>. QED
    BY <1>0, <2>1, <2>2, <2>3, UnderWay, PaymentWriteStep
<1>3. CASE CheckSave(t)
  <2>. DEFINE row == task[t].paymentRow
  <2>1. /\ payment' = [payment EXCEPT ![p] = row]
        /\ task[t].pc = "checkSave"
        /\ Continue(t)
        /\ UNCHANGED <<ticket, gateway, callbacks>>
    BY <1>3 DEF CheckSave
  <2>2. /\ row \in PaymentRow
        /\ row.status # "absent"
        /\ row.ticketId = payment[p].ticketId
        /\ row.status \in PAID => p \in Backed
    BY <1>0, <2>1, UnderWay DEF Sound, Task, PaymentHeld
  <2>. QED
    BY <1>0, <2>1, <2>2, UnderWay, ContinueSound, PaymentWriteStep
<1>. QED
  BY <1>1, <1>2, <1>3

LEMMA CallbackStep ==
  ASSUME OfficeInv, NEW t \in Tasks, NEW p \in Payments, UNCHANGED approved,
         ReceiveCallback(t, p)
  PROVE  StepSound
<1>. DEFINE row == [payment[p] EXCEPT !.transactionId = TRUE]
<1>1. gateway[p] \in {"charged", "declined"}
  BY DEF ReceiveCallback, OfficeInv, CallbacksSound
<1>2. payment[p].status # "absent" /\ payment[p] \in PaymentRow
      /\ (payment[p].status \in PAID => p \in Backed)
  BY <1>1 DEF OfficeInv, TypeOK, PaymentsSound, Backed
<1>3. row \in PaymentRow /\ row.status = payment[p].status
      /\ row.ticketId = payment[p].ticketId
  BY <1>2 DEF PaymentRow
<1>4. PICK next \in Outcomes(p) : Become(t, Handling(next, p))
  BY DEF ReceiveCallback
<1>5. /\ next \in {"finalizeSuccess", "finalizeFailure"}
      /\ next = "finalizeSuccess" => p \in Backed
  BY <1>1, <1>4 DEF Outcomes, Backed, Authorised, Charged
<1>6. Handling(next, p) \in Task /\ Sound(Handling(next, p), payment, Backed)
  BY <1>2, <1>5, HandlingSound, LabelSets DEF Selling, TicketNamed, PaymentHeld
<1>7. payment' = [payment EXCEPT ![p] = row] /\ callbacks' \in SUBSET callbacks
      /\ UNCHANGED <<ticket, gateway>>
  BY DEF ReceiveCallback
<1>. QED
  BY <1>2, <1>3, <1>4, <1>6, <1>7, PaymentWriteStep

LEMMA StaffSaveStep ==
  ASSUME OfficeInv, NEW t \in Tasks, StaffSave(t)
  PROVE  StepSound
<1>. DEFINE p == task[t].p
            row == task[t].paymentRow
            s == row.status
<1>0. task[t].pc \in {"completeSave", "statusSave"} /\ task[t].pc \in OnPayment
  BY LabelSets DEF StaffSave
<1>1. /\ p \in Payments
      /\ payment[p].status # "absent"
      /\ row \in PaymentRow
      /\ s # "absent"
      /\ row.ticketId = payment[p].ticketId
  BY <1>0, UnderWay DEF Sound, Task, PaymentHeld
<1>2. /\ payment' = [payment EXCEPT ![p] = row]
      /\ approved' = IF s \in PAID THEN approved \cup {p} ELSE approved
      /\ UNCHANGED <<ticket, gateway, callbacks>>
  BY DEF StaffSave
<1>3. /\ approved' \in {approved, approved \cup {p}}
      /\ s \in PAID => p \in approved'
  BY <1>2
<1>4. HandlerOf(s) \in {"completedRead", "failedRead", "idle"}
  BY DEF HandlerOf
<1>5. \E r \in Task : Sound(r, payment, Backed) /\ Become(t, r)
  <2>1. CASE HandlerOf(s) = "idle"
    BY <2>1, IdleIsTask, IdleSound DEF StaffSave, Finish
  <2>2. CASE HandlerOf(s) # "idle"
    <3>1. Become(t, Handling(HandlerOf(s), p))
      BY <2>2 DEF StaffSave
    <3>2. /\ Handling(HandlerOf(s), p) \in Task
          /\ Sound(Handling(HandlerOf(s), p), payment, Backed)
      BY <1>1, <1>4, <2>2, HandlingSound, LabelSets DEF Selling, TicketNamed, PaymentHeld
    <3>. QED
      BY <3>1, <3>2
  <2>. QED
    BY <2>1, <2>2
<1>. QED
  BY <1>1, <1>2, <1>3, <1>5, PaymentWriteStep
-----------------------------------------------------------------------------
(* The steps that write a ticket and no payment. *)
LEMMA CounterSaves ==
  ASSUME OfficeInv, NEW t \in Tasks,
         PurchaseReserve(t) \/ PurchaseLink(t) \/ PurchaseUndo(t) \/ RemoveRow(t)
  PROVE  StepSound
<1>. DEFINE k == task[t].k
<1>0. task[t].pc \in OnTicket
  BY LabelSets DEF PurchaseReserve, PurchaseLink, PurchaseUndo, RemoveRow
<1>1. /\ task[t] \in Task /\ k \in Tickets /\ task[t].ticketRow \in TicketRow
      /\ Sound(task[t], payment, Backed)
  BY <1>0, AtCounter DEF Task
<1>2. task[t].pc \in Buying => /\ LinkSound(task[t].ticketRow, k, payment)
                               /\ task[t].ticketRow.status # "sold"
  BY <1>1, LabelSets DEF Sound, Buying
<1>3. CASE PurchaseReserve(t)
  <2>. DEFINE r == [task[t] EXCEPT !.pc = "purchaseCreate"]
  <2>1. r \in Task
    BY <1>1 DEF Task, Label
  <2>2. Sound(r, payment, Backed)
    BY <1>1, <1>3, LabelSets
       DEF PurchaseReserve, Task, Sound, Buying, Selling, TicketNamed, PaymentHeld
  <2>. QED
    BY <1>1, <1>2, <1>3, <2>1, <2>2, TicketWriteStep DEF PurchaseReserve, Buying
<1>4. CASE PurchaseLink(t)
  <2>1. PurchaseUndone(t) \in Task
    BY <1>1, EmptyRows DEF PurchaseUndone, Idle, Handling, Task, Label, TicketRow, TicketStatus
  <2>2. Sound(PurchaseUndone(t), payment, Backed)
    BY <1>1, LabelSets
       DEF PurchaseUndone, Idle, Handling, Sound, LinkSound, Buying, Selling, TicketNamed,
           PaymentHeld
  <2>. QED
    BY <1>1, <1>2, <1>4, <2>1, <2>2, IdleIsTask, IdleSound, TicketWriteStep
       DEF PurchaseLink, Buying, Finish
<1>5. CASE PurchaseUndo(t)
  BY <1>1, <1>2, <1>5, IdleIsTask, IdleSound, TicketWriteStep DEF PurchaseUndo, Buying, Finish
<1>6. CASE RemoveRow(t)
  <2>1. LinkSound(NoTicket, k, payment) /\ NoTicket.status # "sold"
    BY DEF LinkSound, NoTicket
  <2>. QED
    BY <1>1, <1>6, <2>1, EmptyRows, IdleIsTask, IdleSound, TicketWriteStep
       DEF RemoveRow, Finish
<1>. QED
  BY <1>3, <1>4, <1>5, <1>6

(* A purchase whose own save fails writes nothing. *)
LEMMA PurchaseEnds ==
  ASSUME OfficeInv, NEW t \in Tasks, PurchaseGivesUp(t)
  PROVE  StepSound
BY FinishStep DEF PurchaseGivesUp

LEMMA ChainSaveSteps ==
  ASSUME OfficeInv, NEW t \in Tasks, UNCHANGED approved, SoldSave(t) \/ ReleaseSave(t)
  PROVE  StepSound
<1>. DEFINE k == task[t].k
<1>0. task[t].pc \in {"soldSave", "releaseSave"} /\ task[t].pc \in OnPayment
  BY LabelSets DEF SoldSave, ReleaseSave
<1>1. /\ k = payment[task[t].p].ticketId
      /\ k \in Tickets
      /\ task[t].ticketRow \in TicketRow
      /\ LinkSound(task[t].ticketRow, k, payment)
  BY <1>0, UnderWay, LabelSets DEF Sound, TicketNamed, Task
<1>2. CASE SoldSave(t)
  <2>. DEFINE row == [task[t].ticketRow EXCEPT !.status = "sold"]
  <2>1. row \in TicketRow /\ row.paymentId = task[t].ticketRow.paymentId
    BY <1>1 DEF TicketRow, TicketStatus
  <2>2. LinkSound(row, k, payment)
    BY <1>1, <2>1 DEF LinkSound
  <2>3. task[t].p \in Payments /\ Authorised(task[t].p)
    BY <1>0, <1>2, UnderWay DEF SoldSave, Sound, Selling, Backed
  <2>. QED
    BY <1>1, <1>2, <2>1, <2>2, <2>3, IdleIsTask, IdleSound, TicketWriteStep
       DEF SoldSave, Finish
<1>3. CASE ReleaseSave(t)
  <2>. DEFINE row == [task[t].ticketRow EXCEPT !.status = "available", !.paymentId = None]
  <2>1. row \in TicketRow /\ row.paymentId = None /\ row.status = "available"
    BY <1>1 DEF TicketRow, TicketStatus
  <2>2. LinkSound(row, k, payment)
    BY <2>1 DEF LinkSound
  <2>. QED
    BY <1>1, <1>3, <2>1, <2>2, IdleIsTask, IdleSound, TicketWriteStep
       DEF ReleaseSave, Finish
<1>. QED
  BY <1>2, <1>3
-----------------------------------------------------------------------------
(* The sale of a Kelpay payment: payment and ticket are written together.   *)
LEMMA FinalizeSuccessStep ==
  ASSUME OfficeInv, NEW t \in Tasks, UNCHANGED approved, FinalizeSuccess(t)
  PROVE  StepSound
<1>. DEFINE p == task[t].p
            k == payment[p].ticketId
<1>0. task[t].pc \in OnPayment
  BY LabelSets DEF FinalizeSuccess
<1>1. CASE payment[p].status \in OPEN
  <2>. DEFINE row == [payment[p] EXCEPT !.status = "success", !.transactionId = TRUE]
              r == Handling("completedRead", p)
  <2>1. /\ p \in Payments
        /\ k \in Tickets
        /\ p \in Backed
        /\ payment[p].status # "absent"
    BY <1>0, UnderWay DEF FinalizeSuccess, Sound, Selling
  <2>2. /\ payment' = [payment EXCEPT ![p] = row]
        /\ ticket' = Claimed(k, p)
        /\ Become(t, r)
        /\ UNCHANGED <<gateway, callbacks>>
    BY <1>1 DEF FinalizeSuccess
  <2>3. row \in PaymentRow /\ row.status = "success" /\ row.ticketId = k
    BY <1>0, UnderWay DEF PaymentRow, PaymentStatus
  <2>4. r \in Task /\ Sound(r, payment, Backed)
    BY <2>1, HandlingSound, LabelSets DEF Selling, TicketNamed, PaymentHeld
  <2>5. Backed' = Backed
    BY <2>2 DEF Backed, Authorised, Charged
  <2>6. Grows(payment, payment', Backed, Backed')
    BY <2>1, <2>2, <2>3, <2>5 DEF Grows, OfficeInv, TypeOK
  <2>7. ticket' \in [Tickets -> TicketRow]
    BY <2>1, <2>2 DEF OfficeInv, TypeOK, Claimed, TicketRow, TicketStatus
  <2>8. TypeOK' /\ approved' \subseteq Payments
    BY <2>1, <2>2, <2>3, <2>4, <2>7 DEF OfficeInv, TypeOK, Become
  <2>9. PaymentsSound' /\ CallbacksSound'
    BY <2>1, <2>2, <2>3
       DEF OfficeInv, TypeOK, PaymentsSound, CallbacksSound, Backed, Authorised, Charged
  <2>10. Sound(r, payment', Backed')
    BY <2>4, <2>6, SoundStable
  <2>11. payment'[p] = row
    BY <2>1, <2>2 DEF OfficeInv, TypeOK
  <2>12. SoldIsAuthorised' /\ LinksSound'
    <3>1. CASE Claimable(k, p)
      <4>1. ticket' = [ticket EXCEPT ![k] = [status |-> "sold", paymentId |-> p]]
        BY <2>2, <3>1 DEF Claimed
      <4>2. \A q \in Payments : payment'[q].ticketId = payment[q].ticketId
        BY <2>1, <2>2, <2>3 DEF OfficeInv, TypeOK
      <4>3. ASSUME NEW j \in Tickets, j # k
            PROVE  ticket'[j] = ticket[j]
        BY <4>1, <4>3 DEF OfficeInv, TypeOK
      <4>4. SoldIsAuthorised'
        <5>. SUFFICES ASSUME NEW j \in Tickets, ticket'[j].status = "sold"
                      PROVE  \E q \in Payments : payment'[q].ticketId = j /\ q \in Backed'
          BY DEF SoldIsAuthorised, Backed
        <5>1. CASE j = k
          BY <2>1, <2>3, <2>5, <2>11, <5>1
        <5>2. CASE j # k
          <6>1. PICK q \in Payments : payment[q].ticketId = j /\ q \in Backed
            BY <4>3, <5>2 DEF OfficeInv, SoldIsAuthorised, Backed
          <6>. QED
            BY <2>5, <4>2, <6>1
        <5>. QED
          BY <5>1, <5>2
      <4>5. LinksSound'
        <5>. SUFFICES ASSUME NEW j \in Tickets PROVE LinkSound(ticket'[j], j, payment')
          BY DEF LinksSound
        <5>1. CASE j = k
          BY <2>1, <2>3, <2>11, <4>1, <5>1 DEF LinkSound, OfficeInv, TypeOK
        <5>2. CASE j # k
          BY <2>6, <4>3, <5>2, LinkStable DEF OfficeInv, TypeOK, TicketRow, LinksSound
        <5>. QED
          BY <5>1, <5>2
      <4>. QED
        BY <4>4, <4>5
    <3>2. CASE ~Claimable(k, p)
      BY <2>2, <2>6, <3>2, TicketsKept DEF Claimed
    <3>. QED
      BY <3>1, <3>2
  <2>13. \A j \in Tickets \ {k} : ticket'[j] = ticket[j]
    BY <2>1, <2>2 DEF Claimed, OfficeInv, TypeOK
  <2>. QED
    BY <2>1, <2>2, <2>4, <2>5, <2>6, <2>8, <2>9, <2>10, <2>12, <2>13, GrowStep DEF StepSound
<1>2. CASE payment[p].status \notin OPEN
  BY <1>2, FinishStep DEF FinalizeSuccess
<1>. QED
  BY <1>1, <1>2

(* What happens at Kelpay only adds to what is backed. *)
LEMMA GatewaySteps ==
  ASSUME OfficeInv, Gateway, UNCHANGED approved
  PROVE  StepSound
<1>1. PICK p \in Payments :
        GatewayTakesPush(p) \/ GatewaySettles(p) \/ LoseCallback(p)
  BY DEF Gateway
<1>2. UNCHANGED <<ticket, payment, task>>
  BY <1>1 DEF GatewayTakesPush, GatewaySettles, LoseCallback
<1>3. TypeOK'
  BY <1>1 DEF GatewayTakesPush, GatewaySettles, LoseCallback, OfficeInv, TypeOK, GatewayState
<1>4. Grows(payment, payment', Backed, Backed')
  BY <1>1, <1>2 DEF GatewayTakesPush, GatewaySettles, LoseCallback, OfficeInv, TypeOK,
                    Grows, Backed, Authorised, Charged
<1>5. PaymentsSound'
  BY <1>1, <1>2 DEF GatewayTakesPush, GatewaySettles, LoseCallback, OfficeInv, TypeOK,
                    PaymentsSound, Authorised, Charged
<1>6. CallbacksSound'
  BY <1>1, <1>2 DEF GatewayTakesPush, GatewaySettles, LoseCallback, OfficeInv, TypeOK,
                    CallbacksSound
<1>7. TasksSound'
  BY <1>2, <1>4, SoundStable DEF OfficeInv, TypeOK, TasksSound
<1>8. Backed' \in {Backed, Backed \cup {p}}
  BY <1>1 DEF GatewayTakesPush, GatewaySettles, LoseCallback, OfficeInv, TypeOK,
              Backed, Authorised, Charged
<1>. QED
  BY <1>2, <1>3, <1>4, <1>5, <1>6, <1>7, <1>8, TicketsKept DEF OfficeInv, StepSound
-----------------------------------------------------------------------------
LEMMA InitInv == OfficeInit => OfficeInv
<1>. SUFFICES ASSUME OfficeInit PROVE OfficeInv
  OBVIOUS
<1>1. TypeOK
  BY EmptyRows, IdleIsTask DEF OfficeInit, Init, TypeOK, TicketRow, TicketStatus, GatewayState
<1>2. /\ approved \subseteq Payments /\ PaymentsSound /\ CallbacksSound
      /\ LinksSound /\ SoldIsAuthorised
  BY DEF OfficeInit, Init, PaymentsSound, CallbacksSound, LinksSound, LinkSound,
         SoldIsAuthorised, NoPayment, PAID
<1>3. TasksSound
  BY IdleSound DEF OfficeInit, Init, TasksSound
<1>. QED
  BY <1>1, <1>2, <1>3 DEF OfficeInv

LEMMA StutterInv == OfficeInv /\ UNCHANGED counterVars => StepSound
BY DEF StepSound, Grows, counterVars, OfficeInv, TypeOK, PaymentsSound, CallbacksSound, TasksSound, Backed,
       LinksSound, LinkSound, SoldIsAuthorised, Authorised, Charged

LEMMA KelpayInv ==
  ASSUME OfficeInv, Next, UNCHANGED approved
  PROVE  StepSound
<1>1. ASSUME NEW t \in Tasks, KelpayStart(t) PROVE StepSound
  <2>. PICK p \in Payments :
         \/ \E k \in Tickets : Initiate(t, k, p)
         \/ StartVerify(t, p) \/ StartConfirm(t, p) \/ StartCancel(t, p)
         \/ ReceiveCallback(t, p)
    BY <1>1 DEF KelpayStart
  <2>. QED
    BY InitiateStep, StartSteps, CallbackStep
<1>2. ASSUME NEW t \in Tasks, KelpayStep(t) PROVE StepSound
  <2>1. CASE FinalizeFailure(t)
    BY <2>1, CloseStep, LabelSets DEF FinalizeFailure, LOST
  <2>2. CASE CancelCommit(t)
    BY <2>2, CloseStep, LabelSets DEF CancelCommit, LOST
  <2>3. CASE WebhookChain(t)
    BY <2>3, ChainReadSteps, ChainSaveSteps DEF WebhookChain
  <2>. QED
    BY <1>2, <2>1, <2>2, <2>3, InitiateAnswerSteps, RereadSteps, JournalSteps,
       FinalizeSuccessStep DEF KelpayStep
<1>3. ASSUME NEW t \in Tasks, Abort(t) PROVE StepSound
  BY <1>3, FinishStep DEF Abort
<1>. QED
  BY <1>1, <1>2, <1>3, GatewaySteps DEF Next

LEMMA CounterInv ==
  ASSUME OfficeInv, CounterNext
  PROVE  StepSound
<1>1. ASSUME NEW t \in Tasks, CounterStart(t) PROVE StepSound
  BY <1>1, CounterReads, StaffReads DEF CounterStart
<1>2. ASSUME NEW t \in Tasks, CounterStep(t) PROVE StepSound
  BY <1>2, CounterReads, CounterSaves, PurchaseEnds, PurchaseCreateStep, StaffSaveStep
     DEF CounterStep
<1>. QED
  BY <1>1, <1>2 DEF CounterNext

LEMMA NextInv == OfficeInv /\ [OfficeNext]_counterVars => StepSound
BY KelpayInv, CounterInv, StutterInv DEF OfficeNext

(* Whatever the flows of the office read and save, in whatever order and    *)
(* however often, every row they still hold is harmless: the inductive      *)
(* invariant, for any number of tickets, payments and requests.             *)
THEOREM OfficeInvariantHolds == OfficeSpec => []OfficeInv
<1>1. OfficeInv /\ [OfficeNext]_counterVars => OfficeInv'
  BY NextInv DEF StepSound
<1>. QED
  BY <1>1, InitInv, PTL DEF OfficeSpec

(* A ticket is sold only for a payment of it that Kelpay charged or a       *)
(* person declared paid, whatever purchase, complete, updateStatus, the     *)
(* webhook and the Kelpay routes overwrite of each other.                   *)
THEOREM SoldOnlyIfAuthorised == OfficeSpec => []SoldIsAuthorised
<1>1. OfficeInv => SoldIsAuthorised
  BY DEF OfficeInv
<1>. QED
  BY <1>1, OfficeInvariantHolds, PTL

(* tickets.paymentId never names the payment of another ticket. *)
THEOREM LinksAreOwn == OfficeSpec => []LinkNamesOwnPayment
<1>1. OfficeInv => LinkNamesOwnPayment
  BY DEF OfficeInv, LinksSound, LinkSound, LinkNamesOwnPayment
<1>. QED
  BY <1>1, OfficeInvariantHolds, PTL
-----------------------------------------------------------------------------
(* The office as an authority: see SaleAuthority. *)
AuthorisedTickets ==
  {k \in Tickets : \E p \in Payments : payment[p].ticketId = k /\ Authorised(p)}

SoldTickets == {k \in Tickets : ticket[k].status = "sold"}

LEMMA BackedOwners ==
  /\ AuthorisedTickets = {k \in Tickets : \E p \in Backed : payment[p].ticketId = k}
  /\ AuthorisedTickets' = {k \in Tickets : \E p \in Backed' : payment'[p].ticketId = k}
BY DEF AuthorisedTickets, Backed

LEMMA OwnersKept ==
  ASSUME OfficeInv, Grows(payment, payment', Backed, Backed')
  PROVE  \A p \in Backed : payment'[p].ticketId = payment[p].ticketId
BY BackedExist DEF Grows, Backed

LEMMA AuthorityInit == OfficeInit => Authority!Init
BY DEF OfficeInit, Init, Authority!Init, Authorised, Charged

LEMMA AuthorityStep ==
  OfficeInv /\ [OfficeNext]_counterVars => [Authority!Next]_(Authority!vars)
<1>. SUFFICES ASSUME OfficeInv, StepSound
              PROVE  Authority!Next \/ UNCHANGED <<AuthorisedTickets, SoldTickets>>
  BY NextInv DEF AuthorisedTickets, SoldTickets, Authority!vars
<1>0. OfficeInv' /\ Grows(payment, payment', Backed, Backed')
  BY DEF StepSound
<1>1. CASE ticket' = ticket /\ Backed' = Backed
  BY <1>0, <1>1, BackedOwners, OwnersKept DEF SoldTickets
<1>2. ASSUME ticket' = ticket, NEW p \in Payments, Backed' = Backed \cup {p}
      PROVE  Authority!Next \/ UNCHANGED <<AuthorisedTickets, SoldTickets>>
  <2>. DEFINE k == payment'[p].ticketId
  <2>1. k \in Tickets
    BY <1>0, <1>2 DEF OfficeInv, PaymentsSound, Backed, Authorised, Charged
  <2>2. AuthorisedTickets' = AuthorisedTickets \cup {k}
    BY <1>0, <1>2, <2>1, BackedOwners, OwnersKept
  <2>3. SoldTickets' = SoldTickets
    BY <1>2 DEF SoldTickets
  <2>. QED
    BY <2>1, <2>2, <2>3
       DEF Authority!Next, Authority!Authorise, AuthorisedTickets, SoldTickets
<1>3. ASSUME Backed' = Backed, NEW k \in Tickets,
             \A j \in Tickets \ {k} : ticket'[j] = ticket[j]
      PROVE  Authority!Next \/ UNCHANGED <<AuthorisedTickets, SoldTickets>>
  <2>1. AuthorisedTickets' = AuthorisedTickets
    BY <1>0, <1>3, BackedOwners, OwnersKept
  <2>2. CASE ticket'[k].status = "sold"
    <3>1. k \in AuthorisedTickets'
      BY <1>0, <2>2 DEF OfficeInv, SoldIsAuthorised, AuthorisedTickets
    <3>2. SoldTickets' = SoldTickets \cup {k}
      BY <1>3, <2>2 DEF SoldTickets
    <3>. QED
      BY <2>1, <3>1, <3>2
         DEF Authority!Next, Authority!Sell, AuthorisedTickets, SoldTickets
  <2>3. CASE ticket'[k].status # "sold"
    <3>1. SoldTickets' = SoldTickets \ {k}
      BY <1>3, <2>3 DEF SoldTickets
    <3>. QED
      BY <2>1, <3>1
         DEF Authority!Next, Authority!Unsell, AuthorisedTickets, SoldTickets
  <2>. QED
    BY <2>2, <2>3
<1>. QED
  BY <1>1, <1>2, <1>3 DEF StepSound

(* Every step of every flow is a step of SaleAuthority or none: a sale has  *)
(* its authority when it happens, and no save of an older row takes an      *)
(* authority away.                                                          *)
THEOREM OfficeIsAuthority == OfficeSpec => ImplementsAuthority
BY AuthorityInit, AuthorityStep, OfficeInvariantHolds, PTL
   DEF OfficeSpec, ImplementsAuthority, Authority!Spec
-----------------------------------------------------------------------------
(* Reservations.  A request that is not reserving reserves nothing, and a   *)
(* purchase answers for its reservation until it has saved the link.        *)
Quiet(t) ==
  /\ task[t].pc \notin Reserving
  /\ \A u \in Tasks \ {t} : task'[u] = task[u]
  /\ \A k \in Tickets : ticket'[k].status = "reserved" => ticket'[k] = ticket[k]

LEMMA QuietStep ==
  ASSUME NEW t \in Tasks, Quiet(t), NEW k \in Tickets, Orphaned(k)'
  PROVE  Orphaned(k)
<1>1. ticket[k].status = "reserved" /\ ticket[k].paymentId = None
  BY DEF Quiet, Orphaned
<1>2. \A u \in Tasks : ~(task[u].k = k /\ task[u].pc \in Reserving)
  BY DEF Quiet, Orphaned
<1>. QED
  BY <1>1, <1>2 DEF Orphaned

(* What the writes of the tickets that do not belong to a purchase leave. *)
LEMMA NoReservation ==
  ASSUME TypeOK, NEW STATE k, NEW STATE row, row.status # "reserved",
         ticket' = [ticket EXCEPT ![k] = row]
  PROVE  \A j \in Tickets : ticket'[j].status = "reserved" => ticket'[j] = ticket[j]
BY DEF TypeOK

LEMMA ChainQuiet ==
  ASSUME TypeOK, NEW t \in Tasks, WebhookChain(t)
  PROVE  Quiet(t)
<1>1. task[t].pc \notin Reserving
  BY DEF WebhookChain, CompletedRead, SoldRead, SoldSave, FailedRead, ReleaseRead,
         ReleaseSave, Reserving
<1>2. \A u \in Tasks \ {t} : task'[u] = task[u]
  BY DEF WebhookChain, CompletedRead, SoldRead, SoldSave, FailedRead, ReleaseRead,
         ReleaseSave, Become, Finish, TypeOK
<1>3. \A k \in Tickets : ticket'[k].status = "reserved" => ticket'[k] = ticket[k]
  <2>. DEFINE sold == [task[t].ticketRow EXCEPT !.status = "sold"]
              free == [task[t].ticketRow EXCEPT !.status = "available", !.paymentId = None]
  <2>1. task[t].ticketRow \in TicketRow
    BY DEF TypeOK, Task
  <2>2. sold.status = "sold" /\ free.status = "available"
    BY <2>1 DEF TicketRow
  <2>3. CASE SoldSave(t)
    BY <2>2, <2>3, NoReservation DEF SoldSave
  <2>4. CASE ReleaseSave(t)
    BY <2>2, <2>4, NoReservation DEF ReleaseSave
  <2>5. CASE ~SoldSave(t) /\ ~ReleaseSave(t)
    BY <2>5 DEF WebhookChain, CompletedRead, SoldRead, FailedRead, ReleaseRead
  <2>. QED
    BY <2>3, <2>4, <2>5
<1>. QED
  BY <1>1, <1>2, <1>3 DEF Quiet

LEMMA KelpayStartQuiet ==
  ASSUME TypeOK, NEW t \in Tasks, KelpayStart(t)
  PROVE  Quiet(t)
BY DEF KelpayStart, Initiate, StartVerify, StartConfirm, StartCancel, ReceiveCallback,
       Free, Become, Quiet, Reserving, TypeOK

LEMMA KelpayStepQuiet ==
  ASSUME TypeOK, NEW t \in Tasks, KelpayStep(t)
  PROVE  Quiet(t)
<1>1. CASE FinalizeSuccess(t)
  <2>1. \A k \in Tickets : ticket'[k].status = "reserved" => ticket'[k] = ticket[k]
    BY <1>1 DEF FinalizeSuccess, Claimed, TypeOK
  <2>. QED
    BY <1>1, <2>1 DEF FinalizeSuccess, Become, Finish, Quiet, Reserving, TypeOK
<1>2. CASE FinalizeFailure(t) \/ CancelCommit(t)
  BY <1>2 DEF FinalizeFailure, CancelCommit, Close, Become, Finish, Quiet, Reserving, TypeOK
<1>3. CASE InitiatePersist(t) \/ CheckSave(t)
  BY <1>3 DEF InitiatePersist, CheckSave, Continue, Become, Finish, Quiet, Reserving, TypeOK
<1>4. CASE \/ InitiateAccepted(t) \/ InitiateRefused(t) \/ InitiateHttpError(t)
           \/ RollbackRead(t) \/ RollbackSave(t) \/ CheckAnswered(t)
           \/ CheckHttpError(t) \/ CheckRead(t)
  BY <1>4 DEF InitiateAccepted, InitiateRefused, InitiateHttpError, RollbackRead, RollbackSave,
              CheckAnswered, CheckHttpError, CheckRead, Become, Finish, Quiet, Reserving, TypeOK
<1>. QED
  BY <1>1, <1>2, <1>3, <1>4, ChainQuiet DEF KelpayStep

LEMMA CounterQuiet ==
  ASSUME TypeOK, NEW t \in Tasks, CounterStart(t) \/ StaffSave(t) \/ RemoveRow(t)
  PROVE  Quiet(t)
<1>1. CASE CounterStart(t)
  BY <1>1 DEF CounterStart, StartRemove, StartPurchase, StartComplete, StartUpdateStatus,
              Webhook, Free, Become, Quiet, Reserving, TypeOK
<1>2. CASE StaffSave(t)
  BY <1>2 DEF StaffSave, Become, Finish, Quiet, Reserving, TypeOK
<1>3. CASE RemoveRow(t)
  <2>1. \A k \in Tickets : ticket'[k].status = "reserved" => ticket'[k] = ticket[k]
    BY <1>3, NoReservation DEF RemoveRow, NoTicket
  <2>. QED
    BY <1>3, <2>1 DEF RemoveRow, Become, Finish, Quiet, Reserving, TypeOK
<1>. QED
  BY <1>1, <1>2, <1>3

(* A purchase orphans no ticket but by the failure of its own release. *)
LEMMA PurchaseOrphansNone ==
  ASSUME OfficeInv, NEW t \in Tasks,
         \/ PurchaseReserve(t) \/ PurchaseFails(t) \/ PurchaseLink(t) \/ PurchaseUndo(t)
         \/ \E p \in Payments : PurchaseCreate(t, p),
         NEW j \in Tickets, Orphaned(j)'
  PROVE  Orphaned(j)
<1>. DEFINE k == task[t].k
<1>0. /\ task[t].pc \in Buying
      /\ \A u \in Tasks \ {t} : task'[u] = task[u]
      /\ \A i \in Tickets \ {k} : ticket'[i] = ticket[i]
  BY DEF PurchaseReserve, PurchaseFails, PurchaseLink, PurchaseUndo, PurchaseCreate, Become,
         Finish, Buying, OfficeInv, TypeOK
<1>1. task[t] \in Task /\ k \in Tickets /\ Sound(task[t], payment, Backed)
  BY <1>0, AtCounter DEF OnTicket
<1>2. \/ task'[t].k = k /\ task'[t].pc \in Reserving
      \/ ticket'[k].status = "reserved" => ticket'[k].paymentId # None
  <2>1. CASE PurchaseReserve(t)
    BY <1>1, <2>1 DEF PurchaseReserve, Become, Reserving, Task, OfficeInv, TypeOK
  <2>2. CASE PurchaseFails(t)
    BY <2>2 DEF PurchaseFails, PurchaseUndone, Idle, Handling, Become, Reserving, OfficeInv,
                TypeOK
  <2>3. ASSUME NEW p \in Payments, PurchaseCreate(t, p)
        PROVE  task'[t].k = k /\ task'[t].pc \in Reserving
    <3>. DEFINE r == [task[t] EXCEPT !.pc = "purchaseLink", !.p = p,
                                     !.paymentRow = NoPayment, !.ticketRow.paymentId = p]
    <3>1. task'[t] = r
      BY <2>3 DEF PurchaseCreate, Become, OfficeInv, TypeOK
    <3>2. r.k = k /\ r.pc = "purchaseLink"
      BY <1>1 DEF Task
    <3>. QED
      BY <3>1, <3>2 DEF Reserving
  <2>4. CASE PurchaseLink(t)
    BY <1>1, <2>4 DEF PurchaseLink, Sound, OfficeInv, TypeOK
  <2>5. CASE PurchaseUndo(t)
    BY <1>1, <2>5 DEF PurchaseUndo, Sound, OfficeInv, TypeOK
  <2>. QED
    BY <2>1, <2>2, <2>3, <2>4, <2>5
<1>3. j # k
  BY <1>2 DEF Orphaned
<1>4. ticket[j].status = "reserved" /\ ticket[j].paymentId = None
  BY <1>0, <1>3 DEF Orphaned
<1>5. \A u \in Tasks : ~(task[u].k = j /\ task[u].pc \in Reserving)
  BY <1>0, <1>3 DEF Orphaned
<1>. QED
  BY <1>4, <1>5 DEF Orphaned

(* A request that ends in the middle orphans at most its own ticket, and     *)
(* only while it answers for a reservation.                                  *)
LEMMA EndOrphansOwn ==
  ASSUME TypeOK, NEW t \in Tasks, Finish(t), ticket' = ticket,
         NEW k \in Tickets, ~Orphaned(k), Orphaned(k)'
  PROVE  task[t].k = k /\ task[t].pc \in Reserving
<1>1. \A u \in Tasks \ {t} : task'[u] = task[u]
  BY DEF Finish, Become, TypeOK
<1>. QED
  BY <1>1 DEF Orphaned

(* The two ways a ticket is orphaned. *)
ReleaseLost(k) ==
  \E t \in Tasks :
    /\ task[t].k = k
    /\ \/ task[t].pc = "purchaseUndo" /\ PurchaseGivesUp(t)
       \/ task[t].pc \in Reserving /\ Abort(t)

LEMMA OrphanStep ==
  ASSUME OfficeInv, [OfficeNext]_counterVars,
         NEW k \in Tickets, ~Orphaned(k), Orphaned(k)'
  PROVE  ReleaseLost(k)
<1>0. TypeOK
  BY DEF OfficeInv
<1>1. ~\E t \in Tasks : KelpayStart(t) \/ KelpayStep(t)
  BY <1>0, KelpayStartQuiet, KelpayStepQuiet, QuietStep
<1>2. ASSUME NEW t \in Tasks, Abort(t) PROVE ReleaseLost(k)
  BY <1>0, <1>2, EndOrphansOwn DEF Abort, ReleaseLost
<1>3. ASSUME NEW t \in Tasks, CounterStart(t) \/ CounterStep(t)
      PROVE  ReleaseLost(k)
  <2>1. PurchaseGivesUp(t)
    BY <1>0, <1>3, CounterQuiet, QuietStep, PurchaseOrphansNone DEF CounterStep
  <2>2. task[t].k = k /\ task[t].pc \in Reserving
    BY <1>0, <2>1, EndOrphansOwn DEF PurchaseGivesUp
  <2>. QED
    BY <2>1, <2>2 DEF PurchaseGivesUp, Reserving, ReleaseLost
<1>4. ~(Gateway \/ UNCHANGED counterVars)
  BY DEF Gateway, GatewayTakesPush, GatewaySettles, LoseCallback, counterVars, Orphaned
<1>. QED
  BY <1>1, <1>2, <1>3, <1>4 DEF OfficeNext, Next, CounterNext

(* For every number of tickets, payments and requests, with every fault: a  *)
(* reservation that nobody can settle is left behind only by the purchase   *)
(* that made it, when the save of its catch block fails in its turn or the  *)
(* process stops; no other flow's save of an older row makes one.           *)
THEOREM OrphansNeedALostRelease == OfficeSpec => OrphanedByFailedRelease
<1>1. OfficeInv /\ [OfficeNext]_counterVars =>
        [\A k \in Tickets : ~Orphaned(k) /\ Orphaned(k)' =>
           \E t \in Tasks :
             /\ task[t].k = k
             /\ \/ task[t].pc = "purchaseUndo" /\ PurchaseGivesUp(t)
                \/ task[t].pc \in Reserving /\ Abort(t)]_counterVars
  BY OrphanStep DEF ReleaseLost
<1>. QED
  BY <1>1, OfficeInvariantHolds, PTL DEF OfficeSpec, OrphanedByFailedRelease

(* The dashboard's revenue holds no amount that was neither charged nor *)
(* declared paid, with every flow, stop and failure allowed.            *)
THEOREM RevenueBacked == OfficeSpec => []RevenueIsBacked
<1>1. OfficeInv => RevenueIsBacked
  BY DEF OfficeInv, PaymentsSound, RevenueIsBacked, totalRevenue
<1>. QED
  BY <1>1, OfficeInvariantHolds, PTL
=============================================================================
