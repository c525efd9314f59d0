---------------------------- MODULE KelpayProofs ----------------------------
(***************************************************************************)
(* Proofs about KelpayFlow: its type, that a ticket is sold only when its  *)
(* payment was collected, and what the lock of initiate guarantees.        *)
(***************************************************************************)
EXTENDS KelpayInvariant, TLAPS

(* The records the steps leave in a slot are tasks. *)
LEMMA EmptyRows == NoPayment \in PaymentRow /\ NoTicket \in TicketRow
BY DEF NoPayment, NoTicket, PaymentRow, TicketRow, PaymentStatus, TicketStatus

LEMMA HandlingIsTask ==
  ASSUME NEW label \in Label, NEW p \in Payments \cup {None}
  PROVE  Handling(label, p) \in Task
BY EmptyRows DEF Handling, Task, Label

LEMMA IdleIsTask == Idle \in Task
BY HandlingIsTask DEF Idle, Label

(* What a step may do to the payments so that a request elsewhere, holding  *)
(* rows it read before, is still sound: none disappears, none changes its   *)
(* ticket, none that was collected stops being so.                          *)
Grows(pay, pay2, collected, collected2) ==
  /\ collected \subseteq collected2
  /\ \A p \in Payments : pay[p].status # "absent" =>
       pay2[p].status # "absent" /\ pay2[p].ticketId = pay[p].ticketId

Exists(pay, collected) == \A p \in collected : pay[p].status # "absent"

LEMMA LinkStable ==
  ASSUME NEW pay, NEW pay2, NEW col \in SUBSET Payments, NEW col2,
         NEW row, NEW k,
         Grows(pay, pay2, col, col2), Exists(pay, col),
         LinkSound(row, k, pay, col)
  PROVE  LinkSound(row, k, pay2, col2)
BY DEF Grows, Exists, LinkSound

LEMMA SoundStable ==
  ASSUME NEW pay, NEW pay2, NEW col \in SUBSET Payments, NEW col2, NEW r,
         Grows(pay, pay2, col, col2), Exists(pay, col),
         Sound(r, pay, col)
  PROVE  Sound(r, pay2, col2)
<1>1. LinkSound(r.ticketRow, r.k, pay, col) => LinkSound(r.ticketRow, r.k, pay2, col2)
  BY LinkStable
<1>. QED
  BY <1>1 DEF Grows, Sound

LEMMA CollectedExist == ASSUME IInv PROVE Exists(payment, Collected)
BY DEF IInv, TypeOK, PaymentsSound, Exists, Collected, Charged
-----------------------------------------------------------------------------
(* A step that only moves one request on keeps the invariant if the record  *)
(* it leaves in the slot is a sound task.                                   *)
LEMMA MoveStep ==
  ASSUME IInv, NEW t \in Tasks, NEW STATE r, r \in Task,
         Sound(r, payment, Collected),
         Become(t, r), UNCHANGED <<ticket, payment, gateway, callbacks>>
  PROVE  IInv'
<1>1. TypeOK'
  BY DEF IInv, TypeOK, Become
<1>2. PaymentsSound' /\ CallbacksSound' /\ SoldIsCharged' /\ LinkIsCharged'
  BY DEF IInv, PaymentsSound, CallbacksSound, SoldIsCharged, LinkIsCharged, Charged
<1>3. Collected' = Collected
  BY DEF Collected, Charged
<1>4. TasksSound'
  <2>. SUFFICES ASSUME NEW s \in Tasks PROVE Sound(task'[s], payment, Collected)
    BY <1>3 DEF TasksSound
  <2>1. task'[s] = r \/ task'[s] = task[s]
    BY DEF IInv, TypeOK, Become
  <2>. QED
    BY <2>1 DEF IInv, TasksSound
<1>. QED
  BY <1>1, <1>2, <1>4 DEF IInv

LEMMA IdleSound == Sound(Idle, payment, Collected)
BY DEF Sound, Idle, Handling

LEMMA FinishStep ==
  ASSUME IInv, NEW t \in Tasks, Finish(t),
         UNCHANGED <<ticket, payment, gateway, callbacks>>
  PROVE  IInv'
BY MoveStep, IdleIsTask, IdleSound DEF Finish

(* What the invariant says of a request under way. *)
LEMMA UnderWay ==
  ASSUME IInv, NEW t \in Tasks, task[t].pc # "idle"
  PROVE  /\ task[t] \in Task
         /\ task[t].p \in Payments
         /\ payment[task[t].p] \in PaymentRow
         /\ payment[task[t].p].status # "absent"
         /\ payment[task[t].p].ticketId \in Tickets
         /\ Sound(task[t], payment, Collected)
<1>1. task[t] \in Task /\ Sound(task[t], payment, Collected)
  BY DEF IInv, TypeOK, TasksSound
<1>. QED
  BY <1>1 DEF IInv, TypeOK, PaymentsSound, Sound

(* Sending a request to a label that does not sell needs no more than a     *)
(* payment that exists.                                                     *)
LEMMA HandlingSound ==
  ASSUME NEW STATE label, label \in Label, NEW STATE p, p \in Payments,
         payment[p].status # "absent",
         label \notin TicketHeld \cup {"rollbackSave", "checkSave"},
         label \in Selling => p \in Collected
  PROVE  Handling(label, p) \in Task /\ Sound(Handling(label, p), payment, Collected)
<1>1. Handling(label, p) \in Task
  BY HandlingIsTask
<1>. QED
  BY <1>1 DEF Sound, TicketHeld, Handling

LEMMA HandlingStep ==
  ASSUME IInv, NEW t \in Tasks,
         NEW STATE label, label \in Label, NEW STATE p, p \in Payments,
         payment[p].status # "absent",
         label \notin TicketHeld \cup {"rollbackSave", "checkSave"},
         label \in Selling => p \in Collected,
         Become(t, Handling(label, p)),
         UNCHANGED <<ticket, payment, gateway, callbacks>>
  PROVE  IInv'
BY HandlingSound, MoveStep
-----------------------------------------------------------------------------
(* The steps that only move a request on: answers of Kelpay and reads. *)
LEMMA InitiateAnswerSteps ==
  ASSUME IInv, NEW t \in Tasks,
         \/ InitiateAccepted(t) \/ InitiateRefused(t) \/ InitiateHttpError(t)
  PROVE  IInv'
<1>1. CASE InitiateAccepted(t)
  <2>1. PICK next \in {"idle", "finalizeFailure"} :
          Become(t, [Handling("initiatePersist", task[t].p) EXCEPT !.then = next])
    BY <1>1 DEF InitiateAccepted
  <2>. DEFINE r == [Handling("initiatePersist", task[t].p) EXCEPT !.then = next]
  <2>2. r \in Task
    BY <1>1, UnderWay, EmptyRows DEF InitiateAccepted, Handling, Task, Label
  <2>3. Sound(r, payment, Collected)
    BY <1>1, UnderWay DEF InitiateAccepted, Handling, Sound, Selling, TicketHeld
  <2>. QED
    BY <1>1, <2>1, <2>2, <2>3, MoveStep DEF InitiateAccepted
<1>2. CASE InitiateRefused(t)
  BY <1>2, UnderWay, HandlingStep DEF InitiateRefused, Selling, TicketHeld, Label
<1>3. CASE InitiateHttpError(t)
  BY <1>3, UnderWay, HandlingStep DEF InitiateHttpError, Selling, TicketHeld, Label
<1>. QED
  BY <1>1, <1>2, <1>3

LEMMA StartSteps ==
  ASSUME IInv, NEW t \in Tasks, NEW p \in Payments,
         \/ StartVerify(t, p) \/ StartConfirm(t, p) \/ StartCancel(t, p)
  PROVE  IInv'
<1>1. CASE StartVerify(t, p) \/ StartConfirm(t, p)
  BY <1>1, HandlingStep
     DEF StartVerify, StartConfirm, Checkable, Selling, TicketHeld, Label
<1>2. CASE StartCancel(t, p)
  BY <1>2, HandlingStep DEF StartCancel, OPEN, Selling, TicketHeld, Label
<1>. QED
  BY <1>1, <1>2

LEMMA RereadSteps ==
  ASSUME IInv, NEW t \in Tasks,
         \/ RollbackRead(t) \/ CheckAnswered(t) \/ CheckHttpError(t) \/ CheckRead(t)
  PROVE  IInv'
<1>0. payment[task[t].p].status \in PAID => task[t].p \in Collected
  BY UnderWay DEF IInv, PaymentsSound, Collected, RollbackRead, CheckAnswered,
                  CheckHttpError, CheckRead
<1>1. CASE RollbackRead(t)
  <2>. DEFINE r == [Handling("rollbackSave", task[t].p) EXCEPT
                      !.paymentRow = payment[task[t].p]]
  <2>1. r \in Task
    BY <1>1, UnderWay, EmptyRows DEF RollbackRead, Handling, Task, Label
  <2>2. Sound(r, payment, Collected)
    BY <1>0, <1>1, UnderWay DEF RollbackRead, Handling, Sound, Selling, TicketHeld
  <2>. QED
    BY <1>1, <2>1, <2>2, MoveStep DEF RollbackRead
<1>2. CASE CheckAnswered(t)
  <2>1. PICK next \in Readings(task[t].p) :
          Become(t, [Handling("checkRead", task[t].p) EXCEPT !.then = next])
    BY <1>2 DEF CheckAnswered
  <2>2. /\ next \in {"idle", "finalizeSuccess", "finalizeFailure"}
        /\ next = "finalizeSuccess" => task[t].p \in Collected
    BY <1>2, <2>1, UnderWay
       DEF Readings, Outcomes, Collected, Charged, CheckAnswered, IInv, TypeOK, GatewayState
  <2>. DEFINE r == [Handling("checkRead", task[t].p) EXCEPT !.then = next]
  <2>3. r \in Task
    BY <1>2, <2>2, UnderWay, EmptyRows DEF CheckAnswered, Handling, Task, Label
  <2>4. Sound(r, payment, Collected)
    BY <1>2, <2>2, UnderWay DEF CheckAnswered, Handling, Sound, Selling, TicketHeld
  <2>. QED
    BY <1>2, <2>1, <2>3, <2>4, MoveStep DEF CheckAnswered
<1>3. CASE CheckHttpError(t)
  BY <1>3, FinishStep DEF CheckHttpError
<1>4. CASE CheckRead(t)
  <2>. DEFINE r == [task[t] EXCEPT !.pc = "checkSave", !.paymentRow = payment[task[t].p]]
  <2>1. r \in Task
    BY <1>4, UnderWay DEF CheckRead, Task, Label
  <2>2. Sound(r, payment, Collected)
    BY <1>0, <1>4, UnderWay DEF CheckRead, Task, Sound, Selling, TicketHeld
  <2>. QED
    BY <1>4, <2>1, <2>2, MoveStep DEF CheckRead
<1>. QED
  BY <1>1, <1>2, <1>3, <1>4

LEMMA ChainReadSteps ==
  ASSUME IInv, NEW t \in Tasks,
         \/ CompletedRead(t) \/ FailedRead(t) \/ SoldRead(t) \/ ReleaseRead(t)
  PROVE  IInv'
<1>. DEFINE p == task[t].p
            k == task[t].k
            At(label) == [Handling(label, p) EXCEPT !.k = payment[p].ticketId]
            Holding(label) == [task[t] EXCEPT !.pc = label, !.ticketRow = ticket[k]]
<1>1. CASE CompletedRead(t)
  <2>1. At("soldRead") \in Task
    BY <1>1, UnderWay, EmptyRows DEF CompletedRead, Handling, Task, Label
  <2>2. Sound(At("soldRead"), payment, Collected)
    BY <1>1, UnderWay DEF CompletedRead, Handling, Sound, Selling, TicketHeld
  <2>. QED
    BY <1>1, <2>1, <2>2, MoveStep, FinishStep DEF CompletedRead
<1>2. CASE FailedRead(t)
  <2>1. At("releaseRead") \in Task
    BY <1>2, UnderWay, EmptyRows DEF FailedRead, Handling, Task, Label
  <2>2. Sound(At("releaseRead"), payment, Collected)
    BY <1>2, UnderWay DEF FailedRead, Handling, Sound, Selling, TicketHeld
  <2>. QED
    BY <1>2, <2>1, <2>2, MoveStep, FinishStep DEF FailedRead
<1>3. ASSUME task[t].pc \in {"soldRead", "releaseRead"}
      PROVE  k \in Tickets /\ LinkSound(ticket[k], k, payment, Collected)
  <2>1. k \in Tickets
    BY <1>3, UnderWay DEF Sound, TicketHeld
  <2>. QED
    BY <2>1 DEF IInv, TypeOK, TicketRow, LinkIsCharged, LinkSound, Collected
<1>4. CASE SoldRead(t)
  <2>1. Holding("soldSave") \in Task
    BY <1>3, <1>4, UnderWay DEF SoldRead, Task, Label, IInv, TypeOK
  <2>2. Sound(Holding("soldSave"), payment, Collected)
    BY <1>3, <1>4, UnderWay DEF SoldRead, Task, Sound, Selling, TicketHeld
  <2>. QED
    BY <1>4, <2>1, <2>2, MoveStep, FinishStep DEF SoldRead
<1>5. CASE ReleaseRead(t)
  <2>1. Holding("releaseSave") \in Task
    BY <1>3, <1>5, UnderWay DEF ReleaseRead, Task, Label, IInv, TypeOK
  <2>2. Sound(Holding("releaseSave"), payment, Collected)
    BY <1>3, <1>5, UnderWay DEF ReleaseRead, Task, Sound, Selling, TicketHeld
  <2>. QED
    BY <1>5, <2>1, <2>2, MoveStep, FinishStep DEF ReleaseRead
<1>. QED
  BY <1>1, <1>2, <1>4, <1>5
-----------------------------------------------------------------------------
(* A step that writes the payments keeps every other request sound if the   *)
(* payments grow; what is left to show is about the rows it wrote.          *)
LEMMA GrowStep ==
  ASSUME IInv, TypeOK', NEW t \in Tasks, NEW STATE r, r \in Task, Become(t, r),
         Grows(payment, payment', Collected, Collected'),
         Sound(r, payment', Collected'),
         PaymentsSound', CallbacksSound', SoldIsCharged', LinkIsCharged'
  PROVE  IInv'
<1>1. TasksSound'
  <2>. SUFFICES ASSUME NEW s \in Tasks PROVE Sound(task'[s], payment', Collected')
    BY DEF TasksSound
  <2>1. CASE task'[s] = r
    BY <2>1
  <2>2. CASE task'[s] = task[s]
    <3>1. Sound(task[s], payment, Collected) /\ Collected \in SUBSET Payments
      BY DEF IInv, TasksSound, Collected
    <3>. QED
      BY <2>2, <3>1, CollectedExist, SoundStable
  <2>. QED
    BY <2>1, <2>2 DEF IInv, TypeOK, Become
<1>. QED
  BY <1>1 DEF IInv

(* Tickets that nobody writes stay covered by the payments. *)
LEMMA TicketsKept ==
  ASSUME IInv, Grows(payment, payment', Collected, Collected'), ticket' = ticket
  PROVE  SoldIsCharged' /\ LinkIsCharged'
<1>1. \A p \in Payments : Charged(p) => Charged(p)' /\ payment[p].status # "absent"
  BY CollectedExist DEF Grows, Collected, Exists
<1>2. SoldIsCharged'
  BY <1>1 DEF IInv, SoldIsCharged, Grows
<1>3. LinkIsCharged'
  <2>. SUFFICES ASSUME NEW k \in Tickets, ticket[k].paymentId # None
                PROVE  /\ payment'[ticket[k].paymentId].ticketId = k
                       /\ Charged(ticket[k].paymentId)'
    BY DEF LinkIsCharged
  <2>1. ticket[k].paymentId \in Payments
    BY DEF IInv, TypeOK, TicketRow
  <2>. QED
    BY <1>1, <2>1 DEF IInv, LinkIsCharged, Grows
<1>. QED
  BY <1>2, <1>3
-----------------------------------------------------------------------------
(* A new payment, whatever else is known of its ticket. *)
LEMMA OpeningStep ==
  ASSUME IInv, NEW t \in Tasks, NEW STATE k, k \in Tickets, NEW STATE p, p \in Payments,
         payment[p].status = "absent",
         payment' = [payment EXCEPT ![p] =
                       [status |-> "pending", ticketId |-> k,
                        method |-> "mobile_money", transactionId |-> FALSE]],
         gateway' = [gateway EXCEPT ![p] = "sent"],
         Become(t, Handling("initiateHttp", p)),
         UNCHANGED <<ticket, callbacks>>
  PROVE  IInv'
<1>. DEFINE r == Handling("initiateHttp", p)
<1>1. r \in Task
  BY HandlingIsTask DEF Label
<1>2. TypeOK'
  BY <1>1 DEF IInv, TypeOK, Become, PaymentRow, PaymentStatus, GatewayState
<1>3. gateway[p] = "none" /\ payment[p].status = "absent"
  BY DEF IInv, PaymentsSound
<1>4. Grows(payment, payment', Collected, Collected')
  BY <1>3 DEF Grows, Collected, Charged, IInv, TypeOK
<1>5. PaymentsSound'
  BY <1>3 DEF IInv, TypeOK, PaymentsSound, PAID, Charged
<1>6. CallbacksSound'
  BY <1>3 DEF IInv, TypeOK, CallbacksSound
<1>7. Sound(r, payment', Collected')
  BY DEF Sound, Handling, Selling, TicketHeld, IInv, TypeOK
<1>. QED
  BY <1>1, <1>2, <1>4, <1>5, <1>6, <1>7, TicketsKept, GrowStep

LEMMA InitiateStep ==
  ASSUME IInv, NEW t \in Tasks, NEW k \in Tickets, NEW p \in Payments,
         Initiate(t, k, p)
  PROVE  IInv'
BY OpeningStep DEF Initiate

(* A step of a request that writes one payment and nothing else: the new    *)
(* row keeps the ticket and is paid only if the payment was collected.      *)
LEMMA PaymentWriteStep ==
  ASSUME IInv, NEW t \in Tasks, NEW STATE p, p \in Payments,
         payment[p].status # "absent",
         NEW STATE row, row \in PaymentRow,
         row.status # "absent", row.ticketId = payment[p].ticketId,
         row.status \in PAID => p \in Collected,
         payment' = [payment EXCEPT ![p] = row],
         callbacks' \in SUBSET callbacks,
         NEW STATE r, r \in Task, Sound(r, payment, Collected), Become(t, r),
         UNCHANGED <<ticket, gateway>>
  PROVE  IInv'
<1>1. TypeOK'
  BY DEF IInv, TypeOK, Become
<1>2. Collected' = Collected
  BY DEF Collected, Charged
<1>3. Grows(payment, payment', Collected, Collected')
  BY <1>2 DEF Grows, IInv, TypeOK
<1>4. PaymentsSound' /\ CallbacksSound'
  <2>1. payment[p].ticketId \in Tickets
    BY DEF IInv, PaymentsSound
  <2>. QED
    BY <2>1 DEF IInv, TypeOK, PaymentsSound, CallbacksSound, Collected, Charged
<1>5. Sound(r, payment', Collected')
  BY <1>3, CollectedExist, SoundStable DEF Collected
<1>. QED
  BY <1>1, <1>3, <1>4, <1>5, TicketsKept, GrowStep

LEMMA CloseStep ==
  ASSUME IInv, NEW t \in Tasks, task[t].pc # "idle",
         NEW status \in LOST, Close(t, status)
  PROVE  IInv'
<1>. DEFINE p == task[t].p
<1>1. CASE payment[p].status \in OPEN
  <2>. DEFINE row == [payment[p] EXCEPT !.status = status]
              r == Handling("failedRead", p)
  <2>1. payment' = [payment EXCEPT ![p] = row] /\ Become(t, r)
        /\ UNCHANGED <<ticket, gateway, callbacks>>
    BY <1>1 DEF Close
  <2>2. row \in PaymentRow /\ row.status # "absent" /\ row.status \notin PAID
        /\ row.ticketId = payment[p].ticketId
    BY UnderWay DEF PaymentRow, PaymentStatus, LOST, PAID
  <2>3. r \in Task /\ Sound(r, payment, Collected)
    BY UnderWay, HandlingSound DEF Label, Selling, TicketHeld
  <2>. QED
    BY <2>1, <2>2, <2>3, UnderWay, PaymentWriteStep
<1>2. CASE payment[p].status \notin OPEN
  BY <1>2, FinishStep DEF Close
<1>. QED
  BY <1>1, <1>2

(* The label of a request that has finished what a journal entry was for. *)
LEMMA ContinueSound ==
  ASSUME IInv, NEW t \in Tasks, task[t].pc # "idle", Continue(t)
  PROVE  \E label \in {"idle", "finalizeSuccess", "finalizeFailure"} :
           \E q \in {task[t].p, None} :
           /\ Handling(label, q) \in Task
           /\ Sound(Handling(label, q), payment, Collected)
           /\ Become(t, Handling(label, q))
<1>1. CASE task[t].then = "idle"
  BY <1>1, IdleIsTask, IdleSound DEF Continue, Finish, Idle
<1>2. CASE task[t].then # "idle"
  <2>1. /\ task[t].then \in {"finalizeSuccess", "finalizeFailure"}
        /\ task[t].then = "finalizeSuccess" => task[t].p \in Collected
        /\ task[t].p \in Payments
        /\ payment[task[t].p].status # "absent"
    BY <1>2, UnderWay DEF Sound
  <2>2. /\ Handling(task[t].then, task[t].p) \in Task
        /\ Sound(Handling(task[t].then, task[t].p), payment, Collected)
    BY <2>1, HandlingSound DEF Label, Selling, TicketHeld
  <2>. QED
    BY <1>2, <2>1, <2>2 DEF Continue
<1>. QED
  BY <1>1, <1>2

LEMMA JournalSteps ==
  ASSUME IInv, NEW t \in Tasks,
         InitiatePersist(t) \/ RollbackSave(t) \/ CheckSave(t)
  PROVE  IInv'
<1>. DEFINE p == task[t].p
<1>0. /\ p \in Payments
      /\ payment[p] \in PaymentRow
      /\ payment[p].status # "absent"
      /\ payment[p].status \in PAID => p \in Collected
      /\ task[t].paymentRow \in PaymentRow
  BY UnderWay DEF InitiatePersist, RollbackSave, CheckSave, IInv, PaymentsSound,
                  Collected, Task
<1>1. CASE InitiatePersist(t)
  <2>. DEFINE row == [payment[p] EXCEPT !.transactionId = @ \/ task[t].then = "idle"]
  <2>1. payment' = [payment EXCEPT ![p] = row]
    BY <1>1 DEF InitiatePersist
  <2>2. row \in PaymentRow /\ row.status = payment[p].status
        /\ row.ticketId = payment[p].ticketId
    <3>. DEFINE b == payment[p].transactionId \/ task[t].then = "idle"
    <3>1. b \in BOOLEAN
      OBVIOUS
    <3>2. row = [payment[p] EXCEPT !.transactionId = b]
      OBVIOUS
    <3>. HIDE DEF b
    <3>. QED
      BY <1>0, <3>1, <3>2 DEF PaymentRow
  <2>. HIDE DEF row
  <2>3. task[t].pc # "idle" /\ Continue(t) /\ UNCHANGED <<ticket, gateway, callbacks>>
    BY <1>1 DEF InitiatePersist
  <2>. QED
    BY <1>0, <2>1, <2>2, <2>3, ContinueSound, PaymentWriteStep
<1>2. CASE RollbackSave(t)
  <2>. DEFINE row == [task[t].paymentRow EXCEPT !.status = "failed"]
  <2>1. payment' = [payment EXCEPT ![p] = row] /\ Become(t, Handling("failedRead", p))
        /\ UNCHANGED <<ticket, gateway, callbacks>>
    BY <1>2 DEF RollbackSave
  <2>2. row \in PaymentRow /\ row.status = "failed" /\ row.status \notin PAID
        /\ row.ticketId = payment[p].ticketId
    BY <1>0, <1>2, UnderWay DEF RollbackSave, PaymentRow, PaymentStatus, PAID, Sound
  <2>3. /\ Handling("failedRead", p) \in Task
        /\ Sound(Handling("failedRead", p), payment, Collected)
    BY <1>0, HandlingSound DEF Label, Selling, TicketHeld
  <2>. QED
    BY <1>0, <2>1, <2>2, <2>3, PaymentWriteStep
<1>3. CASE CheckSave(t)
  <2>. DEFINE row == task[t].paymentRow
  <2>1. /\ payment' = [payment EXCEPT ![p] = row]
        /\ task[t].pc = "checkSave"
        /\ Continue(t)
        /\ UNCHANGED <<ticket, gateway, callbacks>>
    BY <1>3 DEF CheckSave
  <2>2. /\ row.status # "absent"
        /\ row.ticketId = payment[p].ticketId
        /\ row.status \in PAID => p \in Collected
    BY <2>1, UnderWay DEF Sound
  <2>. QED
    BY <1>0, <2>1, <2>2, ContinueSound, PaymentWriteStep
<1>. QED
  BY <1>1, <1>2, <1>3

LEMMA CallbackStep ==
  ASSUME IInv, NEW t \in Tasks, NEW p \in Payments, ReceiveCallback(t, p)
  PROVE  IInv'
<1>. DEFINE row == [payment[p] EXCEPT !.transactionId = TRUE]
<1>1. gateway[p] \in {"charged", "declined"}
  BY DEF ReceiveCallback, IInv, CallbacksSound
<1>2. payment[p].status # "absent" /\ payment[p] \in PaymentRow
      /\ (payment[p].status \in PAID => p \in Collected)
  BY <1>1 DEF IInv, TypeOK, PaymentsSound, Collected
<1>3. row \in PaymentRow /\ row.status = payment[p].status
      /\ row.ticketId = payment[p].ticketId
  BY <1>2 DEF PaymentRow
<1>4. PICK next \in Outcomes(p) : Become(t, Handling(next, p))
  BY DEF ReceiveCallback
<1>5. /\ next \in {"finalizeSuccess", "finalizeFailure"}
      /\ next = "finalizeSuccess" => p \in Collected
  BY <1>1, <1>4 DEF Outcomes, Collected, Charged
<1>6. Handling(next, p) \in Task /\ Sound(Handling(next, p), payment, Collected)
  BY <1>2, <1>5, HandlingSound DEF Label, Selling, TicketHeld
<1>7. payment' = [payment EXCEPT ![p] = row] /\ callbacks' \in SUBSET callbacks
      /\ UNCHANGED <<ticket, gateway>>
  BY DEF ReceiveCallback
<1>. QED
  BY <1>2, <1>3, <1>4, <1>6, <1>7, PaymentWriteStep
-----------------------------------------------------------------------------
(* A step that writes one ticket row and nothing else: the row's link and   *)
(* its being sold must be covered by the payments.                          *)
LEMMA TicketWriteStep ==
  ASSUME IInv, NEW t \in Tasks, NEW STATE k, k \in Tickets,
         NEW STATE row, row \in TicketRow,
         LinkSound(row, k, payment, Collected),
         row.status = "sold" =>
           \E p \in Payments : payment[p].ticketId = k /\ Charged(p),
         ticket' = [ticket EXCEPT ![k] = row],
         Finish(t), UNCHANGED <<payment, gateway, callbacks>>
  PROVE  IInv'
<1>1. TypeOK'
  BY IdleIsTask DEF IInv, TypeOK, Finish, Become
<1>2. Collected' = Collected
  BY DEF Collected, Charged
<1>3. PaymentsSound' /\ CallbacksSound'
  BY DEF IInv, PaymentsSound, CallbacksSound, Charged
<1>4. SoldIsCharged'
  BY DEF IInv, TypeOK, SoldIsCharged, Charged
<1>5. LinkIsCharged'
  BY DEF IInv, TypeOK, LinkIsCharged, LinkSound, Collected, Charged
<1>6. Sound(Idle, payment', Collected')
  BY <1>2, IdleSound
<1>. QED
  BY <1>1, <1>2, <1>3, <1>4, <1>5, <1>6, IdleIsTask, GrowStep DEF Grows, Finish

LEMMA ChainSaveSteps ==
  ASSUME IInv, NEW t \in Tasks, SoldSave(t) \/ ReleaseSave(t)
  PROVE  IInv'
<1>. DEFINE k == task[t].k
<1>1. /\ k = payment[task[t].p].ticketId
      /\ k \in Tickets
      /\ task[t].ticketRow \in TicketRow
      /\ LinkSound(task[t].ticketRow, k, payment, Collected)
  BY UnderWay DEF SoldSave, ReleaseSave, Sound, TicketHeld, Task
<1>2. CASE SoldSave(t)
  <2>. DEFINE row == [task[t].ticketRow EXCEPT !.status = "sold"]
  <2>1. row \in TicketRow /\ row.paymentId = task[t].ticketRow.paymentId
    BY <1>1 DEF TicketRow, TicketStatus
  <2>2. LinkSound(row, k, payment, Collected)
    BY <1>1, <2>1 DEF LinkSound
  <2>3. task[t].p \in Payments /\ Charged(task[t].p)
    BY <1>2, UnderWay DEF SoldSave, Sound, Selling, Collected
  <2>. QED
    BY <1>1, <1>2, <2>1, <2>2, <2>3, TicketWriteStep DEF SoldSave
<1>3. CASE ReleaseSave(t)
  <2>. DEFINE row == [task[t].ticketRow EXCEPT !.status = "available", !.paymentId = None]
  <2>1. row \in TicketRow /\ row.paymentId = None /\ row.status = "available"
    BY <1>1 DEF TicketRow, TicketStatus
  <2>2. LinkSound(row, k, payment, Collected)
    BY <2>1 DEF LinkSound
  <2>. QED
    BY <1>1, <1>3, <2>1, <2>2, TicketWriteStep DEF ReleaseSave
<1>. QED
  BY <1>2, <1>3

(* The sale: payment and ticket are written together, and the request that  *)
(* writes them was sent there by a charge.                                  *)
LEMMA FinalizeSuccessStep ==
  ASSUME IInv, NEW t \in Tasks, FinalizeSuccess(t)
  PROVE  IInv'
<1>. DEFINE p == task[t].p
            k == payment[p].ticketId
<1>1. CASE payment[p].status \in OPEN
  <2>. DEFINE row == [payment[p] EXCEPT !.status = "success", !.transactionId = TRUE]
              r == Handling("completedRead", p)
  <2>1. /\ p \in Payments
        /\ k \in Tickets
        /\ p \in Collected
        /\ payment[p].status # "absent"
    BY UnderWay DEF FinalizeSuccess, Sound, Selling
  <2>2. /\ payment' = [payment EXCEPT ![p] = row]
        /\ ticket' = Claimed(k, p)
        /\ Become(t, r)
        /\ UNCHANGED <<gateway, callbacks>>
    BY <1>1 DEF FinalizeSuccess
  <2>3. row \in PaymentRow /\ row.status = "success" /\ row.ticketId = k
    BY UnderWay DEF FinalizeSuccess, PaymentRow, PaymentStatus
  <2>4. r \in Task /\ Sound(r, payment, Collected)
    BY <2>1, HandlingSound DEF Label, TicketHeld
  <2>5. Collected' = Collected
    BY <2>2 DEF Collected, Charged
  <2>6. Grows(payment, payment', Collected, Collected')
    BY <2>1, <2>2, <2>3, <2>5 DEF Grows, IInv, TypeOK
  <2>7. ticket' \in [Tickets -> TicketRow]
    BY <2>1, <2>2 DEF IInv, TypeOK, Claimed, TicketRow, TicketStatus
  <2>8. TypeOK'
    BY <2>1, <2>2, <2>3, <2>4, <2>7 DEF IInv, TypeOK, Become
  <2>9. PaymentsSound' /\ CallbacksSound'
    BY <2>1, <2>2, <2>3 DEF IInv, TypeOK, PaymentsSound, CallbacksSound, Collected, Charged
  <2>10. Sound(r, payment', Collected')
    BY <2>4, <2>6, CollectedExist, SoundStable DEF Collected
  <2>11. gateway[p] = "charged" /\ payment'[p].ticketId = k
    BY <2>1, <2>2, <2>3 DEF Collected, Charged, IInv, TypeOK
  <2>12. SoldIsCharged' /\ LinkIsCharged'
    <3>1. CASE Claimable(k, p)
      <4>1. ticket' = [ticket EXCEPT ![k] = [status |-> "sold", paymentId |-> p]]
        BY <2>2, <3>1 DEF Claimed
      <4>2. \A q \in Payments : payment'[q].ticketId = payment[q].ticketId
        BY <2>1, <2>2, <2>3 DEF IInv, TypeOK
      <4>3. SoldIsCharged'
        <5>. SUFFICES ASSUME NEW j \in Tickets, ticket'[j].status = "sold"
                      PROVE  \E q \in Payments :
                               payment'[q].ticketId = j /\ gateway[q] = "charged"
          BY <2>2 DEF SoldIsCharged, Charged
        <5>1. CASE j = k
          BY <2>1, <2>11, <5>1
        <5>2. CASE j # k
          <6>1. ticket'[j] = ticket[j]
            BY <4>1, <5>2 DEF IInv, TypeOK
          <6>. QED
            BY <4>2, <6>1 DEF IInv, SoldIsCharged, Charged
        <5>. QED
          BY <5>1, <5>2
      <4>4. LinkIsCharged'
        <5>. SUFFICES ASSUME NEW j \in Tickets, ticket'[j].paymentId # None
                      PROVE  /\ payment'[ticket'[j].paymentId].ticketId = j
                             /\ gateway'[ticket'[j].paymentId] = "charged"
          BY DEF LinkIsCharged, Charged
        <5>1. CASE j = k
          BY <2>1, <2>2, <2>11, <4>1, <5>1 DEF IInv, TypeOK
        <5>2. CASE j # k
          <6>1. ticket'[j] = ticket[j] /\ ticket[j].paymentId \in Payments
            BY <4>1, <5>2 DEF IInv, TypeOK, TicketRow
          <6>. QED
            BY <2>2, <4>2, <6>1 DEF IInv, LinkIsCharged, Charged
        <5>. QED
          BY <5>1, <5>2
      <4>. QED
        BY <4>3, <4>4
    <3>2. CASE ~Claimable(k, p)
      BY <2>2, <2>6, <3>2, TicketsKept DEF Claimed
    <3>. QED
      BY <3>1, <3>2
  <2>. QED
    BY <2>2, <2>4, <2>6, <2>8, <2>9, <2>10, <2>12, GrowStep
<1>2. CASE payment[p].status \notin OPEN
  BY <1>2, FinishStep DEF FinalizeSuccess
<1>. QED
  BY <1>1, <1>2

(* What happens at Kelpay only adds to what is collected. *)
LEMMA GatewaySteps ==
  ASSUME IInv, Gateway
  PROVE  IInv'
<1>1. PICK p \in Payments :
        GatewayTakesPush(p) \/ GatewaySettles(p) \/ LoseCallback(p)
  BY DEF Gateway
<1>2. UNCHANGED <<ticket, payment, task>>
  BY <1>1 DEF GatewayTakesPush, GatewaySettles, LoseCallback
<1>3. TypeOK'
  BY <1>1 DEF GatewayTakesPush, GatewaySettles, LoseCallback, IInv, TypeOK, GatewayState
<1>4. Grows(payment, payment', Collected, Collected')
  BY <1>1, <1>2 DEF GatewayTakesPush, GatewaySettles, LoseCallback, IInv, TypeOK,
                    Grows, Collected, Charged
<1>5. PaymentsSound'
  BY <1>1, <1>2 DEF GatewayTakesPush, GatewaySettles, LoseCallback, IInv, TypeOK,
                    PaymentsSound, Charged
<1>6. CallbacksSound'
  BY <1>1, <1>2 DEF GatewayTakesPush, GatewaySettles, LoseCallback, IInv, TypeOK,
                    CallbacksSound
<1>7. TasksSound'
  <2>. SUFFICES ASSUME NEW t \in Tasks PROVE Sound(task[t], payment', Collected')
    BY <1>2 DEF TasksSound
  <2>1. Sound(task[t], payment, Collected) /\ Collected \in SUBSET Payments
    BY DEF IInv, TasksSound, Collected
  <2>. QED
    BY <1>4, <2>1, CollectedExist, SoundStable
<1>. QED
  BY <1>2, <1>3, <1>4, <1>5, <1>6, <1>7, TicketsKept DEF IInv
-----------------------------------------------------------------------------
LEMMA InitInv == Init => IInv
<1>. SUFFICES ASSUME Init PROVE IInv
  OBVIOUS
<1>1. TypeOK
  BY EmptyRows, IdleIsTask DEF Init, TypeOK, TicketRow, TicketStatus, GatewayState
<1>2. PaymentsSound /\ CallbacksSound /\ SoldIsCharged /\ LinkIsCharged
  BY DEF Init, PaymentsSound, CallbacksSound, SoldIsCharged, LinkIsCharged,
         NoPayment, PAID
<1>3. TasksSound
  BY DEF Init, TasksSound, Sound, Idle, Handling
<1>. QED
  BY <1>1, <1>2, <1>3 DEF IInv

LEMMA StutterInv == IInv /\ UNCHANGED vars => IInv'
BY DEF vars, IInv, TypeOK, PaymentsSound, CallbacksSound, TasksSound, Collected,
       SoldIsCharged, LinkIsCharged, Charged

LEMMA NextInv == IInv /\ [Next]_vars => IInv'
<1>. SUFFICES ASSUME IInv, [Next]_vars PROVE IInv'
  OBVIOUS
<1>1. ASSUME NEW t \in Tasks, KelpayStart(t) PROVE IInv'
  <2>. PICK p \in Payments :
         \/ \E k \in Tickets : Initiate(t, k, p)
         \/ StartVerify(t, p) \/ StartConfirm(t, p) \/ StartCancel(t, p)
         \/ ReceiveCallback(t, p)
    BY <1>1 DEF KelpayStart
  <2>. QED
    BY InitiateStep, StartSteps, CallbackStep
<1>2. ASSUME NEW t \in Tasks, KelpayStep(t) PROVE IInv'
  <2>1. CASE FinalizeFailure(t)
    BY <2>1, CloseStep DEF FinalizeFailure, LOST
  <2>2. CASE CancelCommit(t)
    BY <2>2, CloseStep DEF CancelCommit, LOST
  <2>3. CASE WebhookChain(t)
    BY <2>3, ChainReadSteps, ChainSaveSteps DEF WebhookChain
  <2>. QED
    BY <1>2, <2>1, <2>2, <2>3, InitiateAnswerSteps, RereadSteps, JournalSteps,
       FinalizeSuccessStep DEF KelpayStep
<1>3. ASSUME NEW t \in Tasks, Abort(t) PROVE IInv'
  BY <1>3, FinishStep DEF Abort
<1>. QED
  BY <1>1, <1>2, <1>3, GatewaySteps, StutterInv DEF Next

(* The inductive invariant, for any number of tickets, payments and         *)
(* requests: whatever row a request holds, writing it back sells or links   *)
(* nothing that was not charged.                                            *)
THEOREM Invariant == Spec => []IInv
BY InitInv, NextInv, PTL DEF Spec

(* Every row, and every row a request still holds, has its type, for any    *)
(* number of tickets, payments and requests, any routes and any faults.     *)
THEOREM TypeCorrect == Spec => []TypeOK
<1>1. IInv => TypeOK
  BY DEF IInv
<1>. QED
  BY <1>1, Invariant, PTL

(* A ticket is sold only for a payment of it that Kelpay charged, in every  *)
(* interleaving of requests, whichever of them fail and wherever they stop. *)
THEOREM SoldOnlyIfCharged == Spec => []SoldIsCharged
<1>1. IInv => SoldIsCharged
  BY DEF IInv
<1>. QED
  BY <1>1, Invariant, PTL

(* tickets.paymentId names only a charged payment of its own ticket. *)
THEOREM LinkOnlyIfCharged == Spec => []LinkIsCharged
<1>1. IInv => LinkIsCharged
  BY DEF IInv
<1>. QED
  BY <1>1, Invariant, PTL

(* A payment is shown as paid only if it was charged, although verify and   *)
(* confirm save rows they read before other requests wrote them.            *)
THEOREM PaidOnlyIfCharged == Spec => []PaidIsCharged
<1>1. IInv => PaidIsCharged
  BY DEF IInv, PaymentsSound, PaidIsCharged
<1>. QED
  BY <1>1, Invariant, PTL
-----------------------------------------------------------------------------
(* What the lock of initiate is worth.  The one step that can open a closed *)
(* payment again is the save of a row read earlier (CheckSave), and the one *)
(* that can close a closed payment differently is that of the rollback.     *)
NoChecks == "verify" \notin Endpoints /\ "confirm" \notin Endpoints

(* A step of another request, or one that leaves slot t at label. *)
LEMMA SlotMoves ==
  ASSUME IInv, NEW t \in Tasks, NEW r, Become(t, r), NEW s \in Tasks
  PROVE  task'[s] = r \/ task'[s] = task[s]
BY DEF IInv, TypeOK, Become

LEMMA NoCheckStep ==
  ASSUME NoChecks, IInv, NoCheckUnderWay, [Next]_vars
  PROVE  NoCheckUnderWay'
<1>1. ASSUME NEW t \in Tasks, NEW r, Become(t, r),
             r.pc \notin {"checkHttp", "checkRead", "checkSave"}
      PROVE  NoCheckUnderWay'
  BY <1>1, SlotMoves DEF NoCheckUnderWay
<1>. USE DEF Handling, Finish, Idle
<1>2. ASSUME NEW t \in Tasks, KelpayStart(t) PROVE NoCheckUnderWay'
  <2>. PICK p \in Payments :
         \/ \E k \in Tickets : Initiate(t, k, p)
         \/ StartVerify(t, p) \/ StartConfirm(t, p) \/ StartCancel(t, p)
         \/ ReceiveCallback(t, p)
    BY <1>2 DEF KelpayStart
  <2>1. CASE \E k \in Tickets : Initiate(t, k, p)
    BY <1>1, <2>1 DEF Initiate
  <2>2. CASE StartVerify(t, p) \/ StartConfirm(t, p)
    BY <2>2 DEF NoChecks, StartVerify, StartConfirm, Free
  <2>3. CASE StartCancel(t, p)
    BY <1>1, <2>3 DEF StartCancel
  <2>4. CASE ReceiveCallback(t, p)
    <3>1. PICK next \in Outcomes(p) : Become(t, Handling(next, p))
      BY <2>4 DEF ReceiveCallback
    <3>2. next \in {"idle", "finalizeSuccess", "finalizeFailure"}
      BY <3>1, <2>4 DEF Outcomes, IInv, CallbacksSound, ReceiveCallback
    <3>. QED
      BY <1>1, <3>1, <3>2
  <2>. QED
    BY <2>1, <2>2, <2>3, <2>4
<1>3. ASSUME NEW t \in Tasks, KelpayStep(t) PROVE NoCheckUnderWay'
  <2>1. CASE \/ InitiateAccepted(t) \/ InitiateRefused(t) \/ InitiateHttpError(t)
             \/ RollbackRead(t) \/ RollbackSave(t)
    BY <1>1, <2>1 DEF InitiateAccepted, InitiateRefused, InitiateHttpError,
                      RollbackRead, RollbackSave
  <2>2. CASE InitiatePersist(t)
    <3>1. task[t].then \in {"idle", "finalizeSuccess", "finalizeFailure"}
      BY <2>2, UnderWay DEF InitiatePersist, Sound
    <3>. QED
      BY <1>1, <2>2, <3>1 DEF InitiatePersist, Continue
  <2>3. CASE CheckAnswered(t) \/ CheckHttpError(t) \/ CheckRead(t) \/ CheckSave(t)
    BY <2>3 DEF NoCheckUnderWay, CheckAnswered, CheckHttpError, CheckRead, CheckSave
  <2>4. CASE FinalizeSuccess(t) \/ FinalizeFailure(t) \/ CancelCommit(t)
    BY <1>1, <2>4 DEF FinalizeSuccess, FinalizeFailure, CancelCommit, Close
  <2>5. CASE WebhookChain(t)
    <3>1. task[t] \in Task
      BY DEF IInv, TypeOK
    <3>. QED
      BY <1>1, <2>5, <3>1 DEF WebhookChain, CompletedRead, SoldRead, SoldSave,
                              FailedRead, ReleaseRead, ReleaseSave, Task
  <2>. QED
    BY <1>3, <2>1, <2>2, <2>3, <2>4, <2>5 DEF KelpayStep
<1>4. ASSUME NEW t \in Tasks, Abort(t) PROVE NoCheckUnderWay'
  BY <1>1, <1>4 DEF Abort
<1>5. CASE Gateway
  BY <1>5 DEF Gateway, GatewayTakesPush, GatewaySettles, LoseCallback, NoCheckUnderWay
<1>6. CASE UNCHANGED vars
  BY <1>6 DEF vars, NoCheckUnderWay
<1>. QED
  BY <1>2, <1>3, <1>4, <1>5, <1>6 DEF Next

(* What a step does to the status and the ticket of a payment, unless it is *)
(* a save of a row read earlier. *)
Advances(p) ==
  \/ /\ payment'[p].status = payment[p].status
     /\ payment'[p].ticketId = payment[p].ticketId
     /\ payment'[p].method = payment[p].method
  \/ /\ payment[p].status \in OPEN
     /\ payment'[p].status \in TERMINAL

(* A request under way, and then any step that opens nothing. *)
LEMMA StepAdvances ==
  ASSUME IInv, NEW t \in Tasks, KelpayStep(t), NEW p \in Payments,
         CheckSave(t) \/ RollbackSave(t) => task[t].p # p
  PROVE  Advances(p)
<1>. USE DEF OPEN, TERMINAL, PAID, LOST
<1>0. payment \in [Payments -> PaymentRow]
  BY DEF IInv, TypeOK
<1>1. CASE \/ InitiateAccepted(t) \/ InitiateRefused(t) \/ InitiateHttpError(t)
           \/ RollbackRead(t)
  BY <1>1 DEF InitiateAccepted, InitiateRefused, InitiateHttpError, RollbackRead,
              Advances
<1>2. CASE InitiatePersist(t)
  <2>. DEFINE b == payment[task[t].p].transactionId \/ task[t].then = "idle"
  <2>1. payment' = [payment EXCEPT ![task[t].p].transactionId = b]
    BY <1>2 DEF InitiatePersist
  <2>. HIDE DEF b
  <2>. QED
    BY <1>0, <2>1 DEF Advances
<1>3. CASE CheckAnswered(t) \/ CheckHttpError(t) \/ CheckRead(t)
  BY <1>3 DEF CheckAnswered, CheckHttpError, CheckRead, Advances
<1>4. CASE FinalizeSuccess(t) \/ FinalizeFailure(t) \/ CancelCommit(t)
  <2>. DEFINE q == task[t].p
  <2>1. \/ payment' = payment
        \/ /\ payment[q].status \in OPEN
           /\ \/ payment' = [payment EXCEPT ![q].status = "success",
                                           ![q].transactionId = TRUE]
              \/ payment' = [payment EXCEPT ![q].status = "failed"]
              \/ payment' = [payment EXCEPT ![q].status = "cancelled"]
    BY <1>4 DEF FinalizeSuccess, FinalizeFailure, CancelCommit, Close
  <2>2. CASE payment' = payment
    BY <2>2 DEF Advances
  <2>3. CASE payment' # payment /\ p # q
    <3>1. payment'[p] = payment[p]
      BY <1>0, <2>1, <2>3
    <3>. QED
      BY <3>1 DEF Advances
  <2>4. CASE payment' # payment /\ p = q
    <3>1. payment[p].status \in OPEN
          /\ payment'[p].status \in {"success", "failed", "cancelled"}
      BY <1>0, <2>1, <2>4 DEF PaymentRow
    <3>. QED
      BY <3>1 DEF Advances
  <2>. QED
    BY <2>2, <2>3, <2>4
<1>5. CASE WebhookChain(t)
  BY <1>5 DEF WebhookChain, CompletedRead, SoldRead, SoldSave,
              FailedRead, ReleaseRead, ReleaseSave, Advances
<1>6. CASE CheckSave(t) \/ RollbackSave(t)
  <2>1. payment'[p] = payment[p]
    BY <1>0, <1>6 DEF CheckSave, RollbackSave
  <2>. QED
    BY <2>1 DEF Advances
<1>. QED
  BY <1>1, <1>2, <1>3, <1>4, <1>5, <1>6 DEF KelpayStep

LEMMA StepsAdvance ==
  ASSUME IInv, [Next]_vars,
         NEW p \in Payments,
         \A t \in Tasks, k \in Tickets : ~Initiate(t, k, p),
         \A t \in Tasks : CheckSave(t) \/ RollbackSave(t) => task[t].p # p
  PROVE  Advances(p)
<1>. USE DEF OPEN, TERMINAL, PAID, LOST
<1>1. payment \in [Payments -> PaymentRow]
  BY DEF IInv, TypeOK
<1>2. ASSUME NEW t \in Tasks, KelpayStart(t) PROVE Advances(p)
  <2>. PICK q \in Payments :
         \/ \E k \in Tickets : Initiate(t, k, q)
         \/ StartVerify(t, q) \/ StartConfirm(t, q) \/ StartCancel(t, q)
         \/ ReceiveCallback(t, q)
    BY <1>2 DEF KelpayStart
  <2>1. CASE \E k \in Tickets : Initiate(t, k, q)
    BY <1>1, <2>1 DEF Initiate, Advances
  <2>2. CASE StartVerify(t, q) \/ StartConfirm(t, q) \/ StartCancel(t, q)
    BY <2>2 DEF StartVerify, StartConfirm, StartCancel, Advances
  <2>3. CASE ReceiveCallback(t, q)
    BY <1>1, <2>3 DEF ReceiveCallback, Advances
  <2>. QED
    BY <2>1, <2>2, <2>3
<1>3. ASSUME NEW t \in Tasks, KelpayStep(t) PROVE Advances(p)
  BY <1>3, StepAdvances
<1>4. ASSUME NEW t \in Tasks, Abort(t) PROVE Advances(p)
  BY <1>4 DEF Abort, Advances
<1>5. CASE Gateway
  BY <1>5 DEF Gateway, GatewayTakesPush, GatewaySettles, LoseCallback, Advances
<1>6. CASE UNCHANGED vars
  BY <1>6 DEF vars, Advances
<1>. QED
  BY <1>2, <1>3, <1>4, <1>5, <1>6 DEF Next

(* The save of the rollback keeps the ticket of the payment and closes it. *)
LEMMA RollbackCloses ==
  ASSUME IInv, NEW t \in Tasks, RollbackSave(t), NEW p \in Payments
  PROVE  /\ payment'[p].ticketId = payment[p].ticketId
         /\ p # task[t].p => payment'[p] = payment[p]
         /\ p = task[t].p => payment'[p].status = "failed"
<1>1. /\ payment \in [Payments -> PaymentRow]
      /\ task[t].paymentRow \in PaymentRow
      /\ task[t].paymentRow.ticketId = payment[task[t].p].ticketId
      /\ payment' = [payment EXCEPT
                       ![task[t].p] = [task[t].paymentRow EXCEPT !.status = "failed"]]
  BY UnderWay DEF RollbackSave, Sound, IInv, TypeOK, Task
<1>. QED
  BY <1>1 DEF PaymentRow

(* Two open payments for one ticket: initiate refuses the second, and       *)
(* nothing else opens one. *)
LEMMA OpenStep ==
  ASSUME IInv, NoCheckUnderWay, OneOpenPayment, [Next]_vars
  PROVE  OneOpenPayment'
<1>1. CASE \E t \in Tasks, k \in Tickets, p \in Payments : Initiate(t, k, p)
  <2>. PICK t \in Tasks, k \in Tickets, p \in Payments : Initiate(t, k, p)
    BY <1>1
  <2>1. \A q \in Payments \ {p} : payment'[q] = payment[q]
    BY DEF Initiate, IInv, TypeOK
  <2>2. payment'[p].ticketId = k /\ \A q \in Payments : ~OpenKelpay(q, k)
    BY DEF Initiate, CatalogAvailable, IInv, TypeOK
  <2>. QED
    BY <2>1, <2>2 DEF OneOpenPayment, OpenKelpay
<1>2. CASE \E t \in Tasks : RollbackSave(t)
  <2>. PICK t \in Tasks : RollbackSave(t)
    BY <1>2
  <2>1. \A q \in Payments, k \in Tickets : OpenKelpay(q, k)' => OpenKelpay(q, k)
    BY RollbackCloses DEF OpenKelpay, OPEN
  <2>. QED
    BY <2>1 DEF OneOpenPayment
<1>3. CASE /\ ~ \E t \in Tasks, k \in Tickets, p \in Payments : Initiate(t, k, p)
           /\ ~ \E t \in Tasks : RollbackSave(t)
  <2>1. \A p \in Payments : Advances(p)
    BY <1>3, StepsAdvance DEF CheckSave, NoCheckUnderWay
  <2>2. \A q \in Payments, k \in Tickets : OpenKelpay(q, k)' => OpenKelpay(q, k)
    BY <2>1 DEF Advances, OpenKelpay, OPEN, TERMINAL, PAID, LOST
  <2>. QED
    BY <2>2 DEF OneOpenPayment
<1>. QED
  BY <1>1, <1>2, <1>3

(* As long as nobody uses verify or confirm, no ticket ever has two open    *)
(* Kelpay payments: the lock and the look-up of initiate are enough,        *)
(* whatever fails.                                                          *)
THEOREM OneOpenWithoutChecks == NoChecks /\ Spec => []OneOpenPayment
<1>. SUFFICES ASSUME NoChecks PROVE Spec => []OneOpenPayment
  OBVIOUS
<1>1. Init => NoCheckUnderWay /\ OneOpenPayment
  BY DEF Init, NoCheckUnderWay, OneOpenPayment, OpenKelpay, Idle, Handling,
         NoPayment, OPEN
<1>2. IInv /\ NoCheckUnderWay /\ OneOpenPayment /\ [Next]_vars
        => NoCheckUnderWay' /\ OneOpenPayment'
  BY NoCheckStep, OpenStep
<1>. QED
  BY <1>1, <1>2, Invariant, PTL DEF Spec

NoHttpErrors == "httpError" \notin Faults

LEMMA NoRollbackStep ==
  ASSUME NoHttpErrors, IInv, NoRollbackUnderWay, [Next]_vars
  PROVE  NoRollbackUnderWay'
<1>1. ASSUME NEW t \in Tasks, NEW r, Become(t, r),
             r.pc \notin {"rollbackRead", "rollbackSave"}
      PROVE  NoRollbackUnderWay'
  BY <1>1, SlotMoves DEF NoRollbackUnderWay
<1>. USE DEF Handling, Finish, Idle
<1>2. ASSUME NEW t \in Tasks, KelpayStart(t) PROVE NoRollbackUnderWay'
  <2>. PICK p \in Payments :
         \/ \E k \in Tickets : Initiate(t, k, p)
         \/ StartVerify(t, p) \/ StartConfirm(t, p) \/ StartCancel(t, p)
         \/ ReceiveCallback(t, p)
    BY <1>2 DEF KelpayStart
  <2>1. CASE \E k \in Tickets : Initiate(t, k, p)
    BY <1>1, <2>1 DEF Initiate
  <2>2. CASE StartVerify(t, p) \/ StartConfirm(t, p) \/ StartCancel(t, p)
    BY <1>1, <2>2 DEF StartVerify, StartConfirm, StartCancel
  <2>3. CASE ReceiveCallback(t, p)
    <3>1. PICK next \in Outcomes(p) : Become(t, Handling(next, p))
      BY <2>3 DEF ReceiveCallback
    <3>2. next \in {"idle", "finalizeSuccess", "finalizeFailure"}
      BY <3>1, <2>3 DEF Outcomes, IInv, CallbacksSound, ReceiveCallback
    <3>. QED
      BY <1>1, <3>1, <3>2
  <2>. QED
    BY <2>1, <2>2, <2>3
<1>3. ASSUME NEW t \in Tasks, KelpayStep(t) PROVE NoRollbackUnderWay'
  <2>1. CASE InitiateAccepted(t) \/ InitiateRefused(t)
    BY <1>1, <2>1 DEF InitiateAccepted, InitiateRefused
  <2>2. CASE InitiateHttpError(t) \/ RollbackRead(t) \/ RollbackSave(t)
    BY <2>2 DEF NoHttpErrors, NoRollbackUnderWay, InitiateHttpError, RollbackRead,
                RollbackSave
  <2>3. CASE InitiatePersist(t) \/ CheckSave(t)
    <3>1. task[t].then \in {"idle", "finalizeSuccess", "finalizeFailure"}
      BY <2>3, UnderWay DEF InitiatePersist, CheckSave, Sound
    <3>2. PICK r : Become(t, r) /\ r.pc \notin {"rollbackRead", "rollbackSave"}
      BY <2>3, <3>1 DEF InitiatePersist, CheckSave, Continue
    <3>. QED
      BY <1>1, <3>2
  <2>4. CASE CheckAnswered(t) \/ CheckHttpError(t)
    BY <1>1, <2>4 DEF CheckAnswered, CheckHttpError
  <2>5. CASE FinalizeSuccess(t) \/ FinalizeFailure(t) \/ CancelCommit(t)
    BY <1>1, <2>5 DEF FinalizeSuccess, FinalizeFailure, CancelCommit, Close
  <2>6. CASE WebhookChain(t) \/ CheckRead(t)
    <3>1. task[t] \in Task
      BY DEF IInv, TypeOK
    <3>. QED
      BY <1>1, <2>6, <3>1 DEF WebhookChain, CompletedRead, SoldRead, SoldSave,
                              FailedRead, ReleaseRead, ReleaseSave, CheckRead, Task
  <2>. QED
    BY <1>3, <2>1, <2>2, <2>3, <2>4, <2>5, <2>6 DEF KelpayStep
<1>4. ASSUME NEW t \in Tasks, Abort(t) PROVE NoRollbackUnderWay'
  BY <1>1, <1>4 DEF Abort
<1>5. CASE Gateway
  BY <1>5 DEF Gateway, GatewayTakesPush, GatewaySettles, LoseCallback,
              NoRollbackUnderWay
<1>6. CASE UNCHANGED vars
  BY <1>6 DEF vars, NoRollbackUnderWay
<1>. QED
  BY <1>2, <1>3, <1>4, <1>5, <1>6 DEF Next

LEMMA TerminalStep ==
  ASSUME IInv, NoCheckUnderWay, NoRollbackUnderWay, [Next]_vars,
         NEW p \in Payments, payment[p].status \in TERMINAL
  PROVE  payment'[p].status = payment[p].status
<1>1. \A t \in Tasks, k \in Tickets : ~Initiate(t, k, p)
  BY DEF Initiate, TERMINAL, PAID, LOST
<1>2. \A t \in Tasks : ~CheckSave(t) /\ ~RollbackSave(t)
  BY DEF CheckSave, RollbackSave, NoCheckUnderWay, NoRollbackUnderWay
<1>3. Advances(p)
  BY <1>1, <1>2, StepsAdvance
<1>. QED
  BY <1>3 DEF Advances, OPEN, TERMINAL, PAID, LOST

(* Without verify and confirm, and as long as no call to Kelpay fails, a    *)
(* closed payment keeps its status: cancel, callback and the answer of      *)
(* initiate all find it closed under the lock.                              *)
THEOREM ClosedStaysClosed == NoChecks /\ NoHttpErrors /\ Spec => TerminalIsFinal
<1>. SUFFICES ASSUME NoChecks, NoHttpErrors PROVE Spec => TerminalIsFinal
  OBVIOUS
<1>. DEFINE NoSaves == NoCheckUnderWay /\ NoRollbackUnderWay
<1>1. Init => NoSaves
  BY DEF Init, NoCheckUnderWay, NoRollbackUnderWay, Idle, Handling
<1>2. IInv /\ NoSaves /\ [Next]_vars => NoSaves'
  BY NoCheckStep, NoRollbackStep
<1>3. IInv /\ NoSaves /\ [Next]_vars =>
        [\A p \in Payments : payment[p].status \in TERMINAL =>
           payment'[p].status = payment[p].status]_vars
  BY TerminalStep
<1>. QED
  BY <1>1, <1>2, <1>3, Invariant, PTL DEF Spec, TerminalIsFinal
-----------------------------------------------------------------------------
(* With every route and every fault.                                        *)
(* A closed payment gets another status only by the save of a row that a    *)
(* verify, a confirm or a rollback has read before.                         *)
THEOREM ClosedOverwrittenBySaves == Spec => ClosedIsOverwrittenBySaves
<1>1. ASSUME IInv, [Next]_vars, NEW p \in Payments, payment[p].status \in TERMINAL,
             payment'[p].status # payment[p].status
      PROVE  \E t \in Tasks : task[t].p = p /\ task[t].pc \in {"checkSave", "rollbackSave"}
  <2>1. \A t \in Tasks, k \in Tickets : ~Initiate(t, k, p)
    BY <1>1 DEF Initiate, TERMINAL, PAID, LOST
  <2>2. ~Advances(p)
    BY <1>1 DEF Advances, OPEN, TERMINAL, PAID, LOST
  <2>. QED
    BY <1>1, <2>1, <2>2, StepsAdvance DEF CheckSave, RollbackSave
<1>2. IInv /\ [Next]_vars =>
        [\A p \in Payments :
           payment[p].status \in TERMINAL /\ payment'[p].status # payment[p].status =>
             \E t \in Tasks :
               task[t].p = p /\ task[t].pc \in {"checkSave", "rollbackSave"}]_vars
  BY <1>1
<1>. QED
  BY <1>2, Invariant, PTL DEF Spec, ClosedIsOverwrittenBySaves
-----------------------------------------------------------------------------
(* Charges that are forgotten.  A step that leaves alone what keeps payment *)
(* p from being stranded does not strand it.                                *)
LEMMA AlreadyStranded ==
  ASSUME NEW p \in Payments, Stranded(p)',
         gateway'[p] = gateway[p], p \in callbacks => p \in callbacks',
         payment'[p].status \in OPEN => payment[p].status \in OPEN,
         \A t \in Tasks : task[t].p = p /\ task[t].pc = "finalizeSuccess" =>
           task'[t] = task[t]
  PROVE  Stranded(p)
BY DEF Stranded, Charged

StrandingFault(p) ==
  \/ LoseCallback(p)
  \/ \E t \in Tasks :
       /\ task[t].p = p
       /\ \/ task[t].pc = "finalizeSuccess" /\ Abort(t)
          \/ CheckSave(t) /\ payment[p].status \in TERMINAL

(* A request that starts was idle, and a notification of a charge leads to  *)
(* the transaction that records it.                                         *)
LEMMA StartStrandsNone ==
  ASSUME IInv, NEW p \in Payments, NEW t \in Tasks, KelpayStart(t), Stranded(p)'
  PROVE  Stranded(p)
<1>. PICK q \in Payments :
       \/ \E k \in Tickets : Initiate(t, k, q)
       \/ StartVerify(t, q) \/ StartConfirm(t, q) \/ StartCancel(t, q)
       \/ ReceiveCallback(t, q)
  BY DEF KelpayStart
<1>0. /\ payment \in [Payments -> PaymentRow] /\ gateway \in [Payments -> GatewayState]
      /\ task \in [Tasks -> Task]
  BY DEF IInv, TypeOK
<1>1. task[t].pc = "idle" /\ \A s \in Tasks \ {t} : task'[s] = task[s]
  BY <1>0 DEF Initiate, StartVerify, StartConfirm, StartCancel, ReceiveCallback, Free, Become
<1>2. CASE \E k \in Tickets : Initiate(t, k, q)
  <2>1. p # q
    BY <1>0, <1>2 DEF Initiate, Stranded, Charged
  <2>. QED
    BY <1>0, <1>1, <1>2, <2>1, AlreadyStranded DEF Initiate
<1>3. CASE StartVerify(t, q) \/ StartConfirm(t, q) \/ StartCancel(t, q)
  BY <1>1, <1>3, AlreadyStranded DEF StartVerify, StartConfirm, StartCancel
<1>4. CASE ReceiveCallback(t, q)
  <2>1. p # q
    <3>1. SUFFICES ASSUME p = q PROVE FALSE
      OBVIOUS
    <3>2. Outcomes(p) = {"finalizeSuccess"}
      BY <1>4, <3>1 DEF Outcomes, ReceiveCallback, Stranded, Charged
    <3>3. task'[t] = Handling("finalizeSuccess", p)
      BY <1>0, <1>4, <3>1, <3>2 DEF ReceiveCallback, Become
    <3>. QED
      BY <3>3 DEF Stranded, Handling
  <2>2. payment'[p] = payment[p] /\ (p \in callbacks => p \in callbacks')
    BY <1>0, <1>4, <2>1 DEF ReceiveCallback
  <2>. QED
    BY <1>1, <1>4, <2>2, AlreadyStranded DEF ReceiveCallback
<1>. QED
  BY <1>2, <1>3, <1>4

(* A request under way strands a payment by the stale save of a check only. *)
LEMMA StepStrandsByCheck ==
  ASSUME IInv, NEW p \in Payments, NEW t \in Tasks, KelpayStep(t),
         ~Stranded(p), Stranded(p)'
  PROVE  StrandingFault(p)
<1>0. /\ payment \in [Payments -> PaymentRow] /\ task \in [Tasks -> Task]
      /\ UNCHANGED <<gateway, callbacks>>
      /\ \A s \in Tasks \ {t} : task'[s] = task[s]
  BY DEF IInv, TypeOK, KelpayStep, InitiateAccepted, InitiateRefused, InitiateHttpError,
         InitiatePersist, Continue, RollbackRead, RollbackSave, CheckAnswered, CheckHttpError,
         CheckRead, CheckSave, FinalizeSuccess, FinalizeFailure, CancelCommit, Close,
         WebhookChain, CompletedRead, SoldRead, SoldSave, FailedRead, ReleaseRead, ReleaseSave,
         Become, Finish
<1>1. payment'[p].status \in OPEN
  BY DEF Stranded
<1>2. CASE CheckSave(t) /\ task[t].p = p
  <2>1. payment[p].status \notin OPEN
    BY <1>0, <1>2, AlreadyStranded DEF CheckSave
  <2>2. payment[p].status \in TERMINAL
    BY <1>0, <1>2, <2>1, UnderWay
       DEF CheckSave, PaymentRow, PaymentStatus, OPEN, TERMINAL, PAID, LOST
  <2>. QED
    BY <1>2, <2>2 DEF StrandingFault
<1>3. CASE RollbackSave(t) /\ task[t].p = p
  BY <1>1, <1>3, RollbackCloses DEF OPEN
<1>4. CASE FinalizeSuccess(t) /\ task[t].p = p
  <2>1. payment[p].status \in OPEN => payment'[p].status = "success"
    BY <1>0, <1>4 DEF FinalizeSuccess, PaymentRow
  <2>2. payment[p].status \notin OPEN => payment' = payment
    BY <1>4 DEF FinalizeSuccess
  <2>. QED
    BY <1>1, <2>1, <2>2 DEF OPEN
<1>5. CASE /\ CheckSave(t) \/ RollbackSave(t) \/ FinalizeSuccess(t) => task[t].p # p
  <2>1. payment'[p].status \in OPEN => payment[p].status \in OPEN
    <3>1. CASE CheckSave(t) \/ RollbackSave(t)
      BY <1>0, <1>5, <3>1 DEF CheckSave, RollbackSave
    <3>2. CASE ~CheckSave(t) /\ ~RollbackSave(t)
      BY <1>5, <3>2, StepAdvances DEF Advances, OPEN, TERMINAL, PAID, LOST
    <3>. QED
      BY <3>1, <3>2
  <2>2. ~(task[t].p = p /\ task[t].pc = "finalizeSuccess")
    BY <1>5 DEF KelpayStep, InitiateAccepted, InitiateRefused, InitiateHttpError,
         InitiatePersist, RollbackRead, RollbackSave, CheckAnswered, CheckHttpError,
         CheckRead, CheckSave, FinalizeFailure, CancelCommit,
         WebhookChain, CompletedRead, SoldRead, SoldSave, FailedRead, ReleaseRead, ReleaseSave
  <2>. QED
    BY <1>0, <2>1, <2>2, AlreadyStranded
<1>. QED
  BY <1>2, <1>3, <1>4, <1>5

LEMMA GatewayStrandsByLoss ==
  ASSUME IInv, NEW p \in Payments, Gateway, ~Stranded(p), Stranded(p)'
  PROVE  LoseCallback(p)
<1>. PICK q \in Payments : GatewayTakesPush(q) \/ GatewaySettles(q) \/ LoseCallback(q)
  BY DEF Gateway
<1>0. gateway \in [Payments -> GatewayState]
  BY DEF IInv, TypeOK
<1>1. CASE GatewayTakesPush(q)
  <2>1. p # q
    BY <1>0, <1>1 DEF GatewayTakesPush, Stranded, Charged
  <2>. QED
    BY <1>0, <1>1, <2>1, AlreadyStranded DEF GatewayTakesPush
<1>2. CASE GatewaySettles(q)
  <2>1. p # q
    BY <1>2 DEF GatewaySettles, Stranded
  <2>. QED
    BY <1>0, <1>2, <2>1, AlreadyStranded DEF GatewaySettles
<1>3. CASE LoseCallback(q)
  BY <1>3, AlreadyStranded DEF LoseCallback
<1>. QED
  BY <1>1, <1>2, <1>3

(* A paid customer's payment is left open, with nothing under way that      *)
(* would record it, only by a lost notification, by a request that ends     *)
(* before its transaction, or by the stale save of a verify or confirm; no  *)
(* interleaving of healthy requests without those does it.                  *)
THEOREM StrandedOnlyByFault == Spec => StrandedByFault
<1>1. ASSUME IInv, [Next]_vars, NEW p \in Payments, ~Stranded(p), Stranded(p)'
      PROVE  StrandingFault(p)
  <2>1. ASSUME NEW t \in Tasks, Abort(t) PROVE StrandingFault(p)
    <3>1. task[t].p = p /\ task[t].pc = "finalizeSuccess"
      BY <1>1, <2>1, AlreadyStranded DEF Abort, Finish, Become, IInv, TypeOK
    <3>. QED
      BY <2>1, <3>1 DEF StrandingFault
  <2>2. ~UNCHANGED vars
    BY <1>1, AlreadyStranded DEF vars
  <2>. QED
    BY <1>1, <2>1, <2>2, StartStrandsNone, StepStrandsByCheck, GatewayStrandsByLoss
       DEF Next, StrandingFault
<1>2. IInv /\ [Next]_vars =>
        [\A p \in Payments : ~Stranded(p) /\ Stranded(p)' =>
           \/ LoseCallback(p)
           \/ \E t \in Tasks :
                /\ task[t].p = p
                /\ \/ task[t].pc = "finalizeSuccess" /\ Abort(t)
                   \/ CheckSave(t) /\ payment[p].status \in TERMINAL]_vars
  BY <1>1 DEF StrandingFault
<1>. QED
  BY <1>2, Invariant, PTL DEF Spec, StrandedByFault
=============================================================================
