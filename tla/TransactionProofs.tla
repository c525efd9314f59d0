-------------------------- MODULE TransactionProofs --------------------------
(***************************************************************************)
(* Theorems about SaleTransactions: what a transaction has decided under   *)
(* its row locks stays so until it commits (TxInv), and therefore each of  *)
(* them is one step of KelpayFlow.                                         *)
(***************************************************************************)
EXTENDS TransactionInvariant, KelpayProofs

(* A transaction depends on the rows it has locked and on its new id alone. *)
LEMMA HoldsStable ==
  ASSUME NEW t, NEW x, NEW r, NEW own, NEW own2, NEW pay, NEW pay2, NEW tck, NEW tck2,
         Holds(t, x, r, own, pay, tck),
         \A y \in Tickets \cup Payments : own[y] = t => own2[y] = t,
         \A p \in Payments : own[p] = t => pay2[p] = pay[p],
         \A k \in Tickets : own[k] = t => tck2[k] = tck[k],
         \A p \in Payments : pay[p].status \in OPEN => pay[p].ticketId \in Tickets,
         x.pc = "insert" => pay2[x.p].status = "absent"
  PROVE  Holds(t, x, r, own2, pay2, tck2)
<1>1. x.pc \in Closing \ {"lockPayment"} => /\ own[x.p] = t /\ own2[x.p] = t
                                            /\ x.p \in Payments /\ pay2[x.p] = pay[x.p]
                                            /\ pay[x.p].ticketId \in Tickets
  BY DEF Holds, Closing
<1>2. x.pc \in {"readOpen", "insert"} => own2[x.k] = t /\ tck2[x.k] = tck[x.k]
  BY DEF Holds, Opening
<1>3. x.pc = "commit" /\ Paying(r) => own2[x.k] = t /\ tck2[x.k] = tck[x.k]
  BY <1>1 DEF Holds, Closing
<1> QED BY <1>1, <1>2, <1>3 DEF Holds, Opening, Closing

LEMMA OpenHasTicket ==
  ASSUME IInv
  PROVE  \A p \in Payments : payment[p].status \in OPEN => payment[p].ticketId \in Tickets
BY DEF IInv, PaymentsSound, OPEN

(* A step of slot t on its own transaction and on rows that no other        *)
(* transaction has locked.                                                  *)
LEMMA SlotStep ==
  ASSUME TxInv, NEW t \in Tasks, NEW STATE x, x \in Transaction,
         tx' = [tx EXCEPT ![t] = x], UNCHANGED pool,
         owner' \in [Tickets \cup Payments -> Tasks \cup {None}],
         \A y \in Tickets \cup Payments : \A u \in Tasks \ {t} :
            owner'[y] = u <=> owner[y] = u,
         \A y \in Tickets \cup Payments : owner'[y] = t =>
            y \in {x.k, x.p} /\ x.pc \notin {"none", "lockTicket", "lockPayment"},
         x.pc = "insert" => x = tx[t] \/ \A u \in Tasks : tx[u].p # x.p,
         \A u \in Tasks \ {t} : task'[u] = task[u],
         Holds(t, x, task'[t], owner', payment', ticket'),
         \A p \in Payments : owner[p] \notin {None, t} => payment'[p] = payment[p],
         \A k \in Tickets : owner[k] \notin {None, t} => ticket'[k] = ticket[k],
         \A p \in Payments : payment[p].status = "absent" =>
            \/ payment'[p].status = "absent"
            \/ tx[t].pc = "insert" /\ tx[t].p = p,
         IInv', IdleIsIdle'
  PROVE  TxInv'
<1>1. TxTypeOK'
  BY DEF TxInv, TxTypeOK, IInv
<1>2. tx'[t] = x /\ \A u \in Tasks \ {t} : tx'[u] = tx[u]
  BY DEF TxInv, TxTypeOK
<1>3. TransactionsHold'
  <2> SUFFICES ASSUME NEW u \in Tasks, u # t
               PROVE  Holds(u, tx'[u], task'[u], owner', payment', ticket')
    BY <1>2 DEF TransactionsHold
  <2>1. Holds(u, tx[u], task[u], owner, payment, ticket)
    BY DEF TxInv, TransactionsHold
  <2>2. u # None
    BY PoolAssumption DEF PoolAssumption
  <2>3. tx[u].pc = "insert" => payment'[tx[u].p].status = "absent"
    BY <2>1 DEF TxInv, InsertsDiffer, Holds
  <2>4. Holds(u, tx[u], task[u], owner', payment', ticket')
    <3>1. \A y \in Tickets \cup Payments : owner[y] = u => owner'[y] = u
      OBVIOUS
    <3>2. \A p \in Payments : owner[p] = u => payment'[p] = payment[p]
      BY <2>2
    <3>3. \A k \in Tickets : owner[k] = u => ticket'[k] = ticket[k]
      BY <2>2
    <3>4. \A p \in Payments : payment[p].status \in OPEN => payment[p].ticketId \in Tickets
      BY OpenHasTicket DEF TxInv
    <3> QED BY <2>1, <2>3, <3>1, <3>2, <3>3, <3>4, HoldsStable
  <2> QED BY <1>2, <2>4
<1>4. InsertsDiffer'
  BY <1>2 DEF TxInv, InsertsDiffer
<1>5. LocksEnd'
  <2> SUFFICES ASSUME NEW y \in Tickets \cup Payments, owner'[y] # None
               PROVE  /\ y \in {tx'[owner'[y]].k, tx'[owner'[y]].p}
                      /\ tx'[owner'[y]].pc \notin {"none", "lockTicket", "lockPayment"}
    BY DEF LocksEnd
  <2>1. owner'[y] \in Tasks
    OBVIOUS
  <2>2. CASE owner'[y] = t
    BY <1>2, <2>2
  <2>3. CASE owner'[y] # t
    <3>1. owner[y] = owner'[y] /\ owner'[y] \in Tasks \ {t}
      BY <2>1, <2>3
    <3> QED BY <1>2, <3>1 DEF TxInv, LocksEnd
  <2> QED BY <2>2, <2>3
<1> QED BY <1>1, <1>3, <1>4, <1>5 DEF TxInv

LEMMA NoTxIsTransaction == NoTx \in Transaction
BY EmptyRows DEF NoTx, Transaction, TxLabel

LEMMA SlotKnown ==
  ASSUME TxInv, NEW t \in Tasks
  PROVE  /\ tx[t] \in Transaction
         /\ Holds(t, tx[t], task[t], owner, payment, ticket)
         /\ t # None
BY PoolAssumption DEF TxInv, TxTypeOK, TransactionsHold, PoolAssumption

LEMMA IdleKept ==
  ASSUME TxInv, NEW t \in Tasks, NEW STATE r, r.pc = "idle" => r = Idle,
         Become(t, r)
  PROVE  IdleIsIdle'
BY DEF TxInv, IdleIsIdle, Become, IInv, TypeOK

(* COMMIT, ROLLBACK and every early return give back all locks. *)
LEMMA EndStep ==
  ASSUME TxInv, NEW t \in Tasks, End(t), UNCHANGED pool,
         \A u \in Tasks \ {t} : task'[u] = task[u],
         \A p \in Payments : owner[p] \notin {None, t} => payment'[p] = payment[p],
         \A k \in Tickets : owner[k] \notin {None, t} => ticket'[k] = ticket[k],
         \A p \in Payments : payment[p].status = "absent" =>
            \/ payment'[p].status = "absent"
            \/ tx[t].pc = "insert" /\ tx[t].p = p,
         IInv', IdleIsIdle'
  PROVE  TxInv'
<1>1. /\ owner \in [Tickets \cup Payments -> Tasks \cup {None}]
      /\ owner' = [r \in Tickets \cup Payments |-> IF owner[r] = t THEN None ELSE owner[r]]
      /\ t # None
  BY SlotKnown DEF End, TxInv, TxTypeOK
<1>2. owner' \in [Tickets \cup Payments -> Tasks \cup {None}]
  BY <1>1
<1>3. \A y \in Tickets \cup Payments : owner'[y] # t
  BY <1>1
<1>4. ASSUME NEW y \in Tickets \cup Payments, NEW u \in Tasks \ {t}
      PROVE  owner'[y] = u <=> owner[y] = u
  <2>1. u # None
    BY SlotKnown
  <2> QED BY <1>1, <2>1
<1>5. NoTx.pc = "none"
  BY DEF NoTx
<1>6. Holds(t, NoTx, task'[t], owner', payment', ticket')
  BY <1>5 DEF Holds, Opening, Closing
<1> QED BY <1>2, <1>3, <1>4, <1>5, <1>6, NoTxIsTransaction, SlotStep DEF End

(* BEGIN takes a connection and no lock. *)
LEMMA BeginStep ==
  ASSUME TxInv, NEW t \in Tasks, NEW STATE x, x \in Transaction, Idling(t), Go(t, x),
         UNCHANGED <<tables, owner>>, x.pc # "insert",
         Holds(t, x, task[t], owner, payment, ticket)
  PROVE  TxInv'
<1>1. \A y \in Tickets \cup Payments : owner[y] # t
  BY SlotKnown DEF TxInv, LocksEnd, Idling
<1>2. IInv' /\ IdleIsIdle' /\ owner' \in [Tickets \cup Payments -> Tasks \cup {None}]
  BY StutterInv DEF TxInv, TxTypeOK, IdleIsIdle, tables, vars
<1> QED BY <1>1, <1>2, SlotStep DEF Go, tables

(* A statement that takes one lock or none. *)
LEMMA InnerStep ==
  ASSUME TxInv, NEW t \in Tasks, NEW STATE x, x \in Transaction, Go(t, x),
         UNCHANGED tables,
         UNCHANGED owner \/ \E y \in {x.k, x.p} \cap (Tickets \cup Payments) : Lock(t, y),
         \A y \in Tickets \cup Payments : owner[y] = t => y \in {x.k, x.p},
         x.pc \notin {"none", "lockTicket", "lockPayment"},
         x.pc = "insert" => \A u \in Tasks : tx[u].p # x.p,
         Holds(t, x, task[t], owner', payment, ticket)
  PROVE  TxInv'
<1>1. /\ owner \in [Tickets \cup Payments -> Tasks \cup {None}]
      /\ t # None
  BY SlotKnown DEF TxInv, TxTypeOK
<1>2. /\ owner' \in [Tickets \cup Payments -> Tasks \cup {None}]
      /\ \A y \in Tickets \cup Payments : owner'[y] = t => y \in {x.k, x.p}
      /\ \A y \in Tickets \cup Payments : \A u \in Tasks \ {t} :
            owner'[y] = u <=> owner[y] = u
  <2>1. CASE UNCHANGED owner
    BY <1>1, <2>1
  <2>2. CASE \E y \in {x.k, x.p} \cap (Tickets \cup Payments) : Lock(t, y)
    <3>1. PICK y \in {x.k, x.p} \cap (Tickets \cup Payments) : Lock(t, y)
      BY <2>2
    <3>2. owner[y] = None /\ owner' = [owner EXCEPT ![y] = t] /\ None \notin Tasks
      BY <3>1, PoolAssumption DEF Lock, PoolAssumption
    <3> QED BY <1>1, <3>1, <3>2
  <2> QED BY <2>1, <2>2
<1>3. IInv' /\ IdleIsIdle'
  BY StutterInv DEF TxInv, IdleIsIdle, tables, vars
<1> QED BY <1>2, <1>3, SlotStep DEF Go, tables
-----------------------------------------------------------------------------
LEMMA BeginInitiateSound ==
  ASSUME TxInv, NEW t \in Tasks, NEW k \in Tickets, BeginInitiate(t, k)
  PROVE  TxInv'
<1> DEFINE x == [NoTx EXCEPT !.pc = "lockTicket", !.k = k]
<1>1. x \in Transaction /\ x.pc = "lockTicket" /\ x.k = k /\ x.p = None /\ x.claims = FALSE
  BY EmptyRows DEF NoTx, Transaction, TxLabel
<1>2. Idling(t) /\ Go(t, x) /\ UNCHANGED <<tables, owner>> /\ "initiate" \in Endpoints
      /\ task[t] = Idle
  BY DEF BeginInitiate, Free, TxInv, IdleIsIdle
<1> HIDE DEF x
<1>3. Holds(t, x, task[t], owner, payment, ticket)
  BY <1>1, <1>2 DEF Holds, Opening, Closing
<1> QED BY <1>1, <1>2, <1>3, BeginStep

LEMMA LockTicketSound ==
  ASSUME TxInv, NEW t \in Tasks, LockTicket(t)
  PROVE  TxInv'
<1> DEFINE k == tx[t].k
           x == [tx[t] EXCEPT !.pc = "readOpen"]
<1>1. /\ tx[t].pc = "lockTicket" /\ owner[k] = None /\ UNCHANGED tables
      /\ k \in Tickets /\ tx[t].p = None
  BY SlotKnown DEF LockTicket, Holds, Opening
<1>2. CASE ticket[k].status = "available"
  <2>1. Lock(t, k) /\ Go(t, x)
    BY <1>2 DEF LockTicket
  <2>2. /\ x \in Transaction /\ x.pc = "readOpen"
        /\ x.k = k /\ x.p = None /\ x.claims = tx[t].claims
    BY <1>1, SlotKnown DEF Transaction, TxLabel
  <2> HIDE DEF x
  <2>3. owner'[k] = t
    BY <1>1, <2>1 DEF Lock, TxInv, TxTypeOK
  <2>4. Holds(t, x, task[t], owner', payment, ticket)
    BY <1>1, <1>2, <2>2, <2>3, SlotKnown DEF Holds, Opening, Closing
  <2>5. \A y \in Tickets \cup Payments : owner[y] # t
    BY <1>1, SlotKnown DEF TxInv, LocksEnd
  <2> QED BY <1>1, <2>1, <2>2, <2>4, <2>5, InnerStep
<1>3. CASE ticket[k].status # "available"
  <2>1. IInv' /\ IdleIsIdle'
    BY <1>1, StutterInv DEF TxInv, IdleIsIdle, tables, vars
  <2> QED BY <1>1, <1>3, <2>1, EndStep DEF LockTicket, tables
<1> QED BY <1>2, <1>3

LEMMA Fates == \A fate \in {FALSE} \cup {"dbError" \in Faults} : fate \in BOOLEAN
<1>1. ("dbError" \in Faults) \in BOOLEAN
  OBVIOUS
<1> QED BY <1>1, Zenon

(* The new id is drawn while the ticket is locked. *)
LEMMA DrawSound ==
  ASSUME TxInv, NEW t \in Tasks, tx[t].pc = "readOpen", UNCHANGED <<tables, owner>>,
         NEW p \in Payments, payment[p].status = "absent", \A u \in Tasks : tx[u].p # p,
         NEW fate \in BOOLEAN,
         Go(t, [tx[t] EXCEPT !.pc = "insert", !.p = p, !.doomed = fate])
  PROVE  TxInv'
<1> DEFINE x == [tx[t] EXCEPT !.pc = "insert", !.p = p, !.doomed = fate]
<1>1. /\ x \in Transaction /\ x.pc = "insert"
      /\ x.k = tx[t].k /\ x.p = p /\ x.claims = tx[t].claims
  BY SlotKnown DEF Transaction, TxLabel
<1>2. Go(t, x)
  OBVIOUS
<1> HIDE DEF x
<1>3. Holds(t, x, task[t], owner', payment, ticket)
  <2>1. /\ "initiate" \in Endpoints /\ task[t] = Idle /\ x.k \in Tickets /\ ~x.claims
        /\ owner[x.k] = t /\ ticket[x.k].status = "available"
    <3>1. /\ "initiate" \in Endpoints /\ task[t] = Idle /\ tx[t].k \in Tickets /\ ~tx[t].claims
          /\ owner[tx[t].k] = t /\ ticket[tx[t].k].status = "available"
      BY SlotKnown DEF Holds, Opening
    <3> QED BY <1>1, <3>1, Zenon
  <2>2. owner' = owner /\ payment[x.p].status = "absent" /\ x.p \in Payments
    BY <1>1
  <2> QED BY <1>1, <2>1, <2>2 DEF Holds, Opening, Closing
<1>4. tx[t].p = None
  BY SlotKnown DEF Holds
<1>5. \A y \in Tickets \cup Payments : owner[y] = t => y \in {x.k, x.p}
  BY <1>1, <1>4, SlotKnown, ConstantsAssumption DEF TxInv, LocksEnd, ConstantsAssumption
<1> QED BY <1>1, <1>2, <1>3, <1>5, InnerStep

LEMMA ReadOpenSound ==
  ASSUME TxInv, NEW t \in Tasks, ReadOpen(t)
  PROVE  TxInv'
<1>1. tx[t].pc = "readOpen" /\ UNCHANGED tables
  BY DEF ReadOpen
<1>2. CASE \E q \in Payments : OpenKelpay(q, tx[t].k)
  <2>1. IInv' /\ IdleIsIdle'
    BY <1>1, StutterInv DEF TxInv, IdleIsIdle, tables, vars
  <2> QED BY <1>1, <1>2, <2>1, EndStep DEF ReadOpen, tables
<1>3. CASE ~ \E q \in Payments : OpenKelpay(q, tx[t].k)
  <2>1. PICK p \in Payments, fate \in {FALSE} \cup {"dbError" \in Faults} :
          /\ payment[p].status = "absent"
          /\ \A u \in Tasks : tx[u].p # p
          /\ Go(t, [tx[t] EXCEPT !.pc = "insert", !.p = p, !.doomed = fate])
          /\ UNCHANGED owner
    BY <1>3 DEF ReadOpen
  <2> QED BY <1>1, <2>1, Fates, DrawSound, Zenon
<1> QED BY <1>2, <1>3

(* The INSERT of initiate is a new payment also if another one of the ticket *)
(* has been reopened since ReadOpen.                                         *)
LEMMA InsertSound ==
  ASSUME TxInv, NEW t \in Tasks, Insert(t)
  PROVE  TxInv'
<1> DEFINE p == tx[t].p
<1>1. /\ tx[t].pc = "insert" /\ p \in Payments /\ tx[t].k \in Tickets
      /\ payment[p].status = "absent"
      /\ payment' = [payment EXCEPT ![p] = InsertedRow(tx[t].k)]
      /\ gateway' = [gateway EXCEPT ![p] = "sent"]
      /\ Become(t, Handling("initiateHttp", p)) /\ End(t)
      /\ UNCHANGED <<ticket, callbacks, pool>>
  BY SlotKnown DEF Insert, Holds, Opening
<1>2. IInv'
  BY <1>1, OpeningStep DEF InsertedRow, TxInv
<1>3. IdleIsIdle'
  <2>1. Handling("initiateHttp", p).pc # "idle"
    BY DEF Handling
  <2> QED BY <1>1, <2>1, IdleKept
<1>4. \A u \in Tasks \ {t} : task'[u] = task[u]
  BY <1>1 DEF Become, TxInv, IInv, TypeOK
<1>5. \A q \in Payments : q # p => payment'[q] = payment[q]
  BY <1>1 DEF TxInv, IInv, TypeOK
<1>6. owner[p] \in {None, t}
  <2>1. CASE owner[p] # None
    <3>1. owner[p] \in Tasks /\ p \in Tickets \cup Payments
      BY <1>1, <2>1 DEF TxInv, TxTypeOK
    <3> DEFINE u == owner[p]
    <3>2. p \in {tx[u].k, tx[u].p} /\ tx[u].pc \notin {"none", "lockTicket", "lockPayment"}
      BY <2>1, <3>1 DEF TxInv, LocksEnd
    <3>3. tx[u] \in Transaction /\ Holds(u, tx[u], task[u], owner, payment, ticket)
      BY <3>1, SlotKnown
    <3>4. tx[u].pc \in Closing \/ tx[u].pc \in {"readOpen", "insert"}
      BY <3>2, <3>3 DEF Transaction, TxLabel, Closing
    <3>5. tx[u].k \in Tickets \cup {None} /\ p \notin Tickets /\ p # None
      BY <1>1, <3>3, PoolAssumption, ConstantsAssumption
         DEF Transaction, PoolAssumption, ConstantsAssumption
    <3>6. tx[u].p = p
      BY <3>2, <3>5
    <3>7. CASE tx[u].pc \in Closing
      <4>1. tx[u].pc # "lockPayment"
        BY <3>2
      <4>2. payment[p].status \in OPEN
        BY <3>3, <3>6, <3>7, <4>1 DEF Holds
      <4> QED BY <1>1, <4>2 DEF OPEN
    <3>8. CASE tx[u].pc = "readOpen"
      BY <1>1, <3>3, <3>6, <3>8, ConstantsAssumption DEF Holds, ConstantsAssumption
    <3>9. CASE tx[u].pc = "insert"
      BY <1>1, <3>1, <3>6, <3>9 DEF TxInv, InsertsDiffer
    <3> QED BY <3>4, <3>7, <3>8, <3>9
  <2> QED BY <2>1
<1> QED BY <1>1, <1>2, <1>3, <1>4, <1>5, <1>6, EndStep

LEMMA InsertFailsSound ==
  ASSUME TxInv, NEW t \in Tasks, InsertFails(t)
  PROVE  TxInv'
<1>1. IInv' /\ IdleIsIdle'
  BY StutterInv DEF InsertFails, TxInv, IdleIsIdle, tables, vars
<1> QED BY <1>1, EndStep DEF InsertFails, tables
-----------------------------------------------------------------------------
LEMMA ClosedAsIs ==
  /\ DOMAIN ClosedAs = {"finalizeSuccess", "finalizeFailure", "cancelCommit"}
  /\ ClosedAs["finalizeSuccess"] = "success"
  /\ ClosedAs["finalizeFailure"] = "failed"
  /\ ClosedAs["cancelCommit"] = "cancelled"
BY DEF ClosedAs

(* The request of a closing transaction, and its payment. *)
LEMMA ClosingKnown ==
  ASSUME TxInv, NEW t \in Tasks, tx[t].pc \in Closing
  PROVE  /\ task[t].pc \in {"finalizeSuccess", "finalizeFailure", "cancelCommit"}
         /\ task[t].pc # "idle"
         /\ tx[t].p = task[t].p /\ tx[t].p \in Payments
         /\ payment[tx[t].p] \in PaymentRow
         /\ payment[tx[t].p].status # "absent"
         /\ payment[tx[t].p].ticketId \in Tickets
<1>1. /\ task[t].pc \in {"finalizeSuccess", "finalizeFailure", "cancelCommit"}
      /\ tx[t].p = task[t].p /\ tx[t].p \in Payments
  BY ClosedAsIs, SlotKnown DEF Holds
<1> QED BY <1>1, UnderWay DEF TxInv

LEMMA BeginCloseSound ==
  ASSUME TxInv, NEW t \in Tasks, BeginClose(t)
  PROVE  TxInv'
<1> DEFINE x == [NoTx EXCEPT !.pc = "lockPayment", !.p = task[t].p]
<1>1. /\ task[t].pc \in DOMAIN ClosedAs /\ Idling(t) /\ Go(t, x)
      /\ UNCHANGED <<tables, owner>>
  BY DEF BeginClose
<1>2. task[t].p \in Payments
  BY <1>1, ClosedAsIs, UnderWay DEF TxInv
<1>3. /\ x \in Transaction /\ x.pc = "lockPayment" /\ x.k = None
      /\ x.p = task[t].p /\ x.claims = FALSE
  BY <1>2, EmptyRows DEF NoTx, Transaction, TxLabel
<1> HIDE DEF x
<1>4. Holds(t, x, task[t], owner, payment, ticket)
  BY <1>1, <1>2, <1>3 DEF Holds, Opening, Closing
<1> QED BY <1>1, <1>3, <1>4, BeginStep

(* A request that finishes, its transaction with it. *)
LEMMA EndFinishSound ==
  ASSUME TxInv, NEW t \in Tasks, End(t), Finish(t),
         UNCHANGED <<ticket, payment, gateway, callbacks, pool>>
  PROVE  TxInv'
<1>1. IInv'
  BY FinishStep DEF TxInv
<1>2. IdleIsIdle'
  BY IdleKept DEF Finish
<1>3. \A u \in Tasks \ {t} : task'[u] = task[u]
  BY DEF Finish, Become, TxInv, IInv, TypeOK
<1> QED BY <1>1, <1>2, <1>3, EndStep

LEMMA LockPaymentSound ==
  ASSUME TxInv, NEW t \in Tasks, LockPayment(t)
  PROVE  TxInv'
<1> DEFINE p == tx[t].p
           x == [tx[t] EXCEPT !.pc = "savePayment", !.paymentRow = payment[p]]
<1>1. /\ tx[t].pc = "lockPayment" /\ tx[t].pc \in Closing /\ owner[p] = None
      /\ UNCHANGED <<ticket, payment, gateway, callbacks, pool>>
  BY DEF LockPayment, Closing
<1>2. CASE payment[p].status \in OPEN
  <2>1. Lock(t, p) /\ Go(t, x) /\ UNCHANGED task
    BY <1>2 DEF LockPayment
  <2>2. /\ x \in Transaction /\ x.pc = "savePayment" /\ x.paymentRow = payment[p]
        /\ x.k = tx[t].k /\ x.p = p /\ x.claims = tx[t].claims
    BY <1>1, SlotKnown, ClosingKnown DEF Transaction, TxLabel
  <2> HIDE DEF x
  <2>3. owner'[p] = t
    BY <1>1, <2>1, ClosingKnown DEF Lock, TxInv, TxTypeOK
  <2>4. tx[t].k = None /\ ~tx[t].claims
    BY <1>1, SlotKnown DEF Holds
  <2>5. Holds(t, x, task[t], owner', payment, ticket)
    BY <1>1, <1>2, <2>2, <2>3, <2>4, ClosedAsIs, ClosingKnown DEF Holds, Opening, Closing
  <2>6. \A y \in Tickets \cup Payments : owner[y] # t
    BY <1>1, SlotKnown DEF TxInv, LocksEnd
  <2>7. UNCHANGED tables
    BY <1>1, <2>1 DEF tables
  <2> QED BY <1>1, <2>1, <2>2, <2>5, <2>6, <2>7, ClosingKnown, InnerStep
<1>3. CASE payment[p].status \notin OPEN
  BY <1>1, <1>3, EndFinishSound DEF LockPayment
<1> QED BY <1>2, <1>3

LEMMA ClosedRowIs ==
  ASSUME NEW r, NEW row \in PaymentRow,
         r.pc \in {"finalizeSuccess", "finalizeFailure", "cancelCommit"}
  PROVE  /\ ClosedRow(r, row) \in PaymentRow
         /\ ClosedRow(r, row).ticketId = row.ticketId
         /\ Paying(r) => ClosedRow(r, row) = [row EXCEPT !.status = "success", !.transactionId = TRUE]
         /\ ~Paying(r) => ClosedRow(r, row) = [row EXCEPT !.status = ClosedAs[r.pc]]
<1>1. CASE Paying(r)
  <2>1. r.pc = "finalizeSuccess" /\ (row.transactionId \/ Paying(r)) = TRUE
    BY <1>1 DEF Paying
  <2>2. ClosedRow(r, row) = [row EXCEPT !.status = "success", !.transactionId = TRUE]
    <3>1. PICK a, b : a = ClosedAs[r.pc] /\ b = (row.transactionId \/ Paying(r))
      OBVIOUS
    <3>2. ClosedRow(r, row) = [row EXCEPT !.status = a, !.transactionId = b]
      BY <3>1 DEF ClosedRow
    <3>3. a = "success"
      BY <2>1, <3>1, ClosedAsIs
    <3>4. b = TRUE
      BY <2>1, <3>1, Zenon
    <3> QED BY <3>2, <3>3, <3>4, Zenon
  <2> QED BY <1>1, <2>2 DEF PaymentRow, PaymentStatus
<1>2. CASE ~Paying(r)
  <2>1. PICK a, b : a = ClosedAs[r.pc] /\ b = (row.transactionId \/ Paying(r))
    OBVIOUS
  <2>2. ClosedRow(r, row) = [row EXCEPT !.status = a, !.transactionId = b]
    BY <2>1 DEF ClosedRow
  <2>3. b = row.transactionId
    <3>1. row.transactionId \in BOOLEAN
      BY DEF PaymentRow
    <3>2. (row.transactionId \/ FALSE) = row.transactionId
      BY <3>1
    <3>3. Paying(r) = FALSE
      BY <1>2 DEF Paying
    <3> QED BY <2>1, <3>2, <3>3, Zenon
  <2>4. a \in {"failed", "cancelled"}
    BY <1>2, <2>1, ClosedAsIs DEF Paying
  <2>5. ClosedRow(r, row) = [row EXCEPT !.status = a]
    <3>1. [row EXCEPT !.status = a, !.transactionId = row.transactionId] = [row EXCEPT !.status = a]
      BY DEF PaymentRow
    <3> QED BY <2>2, <2>3, <3>1, Zenon
  <2>6. ClosedRow(r, row) \in PaymentRow /\ ClosedRow(r, row).ticketId = row.ticketId
    BY <2>4, <2>5 DEF PaymentRow, PaymentStatus
  <2> QED BY <1>2, <2>1, <2>5, <2>6, Zenon
<1> QED BY <1>1, <1>2

LEMMA SavePaymentSound ==
  ASSUME TxInv, NEW t \in Tasks, SavePayment(t)
  PROVE  TxInv'
<1> DEFINE paid == Paying(task[t])
           row == ClosedRow(task[t], tx[t].paymentRow)
           x == [tx[t] EXCEPT !.pc = IF paid THEN "claimLock" ELSE "commit",
                              !.k = IF paid THEN @ ELSE None, !.paymentRow = row]
<1>1. /\ tx[t].pc = "savePayment" /\ tx[t].pc \in Closing \ {"lockPayment"}
      /\ UNCHANGED <<tables, owner>>
  BY DEF SavePayment, Closing
<1>2. /\ owner[tx[t].p] = t /\ payment[tx[t].p].status \in OPEN
      /\ tx[t].paymentRow = payment[tx[t].p]
      /\ tx[t].k = None /\ ~tx[t].claims
  BY <1>1, SlotKnown DEF Holds
<1>3. row \in PaymentRow
  BY <1>1, <1>2, ClosingKnown, ClosedRowIs
<1>4. Go(t, x)
  <2>1. row = [tx[t].paymentRow EXCEPT !.status = ClosedAs[task[t].pc],
                                       !.transactionId = @ \/ paid]
    BY DEF ClosedRow
  <2>2. Go(t, [tx[t] EXCEPT !.pc = IF paid THEN "claimLock" ELSE "commit",
                            !.k = IF paid THEN @ ELSE None,
                            !.paymentRow.status = ClosedAs[task[t].pc],
                            !.paymentRow.transactionId = @ \/ paid])
    BY DEF SavePayment, Paying
  <2>3. tx[t] \in Transaction
    BY SlotKnown
  <2> HIDE DEF paid
  <2>4. x = [tx[t] EXCEPT !.pc = IF paid THEN "claimLock" ELSE "commit",
                          !.k = IF paid THEN @ ELSE None,
                          !.paymentRow.status = ClosedAs[task[t].pc],
                          !.paymentRow.transactionId = @ \/ paid]
    BY <2>1, <2>3 DEF Transaction, PaymentRow
  <2> QED BY <2>2, <2>4, Zenon
<1> HIDE DEF row
<1>5. /\ x \in Transaction /\ x.pc = IF paid THEN "claimLock" ELSE "commit"
      /\ x.k = None /\ x.p = tx[t].p /\ x.paymentRow = row /\ x.claims = tx[t].claims
  <2>1. tx[t] \in Transaction
    BY SlotKnown
  <2> HIDE DEF paid
  <2> QED BY <1>2, <1>3, <2>1 DEF Transaction, TxLabel
<1> HIDE DEF x
<1>6. Holds(t, x, task[t], owner', payment, ticket)
  <2>1. row = ClosedRow(task[t], payment[x.p]) /\ owner' = owner
    BY <1>1, <1>2, <1>5 DEF row
  <2>2. x.pc \in {"claimLock", "commit"} /\ x.pc \in Closing /\ (x.pc = "claimLock" <=> paid)
    BY <1>5 DEF Closing
  <2>3. x.p \in Payments /\ x.p = task[t].p /\ task[t].pc \in DOMAIN ClosedAs
    BY <1>1, <1>5, ClosedAsIs, ClosingKnown
  <2>4. ~x.claims
    BY <1>2, <1>5, Zenon
  <2> QED BY <1>2, <1>5, <2>1, <2>2, <2>3, <2>4 DEF Holds, Opening
<1>7. \A y \in Tickets \cup Payments : owner[y] = t => y \in {x.k, x.p}
  BY <1>2, <1>5, SlotKnown, ConstantsAssumption DEF TxInv, LocksEnd, ConstantsAssumption
<1> QED BY <1>1, <1>4, <1>5, <1>6, <1>7, InnerStep

LEMMA ClaimLockSound ==
  ASSUME TxInv, NEW t \in Tasks, ClaimLock(t)
  PROVE  TxInv'
<1> DEFINE k == tx[t].paymentRow.ticketId
           c == Claimable(k, tx[t].p)
           row == [status |-> "sold", paymentId |-> tx[t].p]
           x == [tx[t] EXCEPT !.pc = "commit", !.k = k, !.claims = c, !.ticketRow = row]
<1>1. /\ tx[t].pc = "claimLock" /\ tx[t].pc \in Closing \ {"lockPayment"}
      /\ Lock(t, k) /\ Go(t, x) /\ UNCHANGED tables
  BY DEF ClaimLock, Claim, Closing
<1>2. /\ owner[tx[t].p] = t /\ payment[tx[t].p].status \in OPEN
      /\ tx[t].paymentRow = ClosedRow(task[t], payment[tx[t].p])
      /\ tx[t].k = None /\ Paying(task[t])
  BY <1>1, SlotKnown DEF Holds
<1>3. k = payment[tx[t].p].ticketId /\ k \in Tickets
  <2>1. /\ payment[tx[t].p] \in PaymentRow /\ payment[tx[t].p].ticketId \in Tickets
        /\ task[t].pc \in {"finalizeSuccess", "finalizeFailure", "cancelCommit"}
    BY <1>1, ClosingKnown
  <2>2. ClosedRow(task[t], payment[tx[t].p]).ticketId = payment[tx[t].p].ticketId
    BY <2>1, ClosedRowIs, Zenon
  <2> QED BY <1>2, <2>1, <2>2, Zenon
<1>4. row \in TicketRow /\ c \in BOOLEAN
  BY <1>1, ClosingKnown DEF TicketRow, TicketStatus, Claimable
<1>5. c <=> \/ ticket[k].status = "available"
            \/ ticket[k].status = "reserved" /\ ticket[k].paymentId = tx[t].p
  BY DEF Claimable
<1> HIDE DEF k, c, row
<1>6. /\ x \in Transaction /\ x.pc = "commit" /\ x.k = k /\ x.p = tx[t].p
      /\ x.paymentRow = tx[t].paymentRow /\ (x.claims <=> c) /\ x.ticketRow = row
  <2>1. tx[t] \in Transaction
    BY SlotKnown
  <2> QED BY <1>3, <1>4, <2>1 DEF Transaction, TxLabel
<1> HIDE DEF x
<1>7. owner'[k] = t /\ owner'[x.p] = t
  <2>1. owner \in [Tickets \cup Payments -> Tasks \cup {None}] /\ x.p \in Payments
    BY <1>1, <1>6, ClosingKnown DEF TxInv, TxTypeOK
  <2> QED BY <1>1, <1>2, <1>3, <1>6, <2>1 DEF Lock
<1>8. Holds(t, x, task[t], owner', payment, ticket)
  <2>1. x.p \in Payments /\ x.p = task[t].p /\ task[t].pc \in DOMAIN ClosedAs
    BY <1>1, <1>6, ClosedAsIs, ClosingKnown
  <2>2. x.paymentRow = ClosedRow(task[t], payment[x.p]) /\ payment[x.p].status \in OPEN
        /\ x.k = payment[x.p].ticketId /\ x.ticketRow = [status |-> "sold", paymentId |-> x.p]
    BY <1>2, <1>3, <1>6 DEF row
  <2>3. x.claims <=> \/ ticket[x.k].status = "available"
                     \/ ticket[x.k].status = "reserved" /\ ticket[x.k].paymentId = x.p
    BY <1>5, <1>6
  <2>4. owner'[x.k] = t
    BY <1>6, <1>7
  <2> QED BY <1>2, <1>6, <1>7, <2>1, <2>2, <2>3, <2>4 DEF Holds, Opening, Closing
<1>9. \A y \in Tickets \cup Payments : owner[y] = t => y \in {x.k, x.p}
  BY <1>2, <1>6, SlotKnown, ConstantsAssumption DEF TxInv, LocksEnd, ConstantsAssumption
<1> QED BY <1>1, <1>3, <1>6, <1>8, <1>9, InnerStep

(* The commit of a closing transaction is the step KelpayFlow makes of it. *)
LEMMA CommitIsClose ==
  ASSUME TxInv, NEW t \in Tasks, CommitClose(t)
  PROVE  \/ FinalizeSuccess(t)
         \/ task[t].pc = "finalizeFailure" /\ FinalizeFailure(t)
         \/ task[t].pc = "cancelCommit" /\ CancelCommit(t)
<1> DEFINE p == task[t].p
<1>1. tx[t].pc = "commit" /\ tx[t].pc \in Closing \ {"lockPayment"}
  BY DEF CommitClose, Closing
<1>2. /\ tx[t].p = p /\ p \in Payments /\ payment[p] \in PaymentRow
      /\ payment[p].status \in OPEN
      /\ tx[t].paymentRow = ClosedRow(task[t], payment[p])
      /\ task[t].pc \in {"finalizeSuccess", "finalizeFailure", "cancelCommit"}
  <2>1. /\ payment[tx[t].p].status \in OPEN
        /\ tx[t].paymentRow = ClosedRow(task[t], payment[tx[t].p])
    BY <1>1, SlotKnown DEF Holds
  <2> QED BY <1>1, <2>1, ClosingKnown, Zenon
<1>3. payment' = [payment EXCEPT ![p] = ClosedRow(task[t], payment[p])]
  BY <1>2 DEF CommitClose
<1>4. CASE Paying(task[t])
  <2>1. task[t].pc = "finalizeSuccess"
    BY <1>4 DEF Paying
  <2>2. payment' = [payment EXCEPT ![p].status = "success", ![p].transactionId = TRUE]
    <3>1. ClosedRow(task[t], payment[p])
            = [payment[p] EXCEPT !.status = "success", !.transactionId = TRUE]
      BY <1>2, <1>4, ClosedRowIs
    <3> QED BY <1>2, <1>3, <3>1 DEF TxInv, IInv, TypeOK, PaymentRow
  <2>3. ticket' = Claimed(payment[p].ticketId, p)
    <3>1. /\ tx[t].k = payment[p].ticketId
          /\ tx[t].claims <=> Claimable(tx[t].k, p)
          /\ tx[t].ticketRow = [status |-> "sold", paymentId |-> p]
      BY <1>1, <1>2, <1>4, SlotKnown DEF Holds, Claimable
    <3>2. ticket' = IF tx[t].claims THEN [ticket EXCEPT ![tx[t].k] = tx[t].ticketRow] ELSE ticket
      BY DEF CommitClose
    <3> QED BY <3>1, <3>2, Zenon DEF Claimed
  <2>4. Become(t, Handling("completedRead", p)) /\ UNCHANGED <<gateway, callbacks>>
    BY <1>2, <2>1 DEF CommitClose
  <2> QED BY <1>2, <2>1, <2>2, <2>3, <2>4 DEF FinalizeSuccess
<1>5. CASE ~Paying(task[t])
  <2>1. task[t].pc \in {"finalizeFailure", "cancelCommit"}
    BY <1>2, <1>5 DEF Paying
  <2>2. payment' = [payment EXCEPT ![p].status = ClosedAs[task[t].pc]]
    <3>1. ClosedRow(task[t], payment[p]) = [payment[p] EXCEPT !.status = ClosedAs[task[t].pc]]
      BY <1>2, <1>5, ClosedRowIs
    <3> QED BY <1>3, <3>1
  <2>3. ticket' = ticket /\ Become(t, Handling("failedRead", p)) /\ UNCHANGED <<gateway, callbacks>>
    <3>1. ~tx[t].claims
      BY <1>1, <1>5, SlotKnown DEF Holds
    <3> QED BY <1>2, <2>1, <3>1 DEF CommitClose
  <2> QED BY <1>2, <2>1, <2>2, <2>3, ClosedAsIs DEF FinalizeFailure, CancelCommit, Close
<1> QED BY <1>4, <1>5

LEMMA CommitCloseSound ==
  ASSUME TxInv, NEW t \in Tasks, CommitClose(t)
  PROVE  TxInv'
<1> DEFINE p == tx[t].p
<1>1. tx[t].pc = "commit" /\ tx[t].pc \in Closing \ {"lockPayment"} /\ End(t) /\ UNCHANGED pool
  BY DEF CommitClose, Closing
<1>2. IInv'
  <2>1. IInv /\ "failed" \in LOST /\ "cancelled" \in LOST
    BY DEF TxInv, LOST
  <2>2. task[t].pc # "idle"
    BY <1>1, ClosingKnown
  <2> QED BY <2>1, <2>2, CommitIsClose, FinalizeSuccessStep, CloseStep
          DEF FinalizeFailure, CancelCommit
<1>3. PICK label \in {"completedRead", "failedRead"} : Become(t, Handling(label, p))
  BY DEF CommitClose
<1>4. IdleIsIdle'
  BY <1>3, IdleKept DEF Handling
<1>5. \A u \in Tasks \ {t} : task'[u] = task[u]
  BY <1>3 DEF Become, TxInv, IInv, TypeOK
<1>6. /\ p \in Payments /\ owner[p] = t /\ payment[p].status # "absent"
      /\ payment' = [payment EXCEPT ![p] = tx[t].paymentRow]
  BY <1>1, SlotKnown, ClosingKnown DEF CommitClose, Holds
<1>7. \A k \in Tickets : owner[k] \notin {None, t} => ticket'[k] = ticket[k]
  <2>1. CASE tx[t].claims
    <3>1. owner[tx[t].k] = t
      BY <1>1, <2>1, SlotKnown DEF Holds
    <3>2. ticket' = [ticket EXCEPT ![tx[t].k] = tx[t].ticketRow]
      BY <2>1 DEF CommitClose
    <3> QED BY <3>1, <3>2 DEF TxInv, IInv, TypeOK
  <2>2. CASE ~tx[t].claims
    BY <2>2 DEF CommitClose
  <2> QED BY <2>1, <2>2
<1>8. \A q \in Payments : q # p => payment'[q] = payment[q]
  BY <1>6 DEF TxInv, IInv, TypeOK
<1> QED BY <1>1, <1>2, <1>4, <1>5, <1>6, <1>7, <1>8, EndStep

LEMMA RollbackSound ==
  ASSUME TxInv, NEW t \in Tasks, Rollback(t)
  PROVE  TxInv'
BY EndFinishSound DEF Rollback

-----------------------------------------------------------------------------
(* The steps that need no transaction.  A request of no transaction holds no *)
(* lock; it leaves a record in its slot that is Idle or has work to do.      *)
Moves(t) == \E r : (r.pc = "idle" => r = Idle) /\ Become(t, r)

LEMMA PlainStep ==
  ASSUME TxInv, NEW t \in Tasks, Idling(t), Moves(t), UNCHANGED <<pool, owner, tx>>, IInv',
         \A p \in Payments : owner[p] # None => payment'[p] = payment[p],
         \A k \in Tickets : owner[k] # None => ticket'[k] = ticket[k],
         \A p \in Payments : payment[p].status = "absent" => payment'[p].status = "absent"
  PROVE  TxInv'
<1>1. PICK r : (r.pc = "idle" => r = Idle) /\ Become(t, r)
  BY DEF Moves
<1>2. IdleIsIdle'
  BY <1>1, IdleKept
<1>3. \A u \in Tasks \ {t} : task'[u] = task[u]
  BY <1>1 DEF Become, TxInv, IInv, TypeOK
<1>4. /\ owner' \in [Tickets \cup Payments -> Tasks \cup {None}]
      /\ tx' = [tx EXCEPT ![t] = tx[t]] /\ tx[t] \in Transaction
  BY DEF TxInv, TxTypeOK
<1>5. \A y \in Tickets \cup Payments : owner[y] # t
  BY SlotKnown DEF TxInv, LocksEnd, Idling
<1>6. Holds(t, tx[t], task'[t], owner', payment', ticket')
  BY DEF Holds, Idling, Opening, Closing
<1> QED BY <1>2, <1>3, <1>4, <1>5, <1>6, SlotStep

(* The steps that write no row. *)
LEMMA ReadMoves ==
  ASSUME NEW t \in Tasks,
         \/ InitiateAccepted(t) \/ InitiateRefused(t) \/ InitiateHttpError(t)
         \/ CheckAnswered(t) \/ CheckHttpError(t)
         \/ RollbackRead(t) \/ CheckRead(t)
         \/ CompletedRead(t) \/ SoldRead(t) \/ FailedRead(t) \/ ReleaseRead(t),
         task[t] \in Task
  PROVE  Moves(t) /\ UNCHANGED <<ticket, payment>>
<1>1. CASE InitiateAccepted(t)
  BY <1>1 DEF InitiateAccepted, Moves, Handling
<1>2. CASE InitiateRefused(t) \/ InitiateHttpError(t) \/ RollbackRead(t)
  BY <1>2 DEF InitiateRefused, InitiateHttpError, RollbackRead, Moves, Handling
<1>3. CASE CheckAnswered(t)
  BY <1>3 DEF CheckAnswered, Moves, Handling
<1>4. CASE CheckHttpError(t)
  BY <1>4 DEF CheckHttpError, Finish, Moves
<1>5. CASE CheckRead(t)
  BY <1>5 DEF CheckRead, Moves, Task
<1>6. CASE CompletedRead(t)
  BY <1>6 DEF CompletedRead, Finish, Moves, Handling
<1>7. CASE SoldRead(t)
  BY <1>7 DEF SoldRead, Finish, Moves, Task
<1>8. CASE FailedRead(t)
  BY <1>8 DEF FailedRead, Finish, Moves, Handling
<1>9. CASE ReleaseRead(t)
  BY <1>9 DEF ReleaseRead, Finish, Moves, Task
<1> QED BY <1>1, <1>2, <1>3, <1>4, <1>5, <1>6, <1>7, <1>8, <1>9

(* The saves without a transaction, each to one row. *)
LEMMA SaveMoves ==
  ASSUME IInv, NEW t \in Tasks, InitiatePersist(t) \/ RollbackSave(t) \/ CheckSave(t)
  PROVE  /\ Moves(t) /\ UNCHANGED ticket
         /\ task[t].p \in Payments /\ payment[task[t].p].status # "absent"
         /\ \A p \in Payments \ {task[t].p} : payment'[p] = payment[p]
<1>1. task[t].p \in Payments /\ payment[task[t].p].status # "absent" /\ task[t].pc # "idle"
  BY UnderWay DEF InitiatePersist, RollbackSave, CheckSave
<1>2. Moves(t)
  <2>1. CASE RollbackSave(t)
    BY <2>1 DEF RollbackSave, Moves, Handling
  <2>2. CASE Continue(t)
    BY <2>2 DEF Continue, Finish, Moves, Handling
  <2> QED BY <2>1, <2>2 DEF InitiatePersist, CheckSave
<1>3. \A p \in Payments \ {task[t].p} : payment'[p] = payment[p]
  BY DEF InitiatePersist, RollbackSave, CheckSave, IInv, TypeOK
<1> QED BY <1>1, <1>2, <1>3 DEF InitiatePersist, RollbackSave, CheckSave

LEMMA TicketSaveMoves ==
  ASSUME IInv, NEW t \in Tasks, SoldSave(t) \/ ReleaseSave(t)
  PROVE  /\ Moves(t) /\ UNCHANGED payment
         /\ \A k \in Tickets \ {task[t].k} : ticket'[k] = ticket[k]
BY DEF SoldSave, ReleaseSave, Moves, Finish, IInv, TypeOK

LEMMA StatementSound ==
  ASSUME TxInv, NEW t \in Tasks, Statement(t)
  PROVE  TxInv'
<1>1. Idling(t) /\ UNCHANGED <<pool, owner, tx>> /\ IInv /\ task[t] \in Task
  BY DEF Statement, TxInv, IInv, TypeOK
<1>2. CASE \/ InitiateAccepted(t) \/ InitiateRefused(t) \/ InitiateHttpError(t)
           \/ CheckAnswered(t) \/ CheckHttpError(t)
           \/ RollbackRead(t) \/ CheckRead(t)
           \/ CompletedRead(t) \/ SoldRead(t) \/ FailedRead(t) \/ ReleaseRead(t)
  <2>1. IInv'
    BY <1>1, <1>2, InitiateAnswerSteps, RereadSteps, ChainReadSteps
  <2> QED BY <1>1, <1>2, <2>1, ReadMoves, PlainStep
<1>3. CASE owner[task[t].p] = None /\ (InitiatePersist(t) \/ RollbackSave(t) \/ CheckSave(t))
  <2>1. IInv'
    BY <1>1, <1>3, JournalSteps
  <2>2. /\ Moves(t) /\ UNCHANGED ticket
        /\ task[t].p \in Payments /\ payment[task[t].p].status # "absent"
        /\ \A p \in Payments \ {task[t].p} : payment'[p] = payment[p]
    BY <1>1, <1>3, SaveMoves
  <2> QED BY <1>1, <1>3, <2>1, <2>2, PlainStep
<1>4. CASE owner[task[t].k] = None /\ (SoldSave(t) \/ ReleaseSave(t))
  <2>1. IInv'
    BY <1>1, <1>4, ChainSaveSteps
  <2>2. /\ Moves(t) /\ UNCHANGED payment
        /\ \A k \in Tickets \ {task[t].k} : ticket'[k] = ticket[k]
    BY <1>1, <1>4, TicketSaveMoves
  <2> QED BY <1>1, <1>4, <2>1, <2>2, PlainStep
<1> QED BY <1>2, <1>3, <1>4 DEF Statement

(* A callback is of a payment Kelpay has settled, and so goes on. *)
LEMMA CallbackMoves ==
  ASSUME IInv, NEW t \in Tasks, NEW p \in Payments, ReceiveCallback(t, p)
  PROVE  /\ Moves(t) /\ UNCHANGED ticket /\ payment[p].status # "absent"
         /\ \A q \in Payments \ {p} : payment'[q] = payment[q]
<1>1. gateway[p] \in {"charged", "declined"}
  BY DEF ReceiveCallback, IInv, CallbacksSound
<1>2. PICK next \in Outcomes(p) : Become(t, Handling(next, p))
  BY DEF ReceiveCallback
<1>3. next \in {"finalizeSuccess", "finalizeFailure"}
  BY <1>1, <1>2, Zenon DEF Outcomes
<1>4. Moves(t)
  BY <1>2, <1>3 DEF Moves, Handling
<1> QED BY <1>1, <1>4 DEF ReceiveCallback, IInv, TypeOK, PaymentsSound

LEMMA RequestSound ==
  ASSUME TxInv, NEW t \in Tasks, Request(t)
  PROVE  TxInv'
<1>1. CASE \E k \in Tickets : BeginInitiate(t, k)
  BY <1>1, BeginInitiateSound
<1>2. ASSUME Idling(t), UNCHANGED <<pool, owner, tx>>, NEW p \in Payments,
             \/ StartVerify(t, p) \/ StartConfirm(t, p) \/ StartCancel(t, p)
             \/ owner[p] = None /\ ReceiveCallback(t, p)
      PROVE  TxInv'
  <2>1. IInv'
    BY <1>2, StartSteps, CallbackStep DEF TxInv
  <2>2. CASE StartVerify(t, p) \/ StartConfirm(t, p) \/ StartCancel(t, p)
    <3>1. Moves(t) /\ UNCHANGED <<ticket, payment>>
      BY <2>2 DEF StartVerify, StartConfirm, StartCancel, Moves, Handling
    <3> QED BY <1>2, <2>1, <3>1, PlainStep
  <2>3. CASE owner[p] = None /\ ReceiveCallback(t, p)
    <3>1. /\ Moves(t) /\ UNCHANGED ticket /\ payment[p].status # "absent"
          /\ \A q \in Payments \ {p} : payment'[q] = payment[q]
      BY <2>3, CallbackMoves DEF TxInv
    <3> QED BY <1>2, <2>1, <2>3, <3>1, PlainStep
  <2> QED BY <1>2, <2>2, <2>3
<1> QED BY <1>1, <1>2 DEF Request

(* A step that leaves the transactions and what they depend on alone. *)
LEMMA ElsewhereSound ==
  ASSUME TxInv, IInv', UNCHANGED <<ticket, payment, task, pool, owner, tx>>
  PROVE  TxInv'
<1>1. TxTypeOK' /\ IdleIsIdle' /\ TransactionsHold' /\ InsertsDiffer' /\ LocksEnd'
  BY DEF TxInv, TxTypeOK, IInv, IdleIsIdle, TransactionsHold, InsertsDiffer, LocksEnd
<1> QED BY <1>1 DEF TxInv

LEMMA TxStart == TxInit => TxInv
<1> SUFFICES ASSUME TxInit PROVE TxInv
  OBVIOUS
<1>1. IInv
  BY InitInv DEF TxInit
<1>2. TxTypeOK
  BY <1>1, NoTxIsTransaction DEF TxInit, TxTypeOK, IInv
<1>3. IdleIsIdle
  BY DEF TxInit, Init, IdleIsIdle
<1>4. \A t \in Tasks : tx[t].pc = "none"
  BY DEF TxInit, NoTx
<1>5. TransactionsHold /\ InsertsDiffer
  BY <1>4 DEF TransactionsHold, InsertsDiffer, Holds, Opening, Closing
<1>6. LocksEnd
  BY DEF TxInit, LocksEnd
<1> QED BY <1>1, <1>2, <1>3, <1>5, <1>6 DEF TxInv

LEMMA TxKept == TxInv /\ [TxNext]_txVars => TxInv'
<1> SUFFICES ASSUME TxInv, [TxNext]_txVars PROVE TxInv'
  OBVIOUS
<1>1. ASSUME NEW t \in Tasks, TxStep(t) PROVE TxInv'
  BY <1>1, LockTicketSound, ReadOpenSound, InsertSound, InsertFailsSound, BeginCloseSound,
     LockPaymentSound, SavePaymentSound, ClaimLockSound, CommitCloseSound DEF TxStep
<1>2. ASSUME NEW t \in Tasks, Request(t) \/ Statement(t) \/ Rollback(t) PROVE TxInv'
  BY <1>2, RequestSound, StatementSound, RollbackSound
<1>3. CASE Gateway /\ UNCHANGED <<pool, owner, tx>>
  <2>1. IInv' /\ UNCHANGED <<ticket, payment, task>>
    BY <1>3, GatewaySteps DEF TxInv, Gateway, GatewayTakesPush, GatewaySettles, LoseCallback
  <2> QED BY <1>3, <2>1, ElsewhereSound
<1>4. CASE UNCHANGED txVars
  <2>1. IInv' /\ UNCHANGED <<ticket, payment, task, pool, owner, tx>>
    BY <1>4, StutterInv DEF TxInv, txVars, vars
  <2> QED BY <2>1, ElsewhereSound
<1> QED BY <1>1, <1>2, <1>3, <1>4 DEF TxNext

(* What a transaction has decided under its row locks stays so until it      *)
(* commits: no UPDATE of initiate, no journal entry of verify, no callback   *)
(* and no late save of the side effects gets in between two statements of    *)
(* initiate, finalizeSuccess, finalizeFailure or cancel.                     *)
THEOREM TransactionsInvariant == TxSpec => []TxInv
<1>1. TxInit => TxInv
  BY TxStart
<1>2. TxInv /\ [TxNext]_txVars => TxInv'
  BY TxKept
<1> QED BY <1>1, <1>2, PTL DEF TxSpec

-----------------------------------------------------------------------------
(* The steps of KelpayFlow that the transactions implement.  The barred      *)
(* tables are the real ones but for the payments that are being inserted.    *)
LEMMA FlowWords ==
  /\ \A label, p : Flow!Handling(label, p) = Handling(label, p)
  /\ Flow!Idle = Idle
  /\ Flow!OPEN = OPEN /\ Flow!PAID = PAID /\ Flow!LOST = LOST
<1>1. Flow!NoPayment = NoPayment /\ Flow!NoTicket = NoTicket
  BY DEF Flow!NoPayment, NoPayment, Flow!NoTicket, NoTicket
<1>2. \A label, p : Flow!Handling(label, p) = Handling(label, p)
  BY <1>1 DEF Flow!Handling, Handling
<1>3. Flow!OPEN = OPEN /\ Flow!PAID = PAID /\ Flow!LOST = LOST
  BY DEF Flow!OPEN, OPEN, Flow!PAID, PAID, Flow!LOST, LOST
<1> QED BY <1>2, <1>3 DEF Flow!Idle, Idle

Inserted(p) == \E t \in Tasks : Inserts(t) /\ tx[t].p = p

(* What the barred tables hold, row by row. *)
BarsAre ==
  /\ PaymentsOfFlow = [p \in Payments |-> PaymentsOfFlow[p]]
  /\ GatewaysOfFlow = [p \in Payments |-> GatewaysOfFlow[p]]
  /\ TasksOfFlow = [t \in Tasks |-> TasksOfFlow[t]]
  /\ \A p \in Payments : ~Inserted(p) =>
       PaymentsOfFlow[p] = payment[p] /\ GatewaysOfFlow[p] = gateway[p]
  /\ \A t \in Tasks : ~Inserts(t) => TasksOfFlow[t] = task[t]
  /\ \A t \in Tasks : Inserts(t) =>
       /\ tx[t].p \in Payments /\ tx[t].k \in Tickets
       /\ payment[tx[t].p].status = "absent" /\ gateway[tx[t].p] = "none"
       /\ PaymentsOfFlow[tx[t].p] = InsertedRow(tx[t].k)
       /\ GatewaysOfFlow[tx[t].p] = "sent"
       /\ TasksOfFlow[t] = Handling("initiateHttp", tx[t].p)

LEMMA Bars == TxInv => BarsAre
<1> SUFFICES ASSUME TxInv PROVE BarsAre
  OBVIOUS
<1>1. ASSUME NEW p \in Payments, ~Inserted(p)
      PROVE  PaymentsOfFlow[p] = payment[p] /\ GatewaysOfFlow[p] = gateway[p]
  <2>1. InsertedBy(p) = {}
    BY <1>1 DEF Inserted, InsertedBy
  <2> QED BY <2>1 DEF PaymentsOfFlow, GatewaysOfFlow
<1>2. ASSUME NEW t \in Tasks, Inserts(t)
      PROVE  /\ tx[t].p \in Payments /\ tx[t].k \in Tickets
             /\ payment[tx[t].p].status = "absent" /\ gateway[tx[t].p] = "none"
             /\ PaymentsOfFlow[tx[t].p] = InsertedRow(tx[t].k)
             /\ GatewaysOfFlow[tx[t].p] = "sent"
             /\ TasksOfFlow[t] = Handling("initiateHttp", tx[t].p)
  <2>1. /\ tx[t].p \in Payments /\ tx[t].k \in Tickets
        /\ payment[tx[t].p].status = "absent"
    BY <1>2, SlotKnown DEF Inserts, Holds, Opening
  <2>2. gateway[tx[t].p] = "none"
    BY <2>1 DEF TxInv, IInv, PaymentsSound
  <2>3. InsertedBy(tx[t].p) = {t}
    BY <1>2 DEF InsertedBy, Inserts, TxInv, InsertsDiffer
  <2>4. (CHOOSE u \in {t} : TRUE) = t
    OBVIOUS
  <2> QED BY <1>2, <2>1, <2>2, <2>3, <2>4 DEF PaymentsOfFlow, GatewaysOfFlow, TasksOfFlow
<1>3. \A t \in Tasks : ~Inserts(t) => TasksOfFlow[t] = task[t]
  BY DEF TasksOfFlow
<1>4. /\ PaymentsOfFlow = [p \in Payments |-> PaymentsOfFlow[p]]
      /\ GatewaysOfFlow = [p \in Payments |-> GatewaysOfFlow[p]]
      /\ TasksOfFlow = [t \in Tasks |-> TasksOfFlow[t]]
  BY DEF PaymentsOfFlow, GatewaysOfFlow, TasksOfFlow
<1> QED BY <1>1, <1>2, <1>3, <1>4 DEF BarsAre

LEMMA BarsNext == (TxInv => BarsAre)'
BY Bars, PTL

(* No payment that exists is being inserted. *)
LEMMA ExistingAsIs ==
  ASSUME TxInv, NEW p \in Payments, payment[p].status # "absent" \/ gateway[p] # "none"
  PROVE  /\ ~Inserted(p)
         /\ PaymentsOfFlow[p] = payment[p] /\ GatewaysOfFlow[p] = gateway[p]
<1>1. ~Inserted(p)
  BY Bars DEF BarsAre, Inserted
<1> QED BY <1>1, Bars DEF BarsAre

(* A step after which the same payments are being inserted. *)
SameInserts ==
  \A t \in Tasks : /\ Inserts(t)' <=> Inserts(t)
                   /\ Inserts(t) => tx'[t] = tx[t]

LEMMA SlotKeepsInserts ==
  ASSUME TxInv, NEW t \in Tasks, ~Inserts(t), ~Inserts(t)',
         \A u \in Tasks \ {t} : tx'[u] = tx[u]
  PROVE  SameInserts
BY DEF SameInserts, Inserts

LEMMA SamePayments ==
  ASSUME TxInv, TxInv', SameInserts
  PROVE  /\ \A p \in Payments : Inserted(p)' <=> Inserted(p)
         /\ \A p \in Payments : Inserted(p) =>
              PaymentsOfFlow'[p] = PaymentsOfFlow[p] /\ GatewaysOfFlow'[p] = GatewaysOfFlow[p]
         /\ \A p \in Payments : ~Inserted(p) =>
              PaymentsOfFlow'[p] = payment'[p] /\ GatewaysOfFlow'[p] = gateway'[p]
<1>1. \A p \in Payments : Inserted(p)' <=> Inserted(p)
  BY DEF SameInserts, Inserted
<1>2. BarsAre /\ BarsAre'
  BY Bars, BarsNext
<1>3. ASSUME NEW p \in Payments, Inserted(p)
      PROVE  PaymentsOfFlow'[p] = PaymentsOfFlow[p] /\ GatewaysOfFlow'[p] = GatewaysOfFlow[p]
  <2>1. PICK t \in Tasks : Inserts(t) /\ tx[t].p = p
    BY <1>3 DEF Inserted
  <2>2. Inserts(t)' /\ tx'[t] = tx[t]
    BY <2>1 DEF SameInserts
  <2>3. PaymentsOfFlow[p] = InsertedRow(tx[t].k) /\ GatewaysOfFlow[p] = "sent"
    BY <1>2, <2>1 DEF BarsAre
  <2>4. PaymentsOfFlow'[tx'[t].p] = InsertedRow(tx'[t].k) /\ GatewaysOfFlow'[tx'[t].p] = "sent"
    BY <1>2, <2>2 DEF BarsAre, InsertedRow
  <2> QED BY <2>1, <2>2, <2>3, <2>4
<1>4. ASSUME NEW p \in Payments, ~Inserted(p)
      PROVE  PaymentsOfFlow'[p] = payment'[p] /\ GatewaysOfFlow'[p] = gateway'[p]
  BY <1>1, <1>2, <1>4 DEF BarsAre
<1> QED BY <1>1, <1>3, <1>4

LEMMA LiftNothing ==
  ASSUME TxInv, TxInv', SameInserts, UNCHANGED payment
  PROVE  PaymentsOfFlow' = PaymentsOfFlow
<1>1. \A p \in Payments : PaymentsOfFlow'[p] = PaymentsOfFlow[p]
  BY SamePayments, Bars DEF BarsAre
<1> QED BY <1>1, Bars, BarsNext, Zenon DEF BarsAre

LEMMA LiftNoPush ==
  ASSUME TxInv, TxInv', SameInserts, UNCHANGED gateway
  PROVE  GatewaysOfFlow' = GatewaysOfFlow
<1>1. \A p \in Payments : GatewaysOfFlow'[p] = GatewaysOfFlow[p]
  BY SamePayments, Bars DEF BarsAre
<1> QED BY <1>1, Bars, BarsNext, Zenon DEF BarsAre

LEMMA LiftPayment ==
  ASSUME TxInv, TxInv', SameInserts, NEW STATE p, p \in Payments,
         payment[p].status # "absent", NEW row, payment' = [payment EXCEPT ![p] = row]
  PROVE  PaymentsOfFlow' = [PaymentsOfFlow EXCEPT ![p] = row]
<1>1. payment \in [Payments -> PaymentRow]
  BY DEF TxInv, IInv, TypeOK
<1>2. ~Inserted(p)
  BY ExistingAsIs
<1>3. \A q \in Payments : PaymentsOfFlow'[q] = IF q = p THEN row ELSE PaymentsOfFlow[q]
  BY <1>1, <1>2, SamePayments, Bars DEF BarsAre
<1> QED BY <1>3, Bars, BarsNext DEF BarsAre

LEMMA LiftPush ==
  ASSUME TxInv, TxInv', SameInserts, NEW p \in Payments,
         gateway[p] # "none", NEW g, gateway' = [gateway EXCEPT ![p] = g]
  PROVE  GatewaysOfFlow' = [GatewaysOfFlow EXCEPT ![p] = g]
<1>1. gateway \in [Payments -> GatewayState]
  BY DEF TxInv, IInv, TypeOK
<1>2. ~Inserted(p)
  BY ExistingAsIs
<1>3. \A q \in Payments : GatewaysOfFlow'[q] = IF q = p THEN g ELSE GatewaysOfFlow[q]
  BY <1>1, <1>2, SamePayments, Bars DEF BarsAre
<1> QED BY <1>3, Bars, BarsNext DEF BarsAre

LEMMA LiftTask ==
  ASSUME TxInv, TxInv', SameInserts, NEW t \in Tasks, ~Inserts(t), NEW r, Become(t, r)
  PROVE  Flow!Become(t, r)
<1>1. /\ task'[t] = r /\ ~Inserts(t)'
      /\ \A u \in Tasks \ {t} : task'[u] = task[u]
  BY DEF Become, TxInv, IInv, TypeOK, SameInserts
<1>2. BarsAre /\ BarsAre'
  BY Bars, BarsNext
<1>3. TasksOfFlow'[t] = r
  BY <1>1, <1>2 DEF BarsAre
<1>4. ASSUME NEW u \in Tasks, u # t PROVE TasksOfFlow'[u] = TasksOfFlow[u]
  <2>1. CASE Inserts(u)
    <3>1. Inserts(u)' /\ tx'[u] = tx[u]
      BY <2>1 DEF SameInserts
    <3>2. TasksOfFlow[u] = Handling("initiateHttp", tx[u].p)
      BY <1>2, <2>1 DEF BarsAre
    <3>3. TasksOfFlow'[u] = Handling("initiateHttp", tx'[u].p)
      BY <3>1 DEF TasksOfFlow
    <3> QED BY <3>1, <3>2, <3>3
  <2>2. CASE ~Inserts(u)
    <3>1. ~Inserts(u)'
      BY <2>2 DEF SameInserts
    <3> QED BY <1>1, <1>2, <1>4, <2>2, <3>1 DEF BarsAre
  <2> QED BY <2>1, <2>2
<1> QED BY <1>2, <1>3, <1>4 DEF BarsAre, Flow!Become

LEMMA LiftNoTask ==
  ASSUME TxInv, TxInv', SameInserts, UNCHANGED task
  PROVE  TasksOfFlow' = TasksOfFlow
<1>1. BarsAre /\ BarsAre'
  BY Bars, BarsNext
<1>2. ASSUME NEW u \in Tasks PROVE TasksOfFlow'[u] = TasksOfFlow[u]
  <2>1. CASE Inserts(u)
    <3>1. Inserts(u)' /\ tx'[u] = tx[u]
      BY <2>1 DEF SameInserts
    <3>2. TasksOfFlow[u] = Handling("initiateHttp", tx[u].p)
      BY <1>1, <2>1 DEF BarsAre
    <3>3. TasksOfFlow'[u] = Handling("initiateHttp", tx'[u].p)
      BY <3>1 DEF TasksOfFlow
    <3> QED BY <3>1, <3>2, <3>3
  <2>2. CASE ~Inserts(u)
    <3>1. ~Inserts(u)'
      BY <2>2 DEF SameInserts
    <3> QED BY <1>1, <2>2, <3>1 DEF BarsAre
  <2> QED BY <2>1, <2>2
<1> QED BY <1>1, <1>2, Zenon DEF BarsAre

(* The steps that KelpayFlow does not see. *)
LEMMA LiftStutter ==
  ASSUME TxInv, TxInv', SameInserts, UNCHANGED <<ticket, payment, gateway, callbacks, task>>
  PROVE  UNCHANGED Flow!vars
BY LiftNothing, LiftNoPush, LiftNoTask DEF Flow!vars

LEMMA GoInserts ==
  ASSUME TxInv, NEW t \in Tasks, ~Inserts(t), NEW x, x.pc # "insert" \/ x.doomed, Go(t, x)
  PROVE  SameInserts
<1>1. tx'[t] = x /\ \A u \in Tasks \ {t} : tx'[u] = tx[u]
  BY DEF Go, TxInv, TxTypeOK
<1> QED BY <1>1, SlotKeepsInserts DEF Inserts

LEMMA EndInserts ==
  ASSUME TxInv, NEW t \in Tasks, ~Inserts(t), End(t)
  PROVE  SameInserts
<1>1. Go(t, NoTx) /\ NoTx.pc # "insert"
  BY DEF End, Go, NoTx
<1> QED BY <1>1, GoInserts

(* Until it commits a transaction is seen by nobody. *)
LEMMA QuietSteps ==
  ASSUME TxInv, TxInv', NEW t \in Tasks,
         \/ \E k \in Tickets : BeginInitiate(t, k)
         \/ LockTicket(t) \/ InsertFails(t)
         \/ BeginClose(t) \/ SavePayment(t) \/ ClaimLock(t)
  PROVE  UNCHANGED Flow!vars
<1>1. ~Inserts(t) /\ UNCHANGED <<ticket, payment, gateway, callbacks, task>>
  BY DEF Inserts, BeginInitiate, LockTicket, InsertFails, BeginClose, SavePayment,
         ClaimLock, Claim, Idling, tables
<1>2. SameInserts
  <2>1. CASE \E k \in Tickets : BeginInitiate(t, k)
    <3>1. PICK k \in Tickets : Go(t, [NoTx EXCEPT !.pc = "lockTicket", !.k = k])
      BY <2>1 DEF BeginInitiate
    <3>2. [NoTx EXCEPT !.pc = "lockTicket", !.k = k].pc # "insert"
      BY DEF NoTx
    <3> QED BY <1>1, <3>1, <3>2, GoInserts
  <2>2. CASE LockTicket(t)
    <3>1. [tx[t] EXCEPT !.pc = "readOpen"].pc # "insert"
      BY SlotKnown DEF Transaction
    <3>2. End(t) \/ Go(t, [tx[t] EXCEPT !.pc = "readOpen"])
      BY <2>2 DEF LockTicket
    <3> QED BY <1>1, <3>1, <3>2, GoInserts, EndInserts
  <2>3. CASE InsertFails(t)
    BY <1>1, <2>3, EndInserts DEF InsertFails
  <2>4. CASE BeginClose(t)
    <3>1. [NoTx EXCEPT !.pc = "lockPayment", !.p = task[t].p].pc # "insert"
      BY DEF NoTx
    <3> QED BY <1>1, <2>4, <3>1, GoInserts DEF BeginClose
  <2>5. CASE SavePayment(t)
    <3>1. tx'[t].pc # "insert" /\ \A u \in Tasks \ {t} : tx'[u] = tx[u]
      <4>1. tx \in [Tasks -> Transaction]
        BY DEF TxInv, TxTypeOK
      <4> QED BY <2>5, <4>1 DEF SavePayment, Go, Transaction
    <3> QED BY <1>1, <3>1, SlotKeepsInserts DEF Inserts
  <2>6. CASE ClaimLock(t)
    <3>1. tx'[t].pc # "insert" /\ \A u \in Tasks \ {t} : tx'[u] = tx[u]
      <4>1. tx \in [Tasks -> Transaction]
        BY DEF TxInv, TxTypeOK
      <4> QED BY <2>6, <4>1 DEF ClaimLock, Claim, Go, Transaction
    <3> QED BY <1>1, <3>1, SlotKeepsInserts DEF Inserts
  <2> QED BY <2>1, <2>2, <2>3, <2>4, <2>5, <2>6
<1> QED BY <1>1, <1>2, LiftStutter

(* A ticket that is locked and for sale is on the catalogue of KelpayFlow if *)
(* ReadOpen has found no open payment of it: whoever inserts one has the     *)
(* ticket locked.                                                            *)
LEMMA LockedIsForSale ==
  ASSUME TxInv, NEW t \in Tasks, ~Inserts(t), NEW STATE k, k \in Tickets, owner[k] = t,
         ticket[k].status = "available",
         ~ \E q \in Payments : OpenKelpay(q, k)
  PROVE  Flow!CatalogAvailable(k)
<1> SUFFICES ASSUME NEW q \in Payments PROVE ~Flow!OpenKelpay(q, k)
  BY DEF Flow!CatalogAvailable
<1>1. CASE Inserted(q)
  <2>1. PICK u \in Tasks : Inserts(u) /\ tx[u].p = q
    BY <1>1 DEF Inserted
  <2>2. PaymentsOfFlow[q].ticketId = tx[u].k
    <3>1. PaymentsOfFlow[tx[u].p] = InsertedRow(tx[u].k)
      BY <2>1, Bars DEF BarsAre
    <3> QED BY <2>1, <3>1 DEF InsertedRow
  <2>3. owner[tx[u].k] = u
    BY <2>1, SlotKnown DEF Holds, Inserts
  <2>4. u # t
    BY <2>1
  <2> QED BY <2>2, <2>3, <2>4 DEF Flow!OpenKelpay
<1>2. CASE ~Inserted(q)
  BY <1>2, Bars, FlowWords DEF BarsAre, OpenKelpay, Flow!OpenKelpay
<1> QED BY <1>1, <1>2

(* initiate takes effect where it draws the id of a payment it will insert. *)
LEMMA DrawIsInitiate ==
  ASSUME TxInv, TxInv', NEW t \in Tasks, tx[t].pc = "readOpen",
         UNCHANGED <<tables, owner>>,
         ~ \E q \in Payments : OpenKelpay(q, tx[t].k),
         NEW p \in Payments, payment[p].status = "absent", \A u \in Tasks : tx[u].p # p,
         Go(t, [tx[t] EXCEPT !.pc = "insert", !.p = p, !.doomed = FALSE])
  PROVE  Flow!Next
<1> DEFINE k == tx[t].k
           row == InsertedRow(k)
           r == Handling("initiateHttp", p)
<1>1. /\ "initiate" \in Endpoints /\ task[t].pc = "idle" /\ k \in Tickets
      /\ owner[k] = t /\ ticket[k].status = "available"
      /\ ~Inserts(t) /\ ~Inserted(p)
  <2>1. /\ "initiate" \in Endpoints /\ task[t] = Idle /\ k \in Tickets
        /\ owner[k] = t /\ ticket[k].status = "available"
    BY SlotKnown DEF Holds, Opening
  <2>2. ~Inserts(t) /\ ~Inserted(p)
    BY DEF Inserts, Inserted
  <2> QED BY <2>1, <2>2 DEF Idle, Handling
<1>2. /\ tx'[t].pc = "insert" /\ tx'[t].p = p /\ tx'[t].k = k /\ tx'[t].doomed = FALSE
      /\ \A u \in Tasks \ {t} : tx'[u] = tx[u]
  <2>1. tx \in [Tasks -> Transaction]
    BY DEF TxInv, TxTypeOK
  <2> QED BY <2>1 DEF Go, Transaction
<1>3. Inserts(t)' /\ \A u \in Tasks \ {t} : Inserts(u)' <=> Inserts(u)
  BY <1>2 DEF Inserts
<1>4. BarsAre /\ BarsAre' /\ UNCHANGED <<ticket, payment, gateway, callbacks, task>>
  BY Bars, BarsNext DEF tables
<1>5. PaymentsOfFlow'[p] = row /\ GatewaysOfFlow'[p] = "sent"
  <2>1. PaymentsOfFlow'[tx'[t].p] = InsertedRow(tx'[t].k) /\ GatewaysOfFlow'[tx'[t].p] = "sent"
    BY <1>3, <1>4 DEF BarsAre, InsertedRow
  <2> QED BY <1>2, <2>1
<1>6. ASSUME NEW q \in Payments, q # p
      PROVE  PaymentsOfFlow'[q] = PaymentsOfFlow[q] /\ GatewaysOfFlow'[q] = GatewaysOfFlow[q]
  <2>1. CASE Inserted(q)
    <3>1. PICK u \in Tasks : Inserts(u) /\ tx[u].p = q
      BY <2>1 DEF Inserted
    <3>2. u # t /\ Inserts(u)' /\ tx'[u] = tx[u]
      BY <1>1, <1>2, <1>3, <3>1
    <3>3. PaymentsOfFlow[q] = InsertedRow(tx[u].k) /\ GatewaysOfFlow[q] = "sent"
      BY <1>4, <3>1 DEF BarsAre
    <3>4. PaymentsOfFlow'[tx'[u].p] = InsertedRow(tx'[u].k) /\ GatewaysOfFlow'[tx'[u].p] = "sent"
      BY <1>4, <3>2 DEF BarsAre, InsertedRow
    <3> QED BY <3>1, <3>2, <3>3, <3>4
  <2>2. CASE ~Inserted(q)
    <3>1. ~Inserted(q)'
      BY <1>2, <1>3, <1>6, <2>2 DEF Inserted
    <3> QED BY <1>4, <2>2, <3>1 DEF BarsAre
  <2> QED BY <2>1, <2>2
<1>7. PaymentsOfFlow' = [PaymentsOfFlow EXCEPT ![p] = row]
  BY <1>4, <1>5, <1>6 DEF BarsAre
<1>8. GatewaysOfFlow' = [GatewaysOfFlow EXCEPT ![p] = "sent"]
  BY <1>4, <1>5, <1>6 DEF BarsAre
<1>9. Flow!Become(t, r)
  <2>1. TasksOfFlow'[t] = r
    BY <1>2, <1>3 DEF TasksOfFlow
  <2>2. ASSUME NEW u \in Tasks, u # t PROVE TasksOfFlow'[u] = TasksOfFlow[u]
    BY <1>2, <1>3, <1>4, <2>2 DEF TasksOfFlow
  <2> QED BY <1>4, <2>1, <2>2 DEF BarsAre, Flow!Become
<1>10. TasksOfFlow[t].pc = "idle" /\ PaymentsOfFlow[p].status = "absent"
  BY <1>1, <1>4 DEF BarsAre
<1>11. Flow!CatalogAvailable(k)
  BY <1>1, LockedIsForSale
<1>12. Flow!Initiate(t, k, p)
  <2>1. row = [status |-> "pending", ticketId |-> k,
               method |-> "mobile_money", transactionId |-> FALSE]
    BY DEF InsertedRow
  <2>2. Flow!Free(t, "initiate") /\ Flow!Become(t, Flow!Handling("initiateHttp", p))
    BY <1>1, <1>9, <1>10, FlowWords DEF Flow!Free
  <2> QED BY <1>4, <1>7, <1>8, <1>10, <1>11, <2>1, <2>2 DEF Flow!Initiate
<1> QED BY <1>1, <1>12, Zenon DEF Flow!Next, Flow!KelpayStart

LEMMA ReadOpenMaps ==
  ASSUME TxInv, TxInv', NEW t \in Tasks, ReadOpen(t)
  PROVE  Flow!Next \/ UNCHANGED Flow!vars
<1>1. tx[t].pc = "readOpen" /\ UNCHANGED tables /\ ~Inserts(t)
      /\ UNCHANGED <<ticket, payment, gateway, callbacks, task>>
  BY DEF ReadOpen, Inserts, tables
<1>2. CASE End(t)
  BY <1>1, <1>2, EndInserts, LiftStutter
<1>3. CASE ~End(t)
  <2>1. ~ \E q \in Payments : OpenKelpay(q, tx[t].k)
    BY <1>3 DEF ReadOpen
  <2>2. PICK p \in Payments, fate \in {FALSE} \cup {"dbError" \in Faults} :
          /\ payment[p].status = "absent"
          /\ \A u \in Tasks : tx[u].p # p
          /\ Go(t, [tx[t] EXCEPT !.pc = "insert", !.p = p, !.doomed = fate])
          /\ UNCHANGED owner
    BY <2>1 DEF ReadOpen
  <2>3. fate \in BOOLEAN
    BY Fates
  <2>4. CASE fate = TRUE
    <3>1. [tx[t] EXCEPT !.pc = "insert", !.p = p, !.doomed = fate].doomed = TRUE
      BY <2>4, SlotKnown DEF Transaction
    <3> QED BY <1>1, <2>2, <3>1, GoInserts, LiftStutter
  <2>5. CASE fate = FALSE
    BY <1>1, <2>1, <2>2, <2>5, DrawIsInitiate
  <2> QED BY <2>3, <2>4, <2>5
<1> QED BY <1>2, <1>3

(* What has been seen from outside since ReadOpen becomes true. *)
LEMMA InsertMaps ==
  ASSUME TxInv, TxInv', NEW t \in Tasks, Insert(t)
  PROVE  UNCHANGED Flow!vars
<1>0. PICK p \in Payments : p = tx[t].p
  BY SlotKnown DEF Insert, Holds
<1>1. /\ Inserts(t)
      /\ payment' = [payment EXCEPT ![p] = InsertedRow(tx[t].k)]
      /\ gateway' = [gateway EXCEPT ![p] = "sent"]
      /\ Become(t, Handling("initiateHttp", p)) /\ End(t)
      /\ UNCHANGED <<ticket, callbacks>>
  BY <1>0 DEF Insert, Inserts
<1>2. /\ tx'[t].pc = "none" /\ ~Inserts(t)'
      /\ \A u \in Tasks \ {t} : tx'[u] = tx[u] /\ (Inserts(u)' <=> Inserts(u))
  BY <1>1 DEF End, Inserts, NoTx, TxInv, TxTypeOK
<1>3. /\ payment'[p] = InsertedRow(tx[t].k) /\ gateway'[p] = "sent"
      /\ task'[t] = Handling("initiateHttp", p)
      /\ \A q \in Payments \ {p} : payment'[q] = payment[q] /\ gateway'[q] = gateway[q]
      /\ \A u \in Tasks \ {t} : task'[u] = task[u]
  BY <1>1 DEF Become, TxInv, IInv, TypeOK
<1>4. BarsAre /\ BarsAre'
  BY Bars, BarsNext
<1>5. ASSUME NEW u \in Tasks, u # t, Inserts(u) PROVE tx[u].p # p
  BY <1>0, <1>1, <1>5 DEF TxInv, InsertsDiffer, Inserts
<1>6. ~Inserted(p)'
  BY <1>2, <1>5 DEF Inserted
<1>7. PaymentsOfFlow'[p] = PaymentsOfFlow[p] /\ GatewaysOfFlow'[p] = GatewaysOfFlow[p]
  <2>1. PaymentsOfFlow[p] = InsertedRow(tx[t].k) /\ GatewaysOfFlow[p] = "sent"
    BY <1>0, <1>1, <1>4 DEF BarsAre
  <2> QED BY <1>3, <1>4, <1>6, <2>1 DEF BarsAre
<1>8. ASSUME NEW q \in Payments, q # p
      PROVE  PaymentsOfFlow'[q] = PaymentsOfFlow[q] /\ GatewaysOfFlow'[q] = GatewaysOfFlow[q]
  <2>1. CASE Inserted(q)
    <3>1. PICK u \in Tasks : Inserts(u) /\ tx[u].p = q
      BY <2>1 DEF Inserted
    <3>2. u # t /\ Inserts(u)' /\ tx'[u] = tx[u]
      BY <1>0, <1>2, <1>8, <3>1
    <3>3. PaymentsOfFlow[q] = InsertedRow(tx[u].k) /\ GatewaysOfFlow[q] = "sent"
      BY <1>4, <3>1 DEF BarsAre
    <3>4. PaymentsOfFlow'[tx'[u].p] = InsertedRow(tx'[u].k) /\ GatewaysOfFlow'[tx'[u].p] = "sent"
      BY <1>4, <3>2 DEF BarsAre, InsertedRow
    <3> QED BY <3>1, <3>2, <3>3, <3>4
  <2>2. CASE ~Inserted(q)
    <3>1. ~Inserted(q)'
      BY <1>2, <2>2 DEF Inserted
    <3> QED BY <1>3, <1>4, <1>8, <2>2, <3>1 DEF BarsAre
  <2> QED BY <2>1, <2>2
<1>9. PaymentsOfFlow' = PaymentsOfFlow
  <2>1. \A q \in Payments : PaymentsOfFlow'[q] = PaymentsOfFlow[q]
    BY <1>7, <1>8
  <2> QED BY <1>4, <2>1, Zenon DEF BarsAre
<1>10. GatewaysOfFlow' = GatewaysOfFlow
  <2>1. \A q \in Payments : GatewaysOfFlow'[q] = GatewaysOfFlow[q]
    BY <1>7, <1>8
  <2> QED BY <1>4, <2>1, Zenon DEF BarsAre
<1>11. TasksOfFlow' = TasksOfFlow
  <2>1. TasksOfFlow'[t] = TasksOfFlow[t]
    BY <1>0, <1>1, <1>2, <1>3, <1>4 DEF BarsAre
  <2>2. ASSUME NEW u \in Tasks, u # t PROVE TasksOfFlow'[u] = TasksOfFlow[u]
    BY <1>2, <1>3, <2>2 DEF TasksOfFlow
  <2>3. \A u \in Tasks : TasksOfFlow'[u] = TasksOfFlow[u]
    BY <2>1, <2>2
  <2> QED BY <1>4, <2>3, Zenon DEF BarsAre
<1> QED BY <1>1, <1>9, <1>10, <1>11 DEF Flow!vars

-----------------------------------------------------------------------------
(* What KelpayFlow and the real tables agree on for a request that works on *)
(* a payment.                                                               *)
LEMMA RequestAsIs ==
  ASSUME TxInv, NEW t \in Tasks, ~Inserts(t)
  PROVE  /\ TasksOfFlow[t] = task[t]
         /\ task[t].pc # "idle" =>
              /\ task[t] \in Task
              /\ task[t].p \in Payments /\ payment[task[t].p].status # "absent"
              /\ PaymentsOfFlow[task[t].p] = payment[task[t].p]
              /\ GatewaysOfFlow[task[t].p] = gateway[task[t].p]
              /\ payment[task[t].p] \in PaymentRow
<1>1. TasksOfFlow[t] = task[t]
  BY Bars DEF BarsAre
<1>2. task[t].pc # "idle" =>
        /\ task[t] \in Task
        /\ task[t].p \in Payments /\ payment[task[t].p].status # "absent"
        /\ payment[task[t].p] \in PaymentRow
  BY UnderWay DEF TxInv
<1> QED BY <1>1, <1>2, ExistingAsIs

LEMMA LiftFinish ==
  ASSUME TxInv, TxInv', SameInserts, NEW t \in Tasks, ~Inserts(t), Finish(t)
  PROVE  Flow!Finish(t)
BY LiftTask, FlowWords DEF Finish, Flow!Finish

LEMMA LiftHandling ==
  ASSUME TxInv, TxInv', SameInserts, NEW t \in Tasks, ~Inserts(t),
         NEW label, NEW p, Become(t, Handling(label, p))
  PROVE  Flow!Become(t, Flow!Handling(label, p))
<1>1. Flow!Become(t, Handling(label, p))
  BY LiftTask
<1> QED BY <1>1, FlowWords, Zenon

LEMMA LiftReads ==
  ASSUME TxInv, TxInv', SameInserts, NEW t \in Tasks, ~Inserts(t),
         UNCHANGED <<ticket, payment, gateway, callbacks>>
  PROVE  UNCHANGED <<ticket, PaymentsOfFlow, GatewaysOfFlow, callbacks>>
BY LiftNothing, LiftNoPush

(* Every step of KelpayFlow that takes its request on, with the payment it *)
(* works on, is the same step over the barred tables.                      *)
LEMMA AnswersMap ==
  ASSUME TxInv, TxInv', SameInserts, NEW t \in Tasks, ~Inserts(t),
         \/ InitiateAccepted(t) \/ InitiateRefused(t) \/ InitiateHttpError(t)
         \/ CheckAnswered(t) \/ CheckHttpError(t)
  PROVE  Flow!KelpayStep(t)
<1> DEFINE p == task[t].p
<1>0. task[t].pc # "idle" /\ UNCHANGED <<ticket, payment, gateway, callbacks>>
  BY DEF InitiateAccepted, InitiateRefused, InitiateHttpError, CheckAnswered, CheckHttpError
<1>1. /\ TasksOfFlow[t] = task[t] /\ GatewaysOfFlow[p] = gateway[p]
      /\ UNCHANGED <<ticket, PaymentsOfFlow, GatewaysOfFlow, callbacks>>
  BY <1>0, RequestAsIs, LiftReads
<1>2. CASE InitiateAccepted(t)
  <2>1. PICK next \in {"idle", "finalizeFailure"} :
          Become(t, [Handling("initiatePersist", p) EXCEPT !.then = next])
    BY <1>2 DEF InitiateAccepted
  <2>2. Flow!Become(t, [Handling("initiatePersist", p) EXCEPT !.then = next])
    BY <2>1, LiftTask
  <2>3. Flow!Become(t, [Flow!Handling("initiatePersist", p) EXCEPT !.then = next])
    BY <2>2, FlowWords, Zenon
  <2>4. Flow!InitiateAccepted(t)
    BY <1>1, <1>2, <2>3 DEF InitiateAccepted, Flow!InitiateAccepted
  <2> QED BY <2>4, Zenon DEF Flow!KelpayStep
<1>3. CASE InitiateRefused(t)
  <2>1. Flow!Become(t, Flow!Handling("finalizeFailure", p))
    BY <1>3, LiftHandling DEF InitiateRefused
  <2>2. Flow!InitiateRefused(t)
    BY <1>1, <1>3, <2>1 DEF InitiateRefused, Flow!InitiateRefused
  <2> QED BY <2>2, Zenon DEF Flow!KelpayStep
<1>4. CASE InitiateHttpError(t)
  <2>1. Flow!Become(t, Flow!Handling("rollbackRead", p))
    BY <1>4, LiftHandling DEF InitiateHttpError
  <2>2. Flow!InitiateHttpError(t)
    BY <1>1, <1>4, <2>1 DEF InitiateHttpError, Flow!InitiateHttpError
  <2> QED BY <2>2, Zenon DEF Flow!KelpayStep
<1>5. CASE CheckAnswered(t)
  <2>1. PICK next \in Readings(p) :
          Become(t, [Handling("checkRead", p) EXCEPT !.then = next])
    BY <1>5 DEF CheckAnswered
  <2>2. Flow!Become(t, [Handling("checkRead", p) EXCEPT !.then = next])
    BY <2>1, LiftTask
  <2>3. Flow!Become(t, [Flow!Handling("checkRead", p) EXCEPT !.then = next])
    BY <2>2, FlowWords, Zenon
  <2>4. Flow!Outcomes(p) = Outcomes(p)
    BY <1>1, Zenon DEF Flow!Outcomes, Outcomes
  <2>5. next \in Flow!Readings(p)
    BY <2>1, <2>4 DEF Flow!Readings, Readings
  <2>6. Flow!CheckAnswered(t)
    BY <1>1, <1>5, <2>3, <2>5 DEF CheckAnswered, Flow!CheckAnswered
  <2> QED BY <2>6, Zenon DEF Flow!KelpayStep
<1>6. CASE CheckHttpError(t)
  <2>1. Flow!CheckHttpError(t)
    BY <1>1, <1>6, LiftFinish DEF CheckHttpError, Flow!CheckHttpError
  <2> QED BY <2>1, Zenon DEF Flow!KelpayStep
<1> QED BY <1>2, <1>3, <1>4, <1>5, <1>6

LEMMA ReadsMap ==
  ASSUME TxInv, TxInv', SameInserts, NEW t \in Tasks, ~Inserts(t),
         \/ RollbackRead(t) \/ CheckRead(t)
         \/ CompletedRead(t) \/ SoldRead(t) \/ FailedRead(t) \/ ReleaseRead(t)
  PROVE  Flow!KelpayStep(t)
<1> DEFINE p == task[t].p
<1>0. task[t].pc # "idle" /\ UNCHANGED <<ticket, payment, gateway, callbacks>>
  BY DEF RollbackRead, CheckRead, CompletedRead, SoldRead, FailedRead, ReleaseRead
<1>1. /\ TasksOfFlow[t] = task[t] /\ PaymentsOfFlow[p] = payment[p]
      /\ UNCHANGED <<ticket, PaymentsOfFlow, GatewaysOfFlow, callbacks>>
  BY <1>0, RequestAsIs, LiftReads
<1>2. CASE RollbackRead(t)
  <2>1. Flow!Become(t, [Handling("rollbackSave", p) EXCEPT !.paymentRow = payment[p]])
    BY <1>2, LiftTask DEF RollbackRead
  <2>2. Flow!Become(t, [Flow!Handling("rollbackSave", p) EXCEPT !.paymentRow = payment[p]])
    BY <2>1, FlowWords, Zenon
  <2>3. Flow!RollbackRead(t)
    BY <1>1, <1>2, <2>2 DEF RollbackRead, Flow!RollbackRead
  <2> QED BY <2>3, Zenon DEF Flow!KelpayStep
<1>3. CASE CheckRead(t)
  <2>1. Flow!Become(t, [task[t] EXCEPT !.pc = "checkSave", !.paymentRow = payment[p]])
    BY <1>3, LiftTask DEF CheckRead
  <2>2. Flow!CheckRead(t)
    BY <1>1, <1>3, <2>1 DEF CheckRead, Flow!CheckRead
  <2> QED BY <2>2, Zenon DEF Flow!KelpayStep
<1>4. CASE CompletedRead(t)
  <2>0. Flow!CompletedRead(t) => Flow!KelpayStep(t)
    BY Zenon DEF Flow!KelpayStep, Flow!WebhookChain
  <2>1. CASE payment[p].status \in PAID
    <3>1. Flow!Become(t, [Handling("soldRead", p) EXCEPT !.k = payment[p].ticketId])
      BY <1>4, <2>1, LiftTask DEF CompletedRead
    <3>2. Flow!Become(t, [Flow!Handling("soldRead", p) EXCEPT !.k = payment[p].ticketId])
      BY <3>1, FlowWords, Zenon
    <3> QED BY <1>1, <1>4, <2>0, <2>1, <3>2, FlowWords DEF CompletedRead, Flow!CompletedRead
  <2>2. CASE payment[p].status \notin PAID
    BY <1>1, <1>4, <2>0, <2>2, FlowWords, LiftFinish DEF CompletedRead, Flow!CompletedRead
  <2> QED BY <2>1, <2>2
<1>5. CASE SoldRead(t)
  <2>1. Flow!SoldRead(t)
    BY <1>1, <1>5, LiftFinish, LiftTask DEF SoldRead, Flow!SoldRead
  <2> QED BY <2>1, Zenon DEF Flow!KelpayStep, Flow!WebhookChain
<1>6. CASE FailedRead(t)
  <2>0. Flow!FailedRead(t) => Flow!KelpayStep(t)
    BY Zenon DEF Flow!KelpayStep, Flow!WebhookChain
  <2>1. CASE payment[p].status \in LOST
    <3>1. Flow!Become(t, [Handling("releaseRead", p) EXCEPT !.k = payment[p].ticketId])
      BY <1>6, <2>1, LiftTask DEF FailedRead
    <3>2. Flow!Become(t, [Flow!Handling("releaseRead", p) EXCEPT !.k = payment[p].ticketId])
      BY <3>1, FlowWords, Zenon
    <3> QED BY <1>1, <1>6, <2>0, <2>1, <3>2, FlowWords DEF FailedRead, Flow!FailedRead
  <2>2. CASE payment[p].status \notin LOST
    BY <1>1, <1>6, <2>0, <2>2, FlowWords, LiftFinish DEF FailedRead, Flow!FailedRead
  <2> QED BY <2>1, <2>2
<1>7. CASE ReleaseRead(t)
  <2>1. Flow!ReleaseRead(t)
    BY <1>1, <1>7, LiftFinish, LiftTask DEF ReleaseRead, Flow!ReleaseRead
  <2> QED BY <2>1, Zenon DEF Flow!KelpayStep, Flow!WebhookChain
<1> QED BY <1>2, <1>3, <1>4, <1>5, <1>6, <1>7

LEMMA LiftContinue ==
  ASSUME TxInv, TxInv', SameInserts, NEW t \in Tasks, ~Inserts(t), Continue(t)
  PROVE  Flow!Continue(t)
<1>1. TasksOfFlow[t] = task[t]
  BY RequestAsIs
<1>2. CASE task[t].then = "idle"
  <2>1. Flow!Finish(t)
    BY <1>2, LiftFinish DEF Continue
  <2> QED BY <1>1, <1>2, <2>1 DEF Flow!Continue
<1>3. CASE task[t].then # "idle"
  <2>1. Flow!Become(t, Flow!Handling(task[t].then, task[t].p))
    BY <1>3, LiftHandling DEF Continue
  <2> QED BY <1>1, <1>3, <2>1 DEF Flow!Continue
<1> QED BY <1>2, <1>3

LEMMA PaymentSavesMap ==
  ASSUME TxInv, TxInv', SameInserts, NEW t \in Tasks, ~Inserts(t),
         InitiatePersist(t) \/ RollbackSave(t) \/ CheckSave(t)
  PROVE  Flow!KelpayStep(t)
<1>0. task[t].pc # "idle" /\ UNCHANGED <<ticket, gateway, callbacks>>
  BY DEF InitiatePersist, RollbackSave, CheckSave
<1>p. PICK p \in Payments : p = task[t].p
  BY <1>0, RequestAsIs
<1>1. /\ TasksOfFlow[t] = task[t] /\ PaymentsOfFlow[p] = payment[p]
      /\ payment[p].status # "absent"
      /\ UNCHANGED <<ticket, GatewaysOfFlow, callbacks>>
  BY <1>0, <1>p, RequestAsIs, LiftNoPush
<1>2. /\ payment \in [Payments -> PaymentRow]
      /\ PaymentsOfFlow = [q \in Payments |-> PaymentsOfFlow[q]]
  BY Bars DEF BarsAre, TxInv, IInv, TypeOK
<1>3. CASE InitiatePersist(t)
  <2>1. PICK row : row = [payment[p] EXCEPT !.transactionId = @ \/ task[t].then = "idle"]
    OBVIOUS
  <2>2. payment' = [payment EXCEPT ![p] = row]
    BY <1>2, <1>3, <1>p, <2>1 DEF InitiatePersist
  <2>3. PaymentsOfFlow' = [PaymentsOfFlow EXCEPT ![p] = row]
    BY <1>1, <2>2, LiftPayment
  <2>4. PaymentsOfFlow' = [PaymentsOfFlow EXCEPT ![p].transactionId =
                             @ \/ task[t].then = "idle"]
    BY <1>1, <1>2, <2>1, <2>3
  <2>5. Flow!Continue(t)
    BY <1>3, LiftContinue DEF InitiatePersist
  <2>6. Flow!InitiatePersist(t)
    BY <1>1, <1>3, <1>p, <2>4, <2>5 DEF InitiatePersist, Flow!InitiatePersist
  <2> QED BY <2>6, Zenon DEF Flow!KelpayStep
<1>4. CASE RollbackSave(t)
  <2>1. PICK row : row = [task[t].paymentRow EXCEPT !.status = "failed"]
    OBVIOUS
  <2>2. payment' = [payment EXCEPT ![p] = row]
    BY <1>4, <1>p, <2>1 DEF RollbackSave
  <2>3. PaymentsOfFlow' = [PaymentsOfFlow EXCEPT ![p] = row]
    BY <1>1, <2>2, LiftPayment
  <2>4. Flow!Become(t, Flow!Handling("failedRead", p))
    BY <1>4, <1>p, LiftHandling DEF RollbackSave
  <2>5. Flow!RollbackSave(t)
    BY <1>1, <1>4, <1>p, <2>1, <2>3, <2>4 DEF RollbackSave, Flow!RollbackSave
  <2> QED BY <2>5, Zenon DEF Flow!KelpayStep
<1>5. CASE CheckSave(t)
  <2>1. PICK row : row = task[t].paymentRow
    OBVIOUS
  <2>2. payment' = [payment EXCEPT ![p] = row]
    BY <1>5, <1>p, <2>1 DEF CheckSave
  <2>3. PaymentsOfFlow' = [PaymentsOfFlow EXCEPT ![p] = row]
    BY <1>1, <2>2, LiftPayment
  <2>4. Flow!Continue(t)
    BY <1>5, LiftContinue DEF CheckSave
  <2>5. Flow!CheckSave(t)
    BY <1>1, <1>5, <1>p, <2>1, <2>3, <2>4 DEF CheckSave, Flow!CheckSave
  <2> QED BY <2>5, Zenon DEF Flow!KelpayStep
<1> QED BY <1>3, <1>4, <1>5

LEMMA TicketSavesMap ==
  ASSUME TxInv, TxInv', SameInserts, NEW t \in Tasks, ~Inserts(t), SoldSave(t) \/ ReleaseSave(t)
  PROVE  Flow!KelpayStep(t)
<1>1. /\ TasksOfFlow[t] = task[t] /\ UNCHANGED <<PaymentsOfFlow, GatewaysOfFlow, callbacks>>
      /\ Flow!Finish(t)
  BY RequestAsIs, LiftNothing, LiftNoPush, LiftFinish DEF SoldSave, ReleaseSave
<1>2. CASE SoldSave(t)
  <2>1. Flow!SoldSave(t)
    BY <1>1, <1>2 DEF SoldSave, Flow!SoldSave
  <2> QED BY <2>1, Zenon DEF Flow!KelpayStep, Flow!WebhookChain
<1>3. CASE ReleaseSave(t)
  <2>1. Flow!ReleaseSave(t)
    BY <1>1, <1>3 DEF ReleaseSave, Flow!ReleaseSave
  <2> QED BY <2>1, Zenon DEF Flow!KelpayStep, Flow!WebhookChain
<1> QED BY <1>2, <1>3

(* The three transactions that close a payment. *)
LEMMA CloseMaps ==
  ASSUME TxInv, TxInv', SameInserts, NEW t \in Tasks, ~Inserts(t), task[t].pc # "idle",
         NEW status, Close(t, status)
  PROVE  Flow!Close(t, status)
<1>p. PICK p \in Payments : p = task[t].p
  BY RequestAsIs
<1>1. /\ TasksOfFlow[t] = task[t] /\ PaymentsOfFlow[p] = payment[p]
      /\ payment[p].status # "absent"
      /\ UNCHANGED <<ticket, GatewaysOfFlow, callbacks>>
  BY <1>p, RequestAsIs, LiftNoPush DEF Close
<1>2. /\ payment \in [Payments -> PaymentRow]
      /\ PaymentsOfFlow = [q \in Payments |-> PaymentsOfFlow[q]]
  BY Bars DEF BarsAre, TxInv, IInv, TypeOK
<1>3. CASE payment[p].status \in OPEN
  <2>1. PICK row : row = [payment[p] EXCEPT !.status = status]
    OBVIOUS
  <2>2. payment' = [payment EXCEPT ![p] = row]
    BY <1>2, <1>3, <1>p, <2>1 DEF Close
  <2>3. PaymentsOfFlow' = [PaymentsOfFlow EXCEPT ![p] = row]
    BY <1>1, <2>2, LiftPayment
  <2>4. PaymentsOfFlow' = [PaymentsOfFlow EXCEPT ![p].status = status]
    BY <1>1, <1>2, <2>1, <2>3
  <2>5. Flow!Become(t, Flow!Handling("failedRead", p))
    BY <1>3, <1>p, LiftHandling DEF Close
  <2> QED BY <1>1, <1>3, <1>p, <2>4, <2>5, FlowWords DEF Flow!Close
<1>4. CASE payment[p].status \notin OPEN
  <2>1. Flow!Finish(t) /\ UNCHANGED PaymentsOfFlow
    BY <1>4, <1>p, LiftFinish, LiftNothing DEF Close
  <2> QED BY <1>1, <1>4, <1>p, <2>1, FlowWords DEF Flow!Close
<1> QED BY <1>3, <1>4

LEMMA SuccessMaps ==
  ASSUME TxInv, TxInv', SameInserts, NEW t \in Tasks, ~Inserts(t), FinalizeSuccess(t)
  PROVE  Flow!FinalizeSuccess(t)
<1>0. task[t].pc = "finalizeSuccess" /\ UNCHANGED <<gateway, callbacks>>
  BY DEF FinalizeSuccess
<1>p. PICK p \in Payments : p = task[t].p
  BY <1>0, RequestAsIs
<1>1. /\ TasksOfFlow[t] = task[t] /\ PaymentsOfFlow[p] = payment[p]
      /\ payment[p].status # "absent"
      /\ UNCHANGED <<GatewaysOfFlow, callbacks>>
  BY <1>0, <1>p, RequestAsIs, LiftNoPush
<1>2. /\ payment \in [Payments -> PaymentRow]
      /\ PaymentsOfFlow = [q \in Payments |-> PaymentsOfFlow[q]]
  BY Bars DEF BarsAre, TxInv, IInv, TypeOK
<1>3. CASE payment[p].status \in OPEN
  <2>1. PICK row : row = [payment[p] EXCEPT !.status = "success", !.transactionId = TRUE]
    OBVIOUS
  <2>2. payment' = [payment EXCEPT ![p] = row]
    <3>1. payment' = [payment EXCEPT ![p].status = "success", ![p].transactionId = TRUE]
      BY <1>3, <1>p DEF FinalizeSuccess
    <3> QED BY <1>2, <2>1, <3>1 DEF PaymentRow
  <2>3. PaymentsOfFlow' = [PaymentsOfFlow EXCEPT ![p] = row]
    BY <1>1, <2>2, LiftPayment
  <2>4. PaymentsOfFlow' = [PaymentsOfFlow EXCEPT ![p].status = "success",
                                                 ![p].transactionId = TRUE]
    BY <1>1, <1>2, <2>1, <2>3 DEF PaymentRow
  <2>5. Flow!Become(t, Flow!Handling("completedRead", p))
    BY <1>3, <1>p, LiftHandling DEF FinalizeSuccess
  <2>6. ticket' = Flow!Claimed(payment[p].ticketId, p)
    BY <1>3, <1>p DEF FinalizeSuccess, Claimed, Claimable, Flow!Claimed, Flow!Claimable
  <2> QED BY <1>0, <1>1, <1>3, <1>p, <2>4, <2>5, <2>6, FlowWords DEF Flow!FinalizeSuccess
<1>4. CASE payment[p].status \notin OPEN
  <2>1. Flow!Finish(t) /\ UNCHANGED <<ticket, PaymentsOfFlow>>
    BY <1>4, <1>p, LiftFinish, LiftNothing DEF FinalizeSuccess
  <2> QED BY <1>0, <1>1, <1>4, <1>p, <2>1, FlowWords DEF Flow!FinalizeSuccess
<1> QED BY <1>3, <1>4

LEMMA ClosingsMap ==
  ASSUME TxInv, TxInv', SameInserts, NEW t \in Tasks, ~Inserts(t),
         \/ FinalizeSuccess(t) \/ FinalizeFailure(t) \/ CancelCommit(t)
  PROVE  Flow!KelpayStep(t)
<1>0. TasksOfFlow[t] = task[t]
  BY RequestAsIs
<1>1. CASE FinalizeSuccess(t)
  BY <1>1, SuccessMaps, Zenon DEF Flow!KelpayStep
<1>2. CASE FinalizeFailure(t)
  <2>1. Flow!FinalizeFailure(t)
    BY <1>0, <1>2, CloseMaps DEF FinalizeFailure, Flow!FinalizeFailure
  <2> QED BY <2>1, Zenon DEF Flow!KelpayStep
<1>3. CASE CancelCommit(t)
  <2>1. Flow!CancelCommit(t)
    BY <1>0, <1>3, CloseMaps DEF CancelCommit, Flow!CancelCommit
  <2> QED BY <2>1, Zenon DEF Flow!KelpayStep
<1> QED BY <1>1, <1>2, <1>3

-----------------------------------------------------------------------------
LEMMA IdlingInserts ==
  ASSUME NEW t \in Tasks, Idling(t)
  PROVE  ~Inserts(t)
BY DEF Idling, Inserts

LEMMA StatementMaps ==
  ASSUME TxInv, TxInv', NEW t \in Tasks, Statement(t)
  PROVE  Flow!KelpayStep(t)
<1>1. ~Inserts(t) /\ SameInserts
  BY IdlingInserts DEF Statement, SameInserts, Inserts
<1> QED BY <1>1, AnswersMap, ReadsMap, PaymentSavesMap, TicketSavesMap DEF Statement

LEMMA StartsMap ==
  ASSUME TxInv, TxInv', SameInserts, NEW t \in Tasks, ~Inserts(t), NEW p \in Payments,
         StartVerify(t, p) \/ StartConfirm(t, p) \/ StartCancel(t, p)
  PROVE  Flow!Next
<1>0. UNCHANGED <<ticket, payment, gateway, callbacks>> /\ payment[p].status # "absent"
  BY DEF StartVerify, StartConfirm, StartCancel, Checkable, OPEN
<1>1. /\ TasksOfFlow[t] = task[t] /\ PaymentsOfFlow[p] = payment[p]
      /\ UNCHANGED <<ticket, PaymentsOfFlow, GatewaysOfFlow, callbacks>>
  BY <1>0, RequestAsIs, ExistingAsIs, LiftReads
<1>2. CASE StartVerify(t, p)
  <2>1. Flow!Become(t, Flow!Handling("checkHttp", p))
    BY <1>2, LiftHandling DEF StartVerify
  <2>2. Flow!StartVerify(t, p)
    BY <1>1, <1>2, <2>1 DEF StartVerify, Free, Checkable,
                            Flow!StartVerify, Flow!Free, Flow!Checkable
  <2> QED BY <2>2, Zenon DEF Flow!Next, Flow!KelpayStart
<1>3. CASE StartConfirm(t, p)
  <2>1. Flow!Become(t, Flow!Handling("checkHttp", p))
    BY <1>3, LiftHandling DEF StartConfirm
  <2>2. Flow!StartConfirm(t, p)
    BY <1>1, <1>3, <2>1, FlowWords DEF StartConfirm, Free, Checkable,
                                       Flow!StartConfirm, Flow!Free, Flow!Checkable
  <2> QED BY <2>2, Zenon DEF Flow!Next, Flow!KelpayStart
<1>4. CASE StartCancel(t, p)
  <2>1. Flow!Become(t, Flow!Handling("cancelCommit", p))
    BY <1>4, LiftHandling DEF StartCancel
  <2>2. Flow!StartCancel(t, p)
    BY <1>1, <1>4, <2>1, FlowWords DEF StartCancel, Free, Flow!StartCancel, Flow!Free
  <2> QED BY <2>2, Zenon DEF Flow!Next, Flow!KelpayStart
<1> QED BY <1>2, <1>3, <1>4

LEMMA CallbackMaps ==
  ASSUME TxInv, TxInv', SameInserts, NEW t \in Tasks, ~Inserts(t), NEW p \in Payments,
         ReceiveCallback(t, p)
  PROVE  Flow!Next
<1>1. payment[p].status # "absent" /\ UNCHANGED <<ticket, gateway>>
  BY CallbackMoves DEF TxInv, ReceiveCallback
<1>2. /\ TasksOfFlow[t] = task[t] /\ PaymentsOfFlow[p] = payment[p]
      /\ GatewaysOfFlow[p] = gateway[p] /\ UNCHANGED GatewaysOfFlow
  BY <1>1, RequestAsIs, ExistingAsIs, LiftNoPush
<1>3. /\ payment \in [Payments -> PaymentRow]
      /\ PaymentsOfFlow = [q \in Payments |-> PaymentsOfFlow[q]]
  BY Bars DEF BarsAre, TxInv, IInv, TypeOK
<1>4. PaymentsOfFlow' = [PaymentsOfFlow EXCEPT ![p].transactionId = TRUE]
  <2>1. PICK row : row = [payment[p] EXCEPT !.transactionId = TRUE]
    OBVIOUS
  <2>2. payment' = [payment EXCEPT ![p] = row]
    BY <1>3, <2>1 DEF ReceiveCallback
  <2>3. PaymentsOfFlow' = [PaymentsOfFlow EXCEPT ![p] = row]
    BY <1>1, <2>2, LiftPayment
  <2> QED BY <1>2, <1>3, <2>1, <2>3
<1>5. \E next \in Flow!Outcomes(p) : Flow!Become(t, Flow!Handling(next, p))
  <2>1. PICK next \in Outcomes(p) : Become(t, Handling(next, p))
    BY DEF ReceiveCallback
  <2>2. Flow!Outcomes(p) = Outcomes(p)
    BY <1>2, Zenon DEF Flow!Outcomes, Outcomes
  <2> QED BY <2>1, <2>2, LiftHandling
<1>6. Flow!ReceiveCallback(t, p)
  <2>1. Flow!Free(t, "callback") /\ p \in callbacks /\ callbacks' \in {callbacks, callbacks \ {p}}
    BY <1>2 DEF ReceiveCallback, Free, Flow!Free
  <2> QED BY <1>1, <1>2, <1>4, <1>5, <2>1, Zenon DEF Flow!ReceiveCallback
<1> QED BY <1>6, Zenon DEF Flow!Next, Flow!KelpayStart

LEMMA RequestMaps ==
  ASSUME TxInv, TxInv', NEW t \in Tasks, Request(t)
  PROVE  Flow!Next \/ UNCHANGED Flow!vars
<1>1. CASE \E k \in Tickets : BeginInitiate(t, k)
  BY <1>1, QuietSteps
<1>2. ASSUME Idling(t), UNCHANGED tx, NEW p \in Payments,
             \/ StartVerify(t, p) \/ StartConfirm(t, p) \/ StartCancel(t, p)
             \/ ReceiveCallback(t, p)
      PROVE  Flow!Next
  <2>1. ~Inserts(t) /\ SameInserts
    BY <1>2, IdlingInserts DEF SameInserts, Inserts
  <2> QED BY <1>2, <2>1, StartsMap, CallbackMaps
<1> QED BY <1>1, <1>2 DEF Request

(* A transaction that closes a payment takes effect where it commits, or     *)
(* where it finds the payment closed already.                                *)
LEMMA LockPaymentMaps ==
  ASSUME TxInv, TxInv', NEW t \in Tasks, LockPayment(t)
  PROVE  Flow!Next \/ UNCHANGED Flow!vars
<1>1. /\ tx[t].pc = "lockPayment" /\ tx[t].pc \in Closing /\ ~Inserts(t)
      /\ UNCHANGED <<ticket, payment, gateway, callbacks>>
  BY DEF LockPayment, Closing, Inserts
<1>2. CASE payment[tx[t].p].status \in OPEN
  <2>1. [tx[t] EXCEPT !.pc = "savePayment", !.paymentRow = payment[tx[t].p]].pc # "insert"
    BY SlotKnown DEF Transaction
  <2> QED BY <1>1, <1>2, <2>1, GoInserts, LiftStutter DEF LockPayment
<1>3. CASE payment[tx[t].p].status \notin OPEN
  <2>1. End(t) /\ Finish(t)
    BY <1>3 DEF LockPayment
  <2>2. SameInserts
    BY <1>1, <2>1, EndInserts
  <2>3. /\ task[t].pc \in {"finalizeSuccess", "finalizeFailure", "cancelCommit"}
        /\ tx[t].p = task[t].p
    BY <1>1, ClosingKnown
  <2>4. FinalizeSuccess(t) \/ FinalizeFailure(t) \/ CancelCommit(t)
    BY <1>1, <1>3, <2>1, <2>3 DEF FinalizeSuccess, FinalizeFailure, CancelCommit, Close
  <2>5. Flow!KelpayStep(t)
    BY <1>1, <2>2, <2>4, ClosingsMap
  <2> QED BY <2>5, Zenon DEF Flow!Next
<1> QED BY <1>2, <1>3

LEMMA CommitMaps ==
  ASSUME TxInv, TxInv', NEW t \in Tasks, CommitClose(t)
  PROVE  Flow!Next
<1>1. ~Inserts(t) /\ End(t)
  BY DEF CommitClose, Inserts
<1>2. SameInserts
  BY <1>1, EndInserts
<1>3. FinalizeSuccess(t) \/ FinalizeFailure(t) \/ CancelCommit(t)
  BY CommitIsClose
<1>4. Flow!KelpayStep(t)
  BY <1>1, <1>2, <1>3, ClosingsMap
<1> QED BY <1>4, Zenon DEF Flow!Next

(* A rollback ends the request; of initiate nothing has been seen before. *)
LEMMA RollbackMaps ==
  ASSUME TxInv, TxInv', NEW t \in Tasks, Rollback(t)
  PROVE  Flow!Next \/ UNCHANGED Flow!vars
<1>1. /\ ~Inserts(t) /\ End(t) /\ Finish(t) /\ tx[t].pc \in Opening \cup Closing
      /\ UNCHANGED <<ticket, payment, gateway, callbacks>>
  BY DEF Rollback, Inserts, TxLabel, Opening, Closing
<1>2. SameInserts
  BY <1>1, EndInserts
<1>3. CASE tx[t].pc \in Opening
  <2>1. task[t] = Idle
    BY <1>3, SlotKnown DEF Holds
  <2>2. UNCHANGED task
    BY <1>1, <2>1 DEF Finish, Become, TxInv, IInv, TypeOK
  <2> QED BY <1>1, <1>2, <2>2, LiftStutter
<1>4. CASE tx[t].pc \in Closing
  <2>1. task[t].pc # "idle" /\ TasksOfFlow[t] = task[t]
    BY <1>1, <1>4, ClosingKnown, RequestAsIs
  <2>2. Flow!Finish(t) /\ UNCHANGED <<ticket, PaymentsOfFlow, GatewaysOfFlow, callbacks>>
    BY <1>1, <1>2, LiftFinish, LiftReads
  <2>3. Flow!Abort(t)
    BY <2>1, <2>2 DEF Flow!Abort
  <2> QED BY <2>3, Zenon DEF Flow!Next
<1> QED BY <1>1, <1>3, <1>4

LEMMA GatewayMaps ==
  ASSUME TxInv, TxInv', Gateway, UNCHANGED tx
  PROVE  Flow!Next
<1>1. SameInserts
  BY DEF SameInserts, Inserts
<1>2. PICK p \in Payments : GatewayTakesPush(p) \/ GatewaySettles(p) \/ LoseCallback(p)
  BY DEF Gateway
<1>3. /\ UNCHANGED <<ticket, payment, task>>
      /\ UNCHANGED <<PaymentsOfFlow, TasksOfFlow>>
  BY <1>1, <1>2, LiftNothing, LiftNoTask DEF GatewayTakesPush, GatewaySettles, LoseCallback
<1>4. CASE GatewayTakesPush(p)
  <2>1. PICK g \in {"pushed", "refused"} : gateway' = [gateway EXCEPT ![p] = g]
    BY <1>4 DEF GatewayTakesPush
  <2>2. gateway[p] = "sent" /\ UNCHANGED callbacks
    BY <1>4 DEF GatewayTakesPush
  <2>3. GatewaysOfFlow[p] = gateway[p] /\ GatewaysOfFlow' = [GatewaysOfFlow EXCEPT ![p] = g]
    BY <1>1, <2>1, <2>2, ExistingAsIs, LiftPush
  <2>4. Flow!GatewayTakesPush(p)
    BY <1>3, <2>1, <2>2, <2>3 DEF Flow!GatewayTakesPush
  <2> QED BY <2>4, Zenon DEF Flow!Next, Flow!Gateway
<1>5. CASE GatewaySettles(p)
  <2>1. PICK g \in {"charged", "declined"} : gateway' = [gateway EXCEPT ![p] = g]
    BY <1>5 DEF GatewaySettles
  <2>2. gateway[p] = "pushed" /\ callbacks' = callbacks \cup {p}
    BY <1>5 DEF GatewaySettles
  <2>3. GatewaysOfFlow[p] = gateway[p] /\ GatewaysOfFlow' = [GatewaysOfFlow EXCEPT ![p] = g]
    BY <1>1, <2>1, <2>2, ExistingAsIs, LiftPush
  <2>4. Flow!GatewaySettles(p)
    BY <1>3, <2>1, <2>2, <2>3 DEF Flow!GatewaySettles
  <2> QED BY <2>4, Zenon DEF Flow!Next, Flow!Gateway
<1>6. CASE LoseCallback(p)
  <2>1. UNCHANGED GatewaysOfFlow
    BY <1>1, <1>6, LiftNoPush DEF LoseCallback
  <2>2. Flow!LoseCallback(p)
    BY <1>3, <1>6, <2>1 DEF LoseCallback, Flow!LoseCallback
  <2> QED BY <2>2, Zenon DEF Flow!Next, Flow!Gateway
<1> QED BY <1>2, <1>4, <1>5, <1>6

LEMMA InitMaps == TxInit => Flow!Init
<1> SUFFICES ASSUME TxInit PROVE Flow!Init
  OBVIOUS
<1>1. \A t \in Tasks : ~Inserts(t)
  BY DEF TxInit, NoTx, Inserts
<1>2. TxInv
  BY TxStart
<1>3. \A p \in Payments : ~Inserted(p)
  BY <1>1 DEF Inserted
<1>4. /\ PaymentsOfFlow = payment /\ GatewaysOfFlow = gateway /\ TasksOfFlow = task
  BY <1>1, <1>2, <1>3, Bars DEF BarsAre, TxInv, IInv, TypeOK
<1>5. Flow!NoPayment = NoPayment
  BY DEF Flow!NoPayment, NoPayment
<1> QED BY <1>4, <1>5, FlowWords DEF TxInit, Init, Flow!Init

LEMMA StepMaps ==
  TxInv /\ TxInv' /\ [TxNext]_txVars => Flow!Next \/ UNCHANGED Flow!vars
<1> SUFFICES ASSUME TxInv, TxInv', [TxNext]_txVars
             PROVE  Flow!Next \/ UNCHANGED Flow!vars
  OBVIOUS
<1>1. ASSUME NEW t \in Tasks, TxStep(t)
      PROVE  Flow!Next \/ UNCHANGED Flow!vars
  BY <1>1, QuietSteps, ReadOpenMaps, InsertMaps, LockPaymentMaps, CommitMaps DEF TxStep
<1>2. ASSUME NEW t \in Tasks, Request(t) \/ Statement(t) \/ Rollback(t)
      PROVE  Flow!Next \/ UNCHANGED Flow!vars
  <2>1. Flow!KelpayStep(t) => Flow!Next
    BY Zenon DEF Flow!Next
  <2> QED BY <1>2, <2>1, RequestMaps, StatementMaps, RollbackMaps
<1>3. CASE Gateway /\ UNCHANGED <<pool, owner, tx>>
  BY <1>3, GatewayMaps
<1>4. CASE UNCHANGED txVars
  <2>1. SameInserts /\ UNCHANGED <<ticket, payment, gateway, callbacks, task>>
    BY <1>4 DEF txVars, SameInserts, Inserts
  <2> QED BY <2>1, LiftStutter
<1> QED BY <1>1, <1>2, <1>3, <1>4 DEF TxNext

(* The row locks make each transaction one step of KelpayFlow: no request    *)
(* sees half of one, none decides on a row that changes before it commits,   *)
(* and one that fails has happened not at all.  Whatever is proved of the    *)
(* steps of KelpayFlow holds of the statements of the code.                  *)
THEOREM TransactionsAreFlow == TxSpec => ImplementsFlow
<1>1. TxInit => Flow!Init
  BY InitMaps
<1>2. TxInv /\ TxInv' /\ [TxNext]_txVars => [Flow!Next]_(Flow!vars)
  BY StepMaps
<1>3. TxSpec => []TxInv
  BY TransactionsInvariant
<1> QED BY <1>1, <1>2, <1>3, PTL DEF TxSpec, ImplementsFlow, Flow!Spec

(* Nor does a sale depend on where a transaction is interrupted: statement   *)
(* by statement, a sold ticket, a link to a payment and a paid payment each  *)
(* have a charge behind them.                                                *)
THEOREM StatementsSellPaid ==
  TxSpec => [](SoldIsCharged /\ LinkIsCharged /\ PaidIsCharged)
<1>1. TxInv => SoldIsCharged /\ LinkIsCharged /\ PaidIsCharged
  BY DEF TxInv, IInv, PaymentsSound, PaidIsCharged
<1> QED BY <1>1, TransactionsInvariant, PTL
=============================================================================
