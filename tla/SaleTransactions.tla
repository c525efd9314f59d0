-------------------------- MODULE SaleTransactions --------------------------
(***************************************************************************)
(* The transactions of the orchestrator, statement by statement.           *)
(* KelpayFlow takes each of them as one step; here a request begins it on  *)
(* a connection of the pool, takes row locks (SELECT ... FOR UPDATE) one   *)
(* after the other, keeps its writes to itself until it commits, and loses *)
(* them if a statement fails.  Reads see committed rows and wait for       *)
(* nobody; a write waits for the lock of its row.                          *)
(***************************************************************************)
EXTENDS KelpayFlow, Naturals

CONSTANT MaxPool     \* the largest pool of connections (pg: max)

ASSUME PoolAssumption ==
  /\ MaxPool \in Nat \ {0}
  /\ Tickets \cap Payments = {}
  /\ None \notin Tasks

VARIABLES
  pool,      \* the number of connections
  owner,     \* [Tickets \cup Payments -> Tasks \cup {None}]: the row locks
  tx         \* [Tasks -> Transaction]: the transaction a request has open

txVars == <<ticket, payment, gateway, callbacks, task, pool, owner, tx>>
tables == <<ticket, payment, gateway, callbacks, task, pool>>

TxLabel == {"none", "lockTicket", "readOpen", "insert",
            "lockPayment", "savePayment", "claimLock", "commit"}

(* k: the ticket; p: the payment; paymentRow, ticketRow: what it has read    *)
(* under its locks and written so far; claims: whether it writes the ticket; *)
(* doomed: a later statement of it is going to fail.                         *)
Transaction == [pc : TxLabel, k : Tickets \cup {None}, p : Payments \cup {None},
                paymentRow : PaymentRow, ticketRow : TicketRow,
                claims : BOOLEAN, doomed : BOOLEAN]

NoTx == [pc |-> "none", k |-> None, p |-> None, paymentRow |-> NoPayment,
         ticketRow |-> NoTicket, claims |-> FALSE, doomed |-> FALSE]

TxTypeOK ==
  /\ TypeOK
  /\ pool \in 1..MaxPool
  /\ owner \in [Tickets \cup Payments -> Tasks \cup {None}]
  /\ tx \in [Tasks -> Transaction]

TxInit ==
  /\ Init
  /\ pool \in 1..MaxPool
  /\ owner = [r \in Tickets \cup Payments |-> None]
  /\ tx = [t \in Tasks |-> NoTx]
-----------------------------------------------------------------------------
Idling(t) == tx[t].pc = "none"
Connection == Cardinality({t \in Tasks : tx[t].pc # "none"}) < pool

Go(t, r) == tx' = [tx EXCEPT ![t] = r]
Lock(t, r) == owner[r] = None /\ owner' = [owner EXCEPT ![r] = t]

(* COMMIT and ROLLBACK give back the locks and the connection. *)
End(t) ==
  /\ tx' = [tx EXCEPT ![t] = NoTx]
  /\ owner' = [r \in DOMAIN owner |-> IF owner[r] = t THEN None ELSE owner[r]]

(* initiate.  The ids do not run out under a transaction that has begun: *)
(* Payments is a bound of the instance, a new id can always be drawn.    *)
IdLeft ==
  Cardinality({p \in Payments : payment[p].status = "absent"}) >
    Cardinality({t \in Tasks : tx[t].pc \in {"lockTicket", "readOpen", "insert"}})

BeginInitiate(t, k) ==
  /\ Free(t, "initiate") /\ Idling(t) /\ Connection /\ IdLeft
  /\ Go(t, [NoTx EXCEPT !.pc = "lockTicket", !.k = k])
  /\ UNCHANGED <<tables, owner>>

(* Slip: the ticket is read without a lock. *)
SlipReadUnlocked(t) ==
  /\ tx[t].pc = "lockTicket"
  /\ IF ticket[tx[t].k].status = "available"
       THEN Go(t, [tx[t] EXCEPT !.pc = "readOpen"]) /\ UNCHANGED owner
       ELSE End(t)
  /\ UNCHANGED tables

LockTicket(t) ==
  LET k == tx[t].k IN
  /\ tx[t].pc = "lockTicket"
  /\ owner[k] = None
  /\ IF ticket[k].status = "available"
       THEN Lock(t, k) /\ Go(t, [tx[t] EXCEPT !.pc = "readOpen"])
       ELSE End(t)
  /\ UNCHANGED tables

(* The look-up of an open payment, which locks nothing, and the draw of the *)
(* new payment's id.                                                        *)
ReadOpen(t) ==
  LET k == tx[t].k IN
  /\ tx[t].pc = "readOpen"
  /\ IF \E q \in Payments : OpenKelpay(q, k)
       THEN End(t)
       ELSE /\ \E p \in Payments :
                 /\ payment[p].status = "absent"
                 /\ \A u \in Tasks : tx[u].p # p
                 /\ \E fate \in {FALSE} \cup {"dbError" \in Faults} :
                      Go(t, [tx[t] EXCEPT !.pc = "insert", !.p = p, !.doomed = fate])
            /\ UNCHANGED owner
  /\ UNCHANGED tables

InsertedRow(k) == [status |-> "pending", ticketId |-> k,
                   method |-> "mobile_money", transactionId |-> FALSE]

(* The INSERT and the COMMIT; the request to Kelpay leaves next. *)
Insert(t) ==
  LET p == tx[t].p IN
  /\ tx[t].pc = "insert" /\ ~tx[t].doomed
  /\ payment' = [payment EXCEPT ![p] = InsertedRow(tx[t].k)]
  /\ gateway' = [gateway EXCEPT ![p] = "sent"]
  /\ Become(t, Handling("initiateHttp", p))
  /\ End(t)
  /\ UNCHANGED <<ticket, callbacks, pool>>

InsertFails(t) ==
  /\ tx[t].pc = "insert" /\ tx[t].doomed
  /\ End(t)
  /\ UNCHANGED tables
-----------------------------------------------------------------------------
(* finalizeSuccess, finalizeFailure and the transaction of cancel. *)
ClosedAs ==
  [finalizeSuccess |-> "success", finalizeFailure |-> "failed",
   cancelCommit |-> "cancelled"]

BeginClose(t) ==
  /\ task[t].pc \in DOMAIN ClosedAs /\ Idling(t) /\ Connection
  /\ Go(t, [NoTx EXCEPT !.pc = "lockPayment", !.p = task[t].p])
  /\ UNCHANGED <<tables, owner>>

LockPayment(t) ==
  LET p == tx[t].p IN
  /\ tx[t].pc = "lockPayment"
  /\ owner[p] = None
  /\ IF payment[p].status \in OPEN
       THEN /\ Lock(t, p)
            /\ Go(t, [tx[t] EXCEPT !.pc = "savePayment", !.paymentRow = payment[p]])
            /\ UNCHANGED task
       ELSE End(t) /\ Finish(t)
  /\ UNCHANGED <<ticket, payment, gateway, callbacks, pool>>

SavePayment(t) ==
  LET paid == task[t].pc = "finalizeSuccess" IN
  /\ tx[t].pc = "savePayment"
  /\ Go(t, [tx[t] EXCEPT !.pc = IF paid THEN "claimLock" ELSE "commit",
                         !.k = IF paid THEN @ ELSE None,
                         !.paymentRow.status = ClosedAs[task[t].pc],
                         !.paymentRow.transactionId = @ \/ paid])
  /\ UNCHANGED <<tables, owner>>

(* Slip: the ticket's id is written where the payment's belongs. *)
SlipClaimWrongId(t) ==
  LET k == tx[t].paymentRow.ticketId IN
  /\ Lock(t, k)
  /\ Go(t, [tx[t] EXCEPT !.pc = "commit", !.k = k,
               !.claims = Claimable(k, tx[t].p),
               !.ticketRow = [status |-> "sold", paymentId |-> k]])
  /\ UNCHANGED tables

Claim(t) ==
  LET k == tx[t].paymentRow.ticketId IN
  /\ Lock(t, k)
  /\ Go(t, [tx[t] EXCEPT !.pc = "commit", !.k = k,
               !.claims = Claimable(k, tx[t].p),
               !.ticketRow = [status |-> "sold", paymentId |-> tx[t].p]])
  /\ UNCHANGED tables

(* Slip: the ticket is looked up on the service's repository, which takes a *)
(* connection of its own, instead of the manager of the transaction.        *)
SlipOwnConnection(t) == tx[t].pc = "claimLock" /\ Connection /\ Claim(t)

(* claimTicketForSuccessfulKelpayPayment. *)
ClaimLock(t) == tx[t].pc = "claimLock" /\ Claim(t)

CommitClose(t) ==
  LET p == tx[t].p IN
  /\ tx[t].pc = "commit"
  /\ payment' = [payment EXCEPT ![p] = tx[t].paymentRow]
  /\ ticket' = IF tx[t].claims THEN [ticket EXCEPT ![tx[t].k] = tx[t].ticketRow] ELSE ticket
  /\ Become(t, Handling(IF task[t].pc = "finalizeSuccess" THEN "completedRead"
                                                          ELSE "failedRead", p))
  /\ End(t)
  /\ UNCHANGED <<gateway, callbacks, pool>>

(* A statement fails: everything is rolled back and the exception ends the *)
(* request.                                                                *)
Rollback(t) ==
  /\ "dbError" \in Faults
  /\ tx[t].pc \in TxLabel \ {"none", "insert"}
  /\ End(t) /\ Finish(t)
  /\ UNCHANGED <<ticket, payment, gateway, callbacks, pool>>
-----------------------------------------------------------------------------
TxStep(t) ==
  \/ LockTicket(t) \/ ReadOpen(t) \/ Insert(t) \/ InsertFails(t)
  \/ BeginClose(t) \/ LockPayment(t) \/ SavePayment(t)
  \/ ClaimLock(t) \/ CommitClose(t)

(* Outside of a transaction every statement is one of its own: it waits for *)
(* a connection, and a write for its row.  Calls to Kelpay need neither.    *)
Statement(t) ==
  /\ Idling(t)
  /\ \/ InitiateAccepted(t) \/ InitiateRefused(t) \/ InitiateHttpError(t)
     \/ CheckAnswered(t) \/ CheckHttpError(t)
     \/ /\ Connection
        /\ \/ RollbackRead(t) \/ CheckRead(t)
           \/ CompletedRead(t) \/ SoldRead(t) \/ FailedRead(t) \/ ReleaseRead(t)
           \/ /\ task[t].p # None /\ owner[task[t].p] = None
              /\ InitiatePersist(t) \/ RollbackSave(t) \/ CheckSave(t)
           \/ /\ task[t].k # None /\ owner[task[t].k] = None
              /\ SoldSave(t) \/ ReleaseSave(t)
  /\ UNCHANGED <<pool, owner, tx>>

Request(t) ==
  \/ \E k \in Tickets : BeginInitiate(t, k)
  \/ /\ Idling(t) /\ Connection
     /\ \E p \in Payments :
          \/ StartVerify(t, p) \/ StartConfirm(t, p) \/ StartCancel(t, p)
          \/ owner[p] = None /\ ReceiveCallback(t, p)
     /\ UNCHANGED <<pool, owner, tx>>

TxNext ==
  \/ \E t \in Tasks : Request(t) \/ TxStep(t) \/ Statement(t) \/ Rollback(t)
  \/ Gateway /\ UNCHANGED <<pool, owner, tx>>

(* Locks and connections are granted in the order they are asked for; no *)
(* statement is bound to fail.                                           *)
TxSpec ==
  /\ TxInit /\ [][TxNext]_txVars
  /\ \A t \in Tasks : SF_txVars(TxStep(t) \/ Statement(t))
-----------------------------------------------------------------------------
(* No request waits for ever for the database: the transactions do not lock *)
(* each other out, and none of them waits for a second connection while it  *)
(* holds one, so a pool of any size serves them all.                        *)
Settled(t) == Idling(t) /\ task[t].pc \in {"idle", "initiateHttp", "checkHttp"}

RequestsEnd == \A t \in Tasks : []<>Settled(t)

(* Initiate takes effect where it has found no open payment, under the lock *)
(* of the ticket; the other transactions take effect where they commit.     *)
Inserts(t) == tx[t].pc = "insert" /\ ~tx[t].doomed

InsertedBy(p) == {t \in Tasks : Inserts(t) /\ tx[t].p = p}

PaymentsOfFlow ==
  [p \in Payments |->
     IF InsertedBy(p) = {} THEN payment[p]
     ELSE InsertedRow(tx[CHOOSE t \in InsertedBy(p) : TRUE].k)]

GatewaysOfFlow ==
  [p \in Payments |-> IF InsertedBy(p) = {} THEN gateway[p] ELSE "sent"]

TasksOfFlow ==
  [t \in Tasks |-> IF Inserts(t) THEN Handling("initiateHttp", tx[t].p) ELSE task[t]]

Flow == INSTANCE KelpayFlow WITH
  Faults <- Faults \cup {"abort"},
  payment <- PaymentsOfFlow, gateway <- GatewaysOfFlow, task <- TasksOfFlow

(* Row locks make each transaction one step, whatever is written without a  *)
(* transaction in between and wherever a statement fails: no request sees   *)
(* half of one, and none decides on a row that changes before it commits.   *)
ImplementsFlow == Flow!Spec
=============================================================================
