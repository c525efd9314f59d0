---------------------------- MODULE TicketOffice ----------------------------
(***************************************************************************)
(* The whole ticket office: Kelpay sales and counter sales over the same   *)
(* tables, with their requests interleaved.                                *)
(***************************************************************************)
EXTENDS KelpayFlow, CounterSales

OfficeInit == Init /\ approved = {}

OfficeNext ==
  \/ Next /\ UNCHANGED approved
  \/ CounterNext

OfficeSpec == OfficeInit /\ [][OfficeNext]_counterVars
-----------------------------------------------------------------------------
Buying == {"purchaseReserve", "purchaseCreate", "purchaseLink", "purchaseUndo"}

Authorised(p) == Charged(p) \/ p \in approved

(* A ticket is sold only if a payment of that ticket was charged by Kelpay   *)
(* or declared paid by a person: neither the webhook with a status of its    *)
(* own choosing nor any stale save of purchase, complete or updateStatus     *)
(* sells a ticket nobody answers for.                                        *)
SoldIsAuthorised ==
  \A k \in Tickets : ticket[k].status = "sold" =>
    \E p \in Payments : payment[p].ticketId = k /\ Authorised(p)

(* tickets.paymentId always names a payment of that very ticket, through     *)
(* concurrent purchases, releases and claims that overwrite each other.      *)
LinkNamesOwnPayment ==
  \A k \in Tickets : LET p == ticket[k].paymentId IN
    p # None => payment[p].ticketId = k

Reserving == {"purchaseCreate", "purchaseLink", "purchaseUndo"}

(* Nobody can settle such a reservation: its row names no payment that staff *)
(* complete or fail, and no purchase is left to link or to release it.       *)
Orphaned(k) ==
  /\ ticket[k].status = "reserved"
  /\ ticket[k].paymentId = None
  /\ \A t \in Tasks : ~(task[t].k = k /\ task[t].pc \in Reserving)

(* "En cas d'erreur, libérer le ticket": a failing insert, link or          *)
(* decryption never leaves a reservation behind, however other purchases,   *)
(* releases and sales write the row meanwhile.  Only two things do: the     *)
(* save in the catch block fails as well, or the process stops.             *)
OrphanedByFailedRelease ==
  [][\A k \in Tickets : ~Orphaned(k) /\ Orphaned(k)' =>
       \E t \in Tasks :
         /\ task[t].k = k
         /\ \/ task[t].pc = "purchaseUndo" /\ PurchaseGivesUp(t)
            \/ task[t].pc \in Reserving /\ Abort(t)]_counterVars

(* The payments whose amounts the dashboard sums up. *)
totalRevenue == {p \in Payments : payment[p].status \in PAID}

(* getDashboardStats and getChartData count an amount as revenue only if     *)
(* Kelpay charged it or a person declared it paid, although complete,        *)
(* updateStatus, verify and confirm save whole rows others have changed.     *)
RevenueIsBacked == \A p \in totalRevenue : Authorised(p)

Authority == INSTANCE SaleAuthority WITH
  authorised <- {k \in Tickets :
                   \E p \in Payments : payment[p].ticketId = k /\ Authorised(p)},
  sold <- {k \in Tickets : ticket[k].status = "sold"}

(* Every step of every flow is a step of SaleAuthority: a sale needs an     *)
(* authority, and an authority lasts even when the payment's row is         *)
(* overwritten by an older one.                                             *)
ImplementsAuthority == Authority!Spec
=============================================================================
