# Club Internet Access: a formal model of the backend

The backend sells Wi-Fi access tickets. A ticket is a row of `tickets`
(a user name and a password for the captive portal); buying one creates a row of
`payments`; the money usually moves through Kelpay (Keccel), a mobile-money
gateway that pushes a confirmation request to the customer's phone and later
notifies the backend. The hard part is that several HTTP requests, the
gateway's notification and the staff all write the same two tables, most of
them without a lock. Accounts (registration by a mailed code, reset by a mailed
link) and the import of tickets from CSV files have the same trouble on a smaller scale.
This directory holds TLA+ modules of that part, TLC
configurations that check them on small instances, and TLAPS proofs.

Paths below are relative to the repository; the server's own sources are under
`src/` of the repository.

## 1. Inventory

| Component | State it keeps | Operations | Module |
|---|---|---|---|
| Kelpay orchestrator (`kelpay/kelpay-payment-orchestrator.service.ts`) | rows of `payments` (status, ticketId, method, transactionId, journal), ticket row when a payment succeeds | initiate, verify, confirm, cancel, handleKelpayCallback, and the internal finalizeSuccess, finalizeFailure, rollbackInitiationFailure, runSingleKelpayCheckAndPersist | `KelpayFlow`; its transactions statement by statement: `SaleTransactions` |
| Webhook side effects (`tickets/tickets-webhook.service.ts`, markAsSold, markAsFailed of `tickets/tickets.service.ts`) | rows of `tickets` | handlePaymentCompleted, handlePaymentFailed, handlePaymentWebhook | `SalesTables`, `CounterSales` |
| Counter sales (`payment/payment.service.ts`, `TicketsService.purchase`) | both tables | purchase, completePayment, updateStatus | `CounterSales` |
| Ticket inventory (`tickets/tickets.service.ts`) | `tickets`, `ticket_types` | catalogue, remove, importFromCSV | catalogue and remove: `SalesTables`, `CounterSales`; import, types and remove: `TicketImport`; durations and their prices: `TimeLimit` |
| Kelpay client (`kelpay/kelpay-api.client.ts`) | none between calls; in a call: the attempt, the POSTs under way | initiatePayment, checkTransaction, postJson | `KelpayClient` |
| Kelpay gateway | external: what was pushed, charged, declined; notifications under way | payment.asp, checktransaction.asp, the notification | external part of `KelpayFlow` and `KelpayClient` |
| Connection pool (`config/database.config.ts`) | connections in use | taken by a statement or a transaction, given back at its end | `SaleTransactions` |
| Reading of Kelpay's answers (`kelpay/kelpay-response.util.ts`) | none: functions | parseKelpayResponse, inferKelpayCheckOutcome, resolveKelpayCheckTerminal, the branches of verify | `KelpayAnswer` |
| Registration, login, password reset (`auth/auth.service.ts`) | `pending_registrations`, `password_reset_tokens`, `users` | requestRegistration, verifyRegistration, resendRegistrationCode, requestPasswordReset, resetPassword | `Accounts` |
| Users (`users/`) | `users` | create, update, remove | `Accounts` |
| Dashboard, statistics, lists | none | read-only queries | its revenue: `TicketOffice`; the rest not modelled |
| E-mail, guards, configuration, seeds | none that changes while requests run | I/O and wiring | not modelled |

How the parts interact. The orchestrator inserts and closes payments, sells the
ticket inside its own transaction, and then calls the webhook service, which
reads the payment again and calls `markAsSold` or `markAsFailed`. `PaymentService`
writes payments by hand (staff) and calls the same webhook service.
`TicketsService.purchase` calls `PaymentService.create`. So everything meets in
two tables; no part keeps state in memory between requests. The gateway is
reached by HTTP (three attempts, a timeout each) and calls back over HTTP.
The reading of its answers is pure and is used by verify, confirm and the callback. Imports fill the
tables that sales live on. Accounts share no state with sales: a user id only
decides whether a request is refused.

Which behaviours are hard:

- rows read by `findOne` and written back whole by `save` later, without a lock
  (`markAsSold`, `markAsFailed`, `purchase`, `completePayment`, `updateStatus`,
  `runSingleKelpayCheckAndPersist`, `rollbackInitiationFailure`);
- four ways to close one payment at once (notification, verify or confirm,
  cancel, roll-back);
- an answer of the gateway that is lost although the push was taken; a
  notification that comes before the answer, twice, late or never;
- a request that stops half-way, after a commit and before the next one;
- three POSTs of one payment that Kelpay may take in any order, late, or after
  the client has given up;
- transactions that lock two rows and share a small pool of connections;
- a purchase that fails after it reserved the ticket;
- registrations, resends and wrong codes for one address that save each other's
  pending row whole;
- a reset that changes the password in one statement and spends its link in a later one;
- imports that check a user name or a type and insert it an await later.

What makes each part correct:

- orchestrator: no ticket is sold, and no payment is shown as paid, unless the
  customer was charged; one open payment per ticket; a payment closes once, unless a
  request saves the copy it read before; a charged payment does not stay open,
  unless its notification or the request that handles it is lost;
- webhook side effects: they act on the payment's own status, and on the
  payment's own ticket;
- counter sales: a ticket is sold only on somebody's authority; the link from a
  ticket to its payment names a payment of that ticket; a purchase that fails
  releases its ticket, unless the release fails as well;
- accounts: a password chosen in a registration becomes active only for
  somebody who was mailed a code of that registration; the stored count of wrong
  codes stays within its limit; the links a request finds die before it makes
  a new one, and a used one is spent, unless its request ends before that;
- import: what it reports is what it stored, nothing is written over, and all
  tickets of a file have the type asked for; the preview of an import names the
  type and the price it will have;
- dashboard: an amount is revenue only if somebody paid it;
- client: one reference is charged at most once however often it is posted, an
  acceptance means a push, and every call ends;
- transactions: each takes effect as a whole, on rows that do not change before
  it commits, and none waits for ever;
- answers: paid, failed and unknown never mixed up, by none of the readers.

The `hazards` of PROJECT.json list these at their lines, with the properties that
would notice each going wrong.

## 2. Modules

- **SalesTables**: the variables (`ticket`, `payment`, `gateway`, `callbacks`,
  `task`), the type invariant, the catalogue filter, and the chain every flow
  ends with (`CompletedRead`, `SoldRead`, `SoldSave`, `FailedRead`,
  `ReleaseRead`, `ReleaseSave`).
- **KelpayFlow** (extends SalesTables): the orchestrator and the gateway, their
  specification, fairness and properties.
- **CounterSales** (extends SalesTables): purchase, completePayment,
  updateStatus, the internal webhook, remove.
- **TicketOffice** (extends both): all flows interleaved over the same tables.
- **SaleTransactions** (extends KelpayFlow): initiate, finalizeSuccess,
  finalizeFailure and cancel with every statement, row lock, commit, rollback
  and connection of the pool. It refines KelpayFlow.
- **PaymentLedger**, **SaleAuthority**: abstract specifications, one per flow
  and one for the office (section 4).
- **KelpayInvariant**, **KelpayProofs**: the inductive invariant of the Kelpay
  flow and the proofs; **LedgerProofs**: that the flow implements PaymentLedger;
  **OfficeInvariant**, **OfficeProofs**: the invariant and the proofs for all
  flows together (section 6).
- **TransactionInvariant**, **TransactionProofs**: what an open transaction
  knows under its locks, and the proof that SaleTransactions implements
  KelpayFlow.
- **KelpayAnswer**: how a body of the gateway is parsed and read. No request is
  involved; the state is the body, field by field, of two fields at most.
- **KelpayClient** (extends KelpayAnswer): the call in which such a body
  arrives, with its attempts and timeouts. It refines KelpayFlow;
  **ClientProofs** holds the proofs about both.
- **Accounts**: registration, reset, and the writes of the staff to `users`;
  **AccountsProofs** holds the proofs.
- **TicketImport**: CSV imports, the types they create, the deletion of tickets;
  **ImportProofs** holds the proofs (section 6).
- **TimeLimit**: the classes of the column Time Limit, the prices, and the
  groups of the preview (getImportTypeRecommendations). No variables; its
  theorems are about the functions.
- **MCKelpay**, **MCOffice**, **MCAccounts**, **MCImport**: the modules TLC is
  run on; they add the symmetry sets and the set of files.

### How state and actions correspond to the code

| Variable | Code |
|---|---|
| `ticket[k]` | row of `tickets`: `status`, and `paymentId` (a plain column written together with the relation). `absent` is a row that has been deleted. The status `expired` is never written by any code and is left out. |
| `payment[p]` | row of `payments`: `status`, `ticketId`, `method` and whether `transactionId` is set. `absent` is a row not yet inserted; payments are never deleted. |
| `gateway[p]` | what happened at Kelpay to the push with this payment's reference. The backend never reads it except through an answer. |
| `callbacks` | payments whose notification is under way. |
| `task[t]` | a request being served: the await it stands before (`pc`), its local variables (payment, ticket, the rows it has read) and where it continues. |
| `approved` (CounterSales) | history variable: payments that a person declared paid. The code has no such record. |
| `user[u]`, `pending[e]`, `link[l]` (Accounts) | rows of `users`, `pending_registrations` (indexed by its unique e-mail) and `password_reset_tokens`. |
| `mailbox`, `lapsed`, `drawn` (Accounts) | mails delivered; codes and links past their `expiresAt`; registration ids and codes used up, so that none is drawn twice. |
| `type[y]`, `import[i]` (TicketImport) | rows of `ticket_types`; an import request with its file, the lines left, the type it uses and the two counters it answers with. |
| `deleted`, `from` (TicketImport) | history: which import stored a row, and how many of its rows were deleted since. |
| `written` (KelpayAnswer) | the fields of a body in the order Kelpay writes them. |
| `call`, `pc`, `attempt`, `result` (KelpayClient) | the call a request is in, where it stands, the attempts begun, and what it goes on with (labels of KelpayFlow). |
| `reference`, `transactionId`, `configured` (KelpayClient) | `merchantReference`, whether `transactionId` is stored, and whether the settings let a call start. |
| `copies`, `replying`, `gateway` (KelpayClient) | POSTs on the network, whether Kelpay is answering the attempt that is waited for, and what it has done with each reference. |
| `pool`, `owner` (SaleTransactions) | the number of connections and the request that holds each row's lock. |
| `tx[t]` (SaleTransactions) | the open transaction of a request: the statement it stands before, the rows it has read under its locks and its uncommitted writes. |

Node runs one request until its next `await`; other requests run in between. An
action is therefore what one request does between two awaits that matter:
a *read* and the later *save* are two actions, because any other request may
write the row between them. In detail:

- `repository.save(entity)` writes the row as it was read earlier, in one step. (TypeORM
  reads the row once more and updates the columns that differ from the
  entity, which has the same effect as writing all of them; the gap between
  these two statements is not modelled.)
- `repository.update(id, {...})` writes the named columns only
  (`InitiatePersist`, the transaction id in `ReceiveCallback`).
- a transaction that starts by locking the rows it decides on
  (`pessimistic_write`) is one step of KelpayFlow: `Initiate`, `FinalizeSuccess`,
  `FinalizeFailure`, `CancelCommit`. That this is right is no assumption:
  SaleTransactions has their statements one by one; run `transactions`
  checks, and TransactionProofs proves, that it implements KelpayFlow.
- The look-up and the transaction-id update at the start of
  handleKelpayCallback are one step with its check of the gateway's verdict:
  the update names one column which nothing reads in between.
- A request the code refuses before its first write changes nothing; it is not
  a step. What it checks is the guard of the step that would follow.
- Requests that have been refused later, after a commit of their own, end with `Finish`.
- `markAsFailed` sets `ticket.paymentId = null` and saves; the model takes that
  at face value.
- `payments.ticketId` is a plain column in the model. The entity declares a
  one-to-one relation, but the migrations only convert the type of the column: they add
  neither a unique index nor a foreign key. The tables of Accounts exist only
  through their entities, so there the entities' unique columns and foreign keys count.
- A purchase can fail in every statement: the insert, the decryption and the link
  (`PurchaseFails`), and also the save that reserves and the one by which the catch
  block releases (`PurchaseGivesUp`), after which nobody holds the row any more.
- A failing statement of the other flows, or a process that stops, is `Abort`
  (fault `abort`): the request ends where it stands, after what it has committed.
- Notifications are taken to be Kelpay's and true, as are the answers of its check:
  the route of the notification is public, and what another sender might post there is
  no subject of this model.
- reserve and release of TicketsService have no caller and no route, so they are
  no actions.

In Accounts:

- a password is named by what set it (a registration, a link, or the staff),
  codes drawn are distinct, and expiry is membership in `lapsed`: the properties
  tell no more apart;
- `Abort` ends a request before any of its statements, because it fails or because
  the process stops. resetPassword sets the password in one statement and spends
  the link in the next, so this may leave a password set and its link unused;
- deletion is by the id that was read; a save of a row whose id is gone inserts
  it again, unless another row has taken the e-mail, which the unique index
  refuses (`Saveable`);
- the throttle of the routes, names, roles and `isActive` are left out.

In TicketImport:

- a line is its user name, or `Invalid` if a column is empty; a duration stands
  for its profile; every writer of `ticket_types` sets `isActive`, so the filter on it
  decides nothing;
- a request with both ticketTypeId and catalogDuration is served by the type,
  so `asked` is one of the two;
- types are never removed and tickets start out absent: `Init` is what the seed
  leaves, at most one type for a duration. Two imports at once may create two
  types of one duration; nothing in the code promises otherwise, and no property forbids it;
- `dbError` is a statement that fails without effect; one that is committed and
  then reported as failed is not modelled;
- remove is possible for any row here; the sale of a ticket and what it forbids
  is the matter of TicketOffice.

In TimeLimit a time limit is a number of at most three digits and a unit; `n % 100 = 30`
says that the digits before the unit end in 30, which is what `includes('30d')`
finds. Longer numbers, leading zeros and two units in one text (`1d12h`) are left out.

In KelpayAnswer a key is its normalised spelling and a value is a word, with or
without blanks around it. A code and a status occur at most once each.

Left out of the data: amounts, phones, the providerResponse journal, `soldAt`,
`soldTo`, users (the role checks decide only whether a request is refused).
In KelpayFlow the three attempts of one HTTP call are one call with one outcome;
KelpayClient has them one by one; run `answers` checks, and ClientProofs
proves, that it implements KelpayFlow.

In KelpayClient:

- `AttemptFails` may happen at any moment of a wait: a broken connection, an
  HTTP error, the timeout, a body on which the parser throws;
- what is external is assumed: Keccel decides on a reference once
  (`KelpayTakes`; the entity says that merchantReference is there for
  idempotence), checktransaction.asp says what has happened, by the code or
  else by the status (`Truthful`), payment.asp may refuse a reference it knows,
  and a body may always arrive broken;
- the settings are read on each call but do not change while the process runs.

In SaleTransactions:

- reads see committed rows and wait for nobody (READ COMMITTED); a write waits
  for the lock of its row; commit and rollback give back the locks and the
  connection;
- a statement outside a transaction takes a connection for its own time, which
  is one step; calls to Kelpay hold none, since `initiate` calls after its
  transaction;
- `doomed` decides already at ReadOpen whether the INSERT is going to fail. The
  refinement lets initiate take effect at ReadOpen, under the lock of the
  ticket, which must not happen for one that is rolled back later;
- `IdLeft` is the bound of the instance: a transaction does not begin when the
  other open ones may use up the ids of `Payments`.

Definitions named `Slip...` are no part of any specification. Each is
the definition after it with one plausible programming error (a forgotten
re-check under the lock, a wrong id, a missing catch block); putting it in that
definition's place must break the property named in PROJECT.json, which shows
that the property watches that line.

## 3. Plan

Done: the core, in the order SalesTables, KelpayFlow, PaymentLedger,
KelpayInvariant, KelpayProofs, CounterSales, SaleAuthority, TicketOffice; then
KelpayAnswer, Accounts, TicketImport, ImportProofs; then KelpayClient and
SaleTransactions, which justify the two largest abstractions of KelpayFlow,
OfficeInvariant with OfficeProofs, and TimeLimit.

Then the proofs of what the runs check, most telling first: LedgerProofs (the
refinement of PaymentLedger), AccountsProofs, ClientProofs (all properties of
a call and its answers, and the refinement of KelpayFlow), TransactionProofs
(transactions are steps of KelpayFlow).

Every invariant, action property and refinement that a passing run checks now
has a theorem. Left are the three liveness properties, which the prover cannot
reach (section 6), and widening the model: the gap inside TypeORM's `save` and
the timeout of a wait for a connection (section 8).

## 4. Abstract specifications

**PaymentLedger** says what the orchestrator promises without requests, rows or locks:
an entry is opened for a ticket that has no open one and is not sold, closes
once, closes as paid only for money that has moved and with the ticket sold in
the same step. `ImplementsLedger` maps the tables to it (status classes to
entries, `ticketId` to owners, charged payments to money, sold rows to sold) and
run `kelpay_locked` checks it; LedgerProofs proves it. It holds for initiate, cancel and callback.
It does not hold with verify or confirm or with a roll-back (sections 5 and 7): their
saves write a payment row read before others wrote it.

**KelpayFlow** is itself the abstract specification of two more detailed ones.
KelpayClient implements it with one payment and one request: POSTs, waits and
pauses stutter, and the arrival of a readable body or the last failure is the
step of KelpayFlow. SaleTransactions implements it with all its rows: a
transaction's steps stutter until the one in which it takes effect, which is the
commit, and for initiate the look-up that finds no open payment, because from
there on the lock on the ticket keeps every rival out. Its rollback is `Abort`
of KelpayFlow, so `Faults` gets `abort` there. Both check and prove `Flow!Spec`, the
safety part; fairness of the detailed modules is their own.

**SaleAuthority** says what all flows together promise: a ticket is sold only when
it is paid for at Kelpay or a person has declared it paid, and such an authority is not
forgotten. That person is one of the staff or a student who completes a card payment
of his own, which `payment/payment.service.ts:64` permits. It admits that a
sale is undone, by any step and at any time, since the code does undo sales.

## 5. What the runs check

Every run uses model values for ids. Requests end and none need start,
so the system may come to rest: deadlock is not checked.

| Run | Instance | Checks | Shows |
|---|---|---|---|
| `kelpay_full` | 2 tickets, 2 payments, 2 requests; all Kelpay routes; requests abort, HTTP fails, notifications get lost | `TypeOK`, `IInv`, `SoldIsCharged`, `LinkIsCharged`, `PaidIsCharged`, `ClosedIsOverwrittenBySaves`, `StrandedByFault` | no order of requests, stale saves and failures sells a ticket or shows a payment as paid without a charge; only the saves of verify, confirm and the roll-back overwrite a closed payment; a charge stays unrecorded in three ways and no other |
| `kelpay_locked` | 1 ticket, 3 payments, 2 requests; initiate, cancel, callback; aborts and losses | `LedgerInv`, `OneOpenPayment`, `TerminalIsFinal`, `ImplementsLedger` | the locked operations alone keep the ledger; the invariant of LedgerProofs holds |
| `kelpay_live` | 1 ticket, 2 payments, 2 requests; initiate, cancel, callback; HTTP fails | `ChargedIsRecorded` | the notification alone closes a charged payment, before or after the answer to initiate (as paid, unless a cancel or a failure closed it first) |
| `office` | 1 ticket, 2 payments, 2 requests; initiate and the notification, purchase, complete, updateStatus, the internal webhook, remove; every statement of a purchase may fail, its catch block's too | `OfficeInv`, `SoldIsAuthorised`, `RevenueIsBacked`, `ImplementsAuthority`, `OrphanedByFailedRelease` | no interleaving of these flows sells a ticket nobody answers for or shows revenue nobody paid; a failing purchase leaves a reservation behind only if its release fails as well; the invariant of the proofs holds |
| `transactions` | 1 ticket, 2 payments, 2 requests, pools of 1 and 2 connections; initiate, cancel, callback; statements fail | `TxInv`, `ImplementsFlow`, `RequestsEnd` | the transactions are atomic, what one has decided under its locks stays so, and neither locks nor connections are waited for in a circle |
| `accounts` | 1 address, 1 user, 2 registrations, 3 codes, 2 links, 2 requests; limit of 1 wrong code, one expiry; mails fail, requests end before any statement | `AccountsInv`, `AccountIsConfirmed`, `AttemptsBounded`, `OlderLinksAreDead`, `ReusableByCutReset` | requests for one address that replace and restore each other's row never confirm a registration that was not mailed; the stored count keeps its limit; a link that has set a password works again only if its reset was cut off before it spent the link |
| `answers` | 1 sale, 2 references to draw from, 3 attempts a call; a code and a status, each at most once, the status under one of two spellings, with blanks, nulls and empty values, as JSON, form or broken body | `ClientInv`, `ClientTypeOK`, `FormatIrrelevant`, `ReadersAgree`, `OutcomeIsStated`, `OneChargePerSale`, `CodeOutranksStatus`, `CallEnds`, `ImplementsFlow` | the three readers cannot come to different outcomes, no outcome comes out of nothing, and retries charge nobody twice |
| `imports` | 2 user names, 2 types, 2 durations, 2 imports; all files of at most 2 lines; statements fail | `TypeOK`, `LinesAccounted`, `ReportedIsStored`, `TypeIsAsked`, `ImportInv`, `SettledForGood` | the report of an import is true whatever another import and deletions do meanwhile, and a duration that has its type keeps it |
| `sold_released` | initiate, cancel, callback | `SoldStaysSold` violated | section 7 |
| `double_success` | with verify | `OneSuccessPerTicket` violated | section 7 |
| `no_expiry` | initiate, callback, with fairness | `OpenPaymentExpires` violated | section 7 |
| `reopened` | initiate, verify, callback, with fairness | `ChargedIsRecorded` violated | section 7 |

**Bounds.** `Tickets`, `Payments` and `Tasks` are the only bounds. The flows touch one
ticket and one payment per request, and every check relates one payment to
another or to its ticket. Two payments give a rival; the third one of
`kelpay_locked` lets a ticket be tried again after an attempt that closed while
the request that closed it is still running. Two requests at a time give every
overlap of a read, another request's write, and the save; a slot is used again
and again, so the length of a run is not bounded. The proofs of section 6 cover
all sizes. `office` has one ticket, to stay within minutes. With two, a link could name
a payment of another ticket; that it does not is `LinkNamesOwnPayment`, which no run
checks and the theorem `LinksAreOwn` states for any number of tickets. Verify, confirm and
cancel are not in this run either; the theorems have them.
In `transactions` two requests meet at every pair of statements; one connection
is the smallest pool and two let both requests hold one (the pool of the code
has ten). In `answers` a second reference is what a retry that draws a new
one would use; `PaidWords` and `FailedWords` are the words of the instance that
settle a transaction at Kelpay; `StatusWords` has a word of each class the
parser knows, one that only contains CANCEL, one that only contains PROCESS, and one
that contains SUCCESS and is none. `StaffStatuses` holds one status of each class
(paid, lost) since `HandlerOf` tells no more apart; `PurchaseMethods` is
`card` because the methods of a purchase differ only in the catalogue filter.
In `accounts`, two registrations of one address give a row that replaces another, a third
code is a resend, two links are an older and a newer one; `MaxAttempts` stands
for the configured limit, at the smallest value at which a code is counted as well as
refused (the theorems have any), and `MaxLapses` caps how many secrets expire (each may at
any moment). In `imports`, two lines let a file repeat a user name and share it with the other
file; the proofs of section 6 hold for any files.

**Symmetry** is used only where no liveness is checked; ids are interchangeable in
every definition.

**Fairness** (`FairSpec`). Weak fairness of `KelpayStep(t)`: the event loop resumes
every request whose await is settled, and each call to Kelpay ends, by its
timeout if not otherwise. Strong fairness of `ReceiveCallback` per payment:
Kelpay delivers a notification that is not lost; the server takes any number of
requests at once, and `Tasks` is a bound of the model, so "again and again a
free slot" stands for "always". Nothing is assumed about customers, staff or
the gateway's decision: no fairness of `Gateway`, of `Initiate` or of the other starts. The runs with
fairness have no `abort` and no `loseCallback`: with them a notification may
simply be gone, because the controller answers OK even when handling it fails.

KelpayClient has weak fairness of the client's own steps: its timers fire and the
event loop runs what they wake. Nothing is assumed of Kelpay or the network, so
`CallEnds` rests on the timeout alone.

SaleTransactions has strong fairness per request (`TxStep` or `Statement`):
PostgreSQL queues those who wait for a row, and the pool those who wait for a
connection, so whoever finds it free again and again gets it in the end.
`Rollback` is not fair, as no statement is bound to fail. `RequestsEnd` leans on
neither the 10 s after which a wait for a connection is given up nor
PostgreSQL's detection of deadlocks: it shows that they are not needed.

## 6. Proofs

`KelpayProofs` proves, for every value of the constants that satisfies
`ConstantsAssumption` (and therefore any number of tickets, payments, requests
and any combination of routes and faults):

| Theorem | Says |
|---|---|
| `TypeCorrect` | `Spec => []TypeOK` |
| `SoldOnlyIfCharged` | `Spec => []SoldIsCharged` |
| `LinkOnlyIfCharged` | `Spec => []LinkIsCharged` |
| `PaidOnlyIfCharged` | `Spec => []PaidIsCharged` |
| `OneOpenWithoutChecks` | `[]OneOpenPayment` when neither verify nor confirm is in use |
| `ClosedStaysClosed` | `TerminalIsFinal` when, besides, calls to Kelpay do not fail |
| `ClosedOverwrittenBySaves` | `Spec => ClosedIsOverwrittenBySaves`: what overwrites a closed payment when they are in use |
| `StrandedOnlyByFault` | `Spec => StrandedByFault`: what leaves a charged payment open |
| `Invariant` | `Spec => []IInv`, the inductive invariant behind these |

Why an inductive invariant is needed. `SoldIsCharged` speaks of the
tables only. Take a state where a request is about to save a ticket as sold for
a payment that was not charged: the property holds, and the next step breaks
it. So `IInv` adds what every request in flight knows (`TasksSound`): one that
is about to sell works for a charged payment; a ticket row it holds links to
nothing or to a charged payment of that ticket; a payment row it holds has the
ticketId the table has, and is paid only if charged. `PaymentsSound`
and `CallbacksSound` tie the tables to the gateway.

The argument. A charge is never taken back and a payment never changes its
ticket. `Grows` states this of a step, and `SoundStable` shows that what a
waiting request knows stays true over any step that grows. So each action needs
only its own request re-established; the lemmas take the actions one by one,
those of one shape together. The two conditional theorems have invariants of their own
(`NoCheckUnderWay`, `NoRollbackUnderWay`): no request stands at a label of a
check, and, for the second, none at a roll-back. Their hypotheses are needed: with checks, or with a roll-back that
overwrites a status, the properties are false (section 7 and run
`double_success`).

`ClosedOverwrittenBySaves` has no hypothesis. Every step advances statuses (leaves one
alone, inserts a payment or closes an open one) except the three whole-row saves of a
row read earlier, and those the property names. `StrandedOnlyByFault` goes
through the ways in which a charged, open payment can lose what would close it. Its
notification, when taken, leads to `finalizeSuccess`, or closes nothing only because
the payment is closed already; `finalizeSuccess` closes whatever is open; a charge
brings its notification along; so what remains is a notification that is lost,
a request cut off before `finalizeSuccess`, and a save that opens a closed payment again.

`LedgerProofs` proves, under the two hypotheses of `ClosedStaysClosed`
(`NoChecks`, `NoHttpErrors`):

| Theorem | Says |
|---|---|
| `LedgerInvariant` | `[]LedgerInv` |
| `KelpayIsLedger` | `ImplementsLedger`: the refinement of PaymentLedger |

The ledger sells a ticket in the step that closes its payment as paid. The code
does so too, and then saves the same ticket once or twice more, in the webhook
handlers, without a lock and from a row read earlier. `LedgerInv` says why this
is harmless as long as no stale payment row is saved: `ChainsSettled` (the
payment of a request about to sell is still paid, of one about to release still
lost), `TicketsOnSale` (a ticket is available or sold) and `OpenAreMobile`.
So such a save is a step of the ledger (it sells again, or takes back a sale,
which the ledger allows only of a payment that is lost) or none. A late release can take a
ticket back that another payment has bought (section 7, finding 1); the ledger,
as PaymentLedger states it, admits that, and nothing else. Closing a payment
is a step of the ledger of its own; every other step leaves entries, money and
sold tickets alone or is one of theirs.

`ImportProofs` proves, for every value of the constants that satisfies
`ImportAssumption` (any number of imports, types and durations, files of any length):

| Theorem | Says |
|---|---|
| `ImportInvariant` | `Spec => []ImportInv` |
| `ImportTyped` | `Spec => []TypeOK` |
| `ReportsAddUp` | `Spec => []LinesAccounted` |
| `ReportsAreStored` | `Spec => []ReportedIsStored` |
| `TicketsHaveTheirType` | `Spec => []TypeIsAsked` |
| `SettledDurations` | `Spec => SettledForGood`: once a duration has a type and no import is creating one, its types never change |

`ImportInv` adds to these three what an import knows at each await (`Sound`): one that is
about to create a type has counted nothing and has its whole file before it; one
that is about to save has a user name in hand; the type it has chosen exists and is the one asked
for. Without it `LinesAccounted` is not kept: an import that gets its type
with half its lines gone would report too few. A step either moves one
import on (`MoveStep`: the tables are untouched, its count and type kept),
stores one row and counts it (`StoreStep`), deletes one (`RemoveStep`), or
adds a type nobody uses yet (`CreateStep`); `LineDone` is the arithmetic of
one line for all of them. The number of rows an import stored is a cardinality,
so the steps rest on the library's facts about finite sets.

`OfficeProofs` proves, for every value of the constants that satisfies
`ConstantsAssumption` and the assumption of CounterSales:

| Theorem | Says |
|---|---|
| `OfficeInvariantHolds` | `OfficeSpec => []OfficeInv` |
| `SoldOnlyIfAuthorised` | `OfficeSpec => []SoldIsAuthorised` |
| `LinksAreOwn` | `OfficeSpec => []LinkNamesOwnPayment` |
| `RevenueBacked` | `OfficeSpec => []RevenueIsBacked` |
| `OrphansNeedALostRelease` | `OfficeSpec => OrphanedByFailedRelease`, whatever faults occur |
| `OfficeIsAuthority` | `OfficeSpec => ImplementsAuthority`: the refinement of SaleAuthority |

`SoldIsAuthorised` is not inductive for the same reason as above, and there are
more hands: a purchase holds a ticket row, staff hold payment rows, and either
may be saved after the other flows have gone on. `OfficeInv` says of every row
in hand that saving it is harmless (`Sound`): it keeps the ticket of the payment and the link
of the ticket, a purchase's row is never a sold one, and a request on its way to
sell works for a backed payment. "Backed" is charged by Kelpay or declared paid by
a person; it is never lost, and a payment once inserted keeps its ticket (`Grows`), so
`Sound` is stable over the steps of all other requests. Each action is then one of a few
shapes (move on, write a payment row, write a ticket row, insert a payment), and
each shape is one lemma. `StepSound`, what the lemmas prove of a step, also says
that it backs at most one more payment or writes at most one ticket row; this
is what the refinement needs, since a step of SaleAuthority authorises or sells one
ticket at a time.

`OrphansNeedALostRelease` is about reserved tickets with neither a payment nor a
purchase under way. A step makes one only by ending the purchase that holds the
ticket, or by writing the row. The first is `PurchaseGivesUp` in the catch block or an
`Abort`, which the property names; a purchase whose link or insert fails goes to its catch block
and still holds the ticket. The second does not happen: a purchase holds the ticket it
reserves, and the rows that other flows save are available or sold.

`TimeLimit` proves, about its functions and for any prices:

| Theorem | Says |
|---|---|
| `StandardLengths` | however 24 hours, 7 days or 30 days are written (hours, days, weeks, months, a bare number of days), they fall into the class of that length, although the comparisons look for parts of the text in a fixed order |
| `CreatedTypeFits` | the time limit of a type that an import creates falls into the class it was created for |
| `RecommendedPriceIsCharged` | the price recommended for a group of lines is the price of the type an import creates for it, whichever line comes first |

The first goes through the digits (`Digits`) and the multiples (`Multiples`) that
the standard lengths have; the other two follow from it and from the way a price
depends on the class alone.

`AccountsProofs` proves, for every value of the constants that satisfies
`AccountsAssumption` (any number of addresses, users, registrations, codes,
links and requests, any limit of wrong codes):

| Theorem | Says |
|---|---|
| `AccountsInvariant` | `Spec => []AccountsInv` |
| `AccountsTyped` | `Spec => []TypeOK` |
| `AccountsAreConfirmed` | `Spec => []AccountIsConfirmed` |
| `AttemptsAreBounded` | `Spec => []AttemptsBounded` |
| `OldLinksStayDead` | `Spec => []OlderLinksAreDead` |
| `ReuseNeedsACutReset` | `Spec => ReusableByCutReset`: a link that has set a password can be used again only by a reset cut off before it spent the link |

`AccountIsConfirmed` looks at users and mails only. It is broken by a request
that holds a row with the code of one registration and the id of another, and rows
are read, kept over an await and written back whole by several requests at once.
So `AccountsInv` says of every pair of a registration and a code, in whatever row,
request or mail it occurs, that the code belongs to that registration alone
(`CodesBelong`, over `Pairs`); a step may only copy a pair or draw a code that
nobody has. Then a right code proves the right registration. `TasksSound` says
besides that counts in hand are within the limit and that a request which replaces a
link holds links of its own user; `LinksSound`, that a link behind a mail or a password
exists. Mails are never unsent, a link never changes its user nor becomes
unused (`Grows`), so all this is stable over the steps of other requests
(`SoundStable`). `ReuseNeedsACutReset` rests on the last of these: the step that sets a
password leaves its request before the statement that spends the link, no step makes a
used link unused, and the request leaves that place by spending the link or by
`Abort`.

`ClientProofs` proves, for every value of the constants that satisfies
`ClientAssumption` and `WordsAssumption` (any references, any words of Kelpay):

| Theorem | Says |
|---|---|
| `ClientInvariant` | `ClientSpec => []ClientInv` |
| `ClientTyped` | `ClientSpec => []ClientTypeOK` |
| `OneReferenceCharged` | `ClientSpec => []OneChargePerSale` |
| `FormatNeverShows` | `ClientSpec => []FormatIrrelevant` |
| `ReadersNeverDiffer` | `ClientSpec => []ReadersAgree` |
| `OutcomesAreStated` | `ClientSpec => []OutcomeIsStated` |
| `CodeIsFirst` | `ClientSpec => CodeOutranksStatus` |
| `ClientIsFlow` | `ClientSpec => ImplementsFlow` |

`WordsAssumption` says that Kelpay means by a status what the parser takes it
for: a word read as success is one of `PaidWords`, a word read as failed one
of `FailedWords`. It is an assumption about Kelpay, not about the
code; without it no reading of the answers could be right. `ClientInv`
ties the parts together: a body has at most one code and one status
(`SoundBody`), every POST on the network and every decision of Kelpay is about the one
reference of the sale (`ReferenceSound`), and Kelpay replies to a payment only after it
has decided on it (`CallSound`). The parser walks along a body with a fold; since a body has
two fields at most, the walk is unrolled once and for all (`FieldsShort`,
`FieldsEntries`) and the readers are compared by what they can see of it (`Seen`,
`Reading`). For the refinement, `TaskCases` gives the state of the request of KelpayFlow
for each label of the call; attempts, POSTs and pauses leave it, and the step
that ends the wait is one of KelpayFlow's.

`TransactionProofs` proves, for every value of the constants that satisfies
`ConstantsAssumption` and `PoolAssumption` (any number of tickets, payments and
requests, any pool, any routes and faults):

| Theorem | Says |
|---|---|
| `TransactionsInvariant` | `TxSpec => []TxInv` |
| `TransactionsAreFlow` | `TxSpec => ImplementsFlow` |
| `StatementsSellPaid` | `TxSpec => [](SoldIsCharged /\ LinkIsCharged /\ PaidIsCharged)` |

A row lock keeps other transactions out, but most writers of the code open none: a
late save of a ticket, the journal of a verify, the transaction id of a callback. Their
statements wait for the lock too, and that is what `TxInv` builds on. `Holds` says, statement by
statement, what a transaction has decided and that the rows it decided on still say so: the payment it is going to close is still open
and as it was read, the ticket an initiate is going to offer is still available, the claim on a ticket is
right. `LocksEnd` says that a lock belongs to a running transaction,
`InsertsDiffer` that two initiates insert different payments. A step either
belongs to the transaction (one lemma per statement) or writes only rows
nobody has locked (`PlainStep`), which disturbs no `Holds`. `TxInv` contains `IInv`:
KelpayFlow's steps and statements interleave over the same tables.

For the refinement, `Bars` says what KelpayFlow's tables are in a state of
SaleTransactions: its own, with the payments that are going to be inserted
already there. An initiate takes effect at the look-up that finds no open payment,
not at its commit: between the two, the late save of a verify may open another
payment of the ticket again, which nothing locks, and then KelpayFlow's initiate would be refused.
`DrawIsInitiate` is that step; a closing transaction takes effect when it commits (`CommitIsClose`), a
rollback is `Abort` or nothing, and what writes no payment row lifts to the same
step of KelpayFlow (the lemmas `Lift...`).

`StatementsSellPaid` needs no refinement: the three properties
of KelpayFlow hold also between two statements.

Every invariant, action property and refinement that a passing run checks is thus the subject
of a theorem. Only model-checked are the liveness properties
(`ChargedIsRecorded`, `CallEnds`, `RequestsEnd`), since fairness and ENABLED are
out of the prover's reach, and the four properties the code violates (section 7).

## 7. Findings

1. **A sold ticket goes back on sale** (`sold_released`,
   `tickets/tickets.service.ts:255`). A payment is cancelled; `markAsFailed` reads
   its ticket as available; meanwhile another payment of the ticket is charged and
   the ticket sold; the save of `markAsFailed` makes it available again with no
   payment. The code says of a sold ticket "déjà vendu — pas de libération", but
   checks it on a row it read without a lock.
2. **Two payments of a ticket succeed** (`double_success`,
   `kelpay/kelpay-payment-orchestrator.service.ts:759`). A verify saves the payment
   it read before it was cancelled, which opens it again; a second buyer's payment is
   open too; both are charged, and both become `success`. The customer of one of them
   has paid for a ticket that is not theirs.
3. **Nothing expires** (`no_expiry`, line 268 of the orchestrator). The message of a
   refused initiate asks to wait for the expiry of the open payment; no code
   closes a payment by age.
4. **A charged payment is open again** (`reopened`, line 759). A verify that is under
   way during the notification saves its older copy after `finalizeSuccess`.
   If the customer does not come back, the payment stays pending for ever.

Confined by the same reading: a roll-back of an initiate whose HTTP call failed saves
`failed` over whatever the payment has become (line 665), which is why
`ClosedStaysClosed` has its second hypothesis.

Without a run, since no doc or comment promises otherwise:

- Wrong codes: `attempts` is read, compared and saved by each request on its own
  (`auth/auth.service.ts:183`). Overlapping requests save the same count, so more codes
  than the limit may be compared. `AttemptsBounded` is about the stored count only.
- Links: two overlapping requests for a link each mark the links they found and
  insert their own, which leaves two live ones; `OlderLinksAreDead` is about those
  found. Two overlapping resets with one link both pass the check and both set the password.
- A reset that ends between `auth/auth.service.ts:345` and `:349` has set the password
  and leaves its link usable until it expires; `ReusableByCutReset` says nothing else does.
- The catch block of a purchase saves once more (`tickets/tickets.service.ts:208`). If
  that fails too, as a database that has just failed may make it, or if the process stops
  while the ticket is reserved, the ticket stays reserved without a
  payment; `OrphanedByFailedRelease` says nothing else does.
- A charge that arrives for a payment already cancelled or failed is written to its
  journal (`providerResponse`) and to no status: the customer has paid, and only a
  reader of the journal learns of it.
- A charge whose notification is lost, or whose handler is cut off (the controller has
  answered OK all the same), leaves its payment open until somebody verifies it;
  `StrandedByFault` names these ways and the save of finding 4, and no other.

Where a doc says otherwise and no run is needed: `docs/README.md:63` says an import takes the type of a ticket
from its column Time Limit; `importFromCSV` never reads that column and puts all lines
under the one type the request names. `TypeIsAsked` states what the code does.
Line 64 has a time limit that contains 7 in the class of 7 days; the code looks for
`7d`, `7j`, `168h` and the like, so `17h` is a day (as its comment at
`tickets/tickets.service.ts:732` wants), while `17d` is still 7 days.

## 8. Not modelled

Dashboard, statistics and lists write nothing; of what they compute only the revenue is
modelled, by the payments it counts. E-mail, guards, configuration,
bootstrap and seeds are I/O or wiring; the delivery of a mail appears in Accounts as a
step that may fail. TicketTypesService's create, update and remove have no
caller and no route. Login writes nothing; of the preview of an import TimeLimit has the
groups and the prices, and `SettledForGood` is about the type it names. Of the configuration only the size of the pool is used. Inside the modelled part:
a wait for a connection that times out, the one-to-one relation the entity of payments declares
and no migration creates (a schema made from the entity would refuse a second payment for a
ticket), the journal in
providerResponse (initiate writes it from null and may discard an entry the
notification has logged), and the gap inside TypeORM's `save`.

A stop of the process is `abort`. Run `office` leaves it out, and with it the
stop between purchase's reservation and its payment, to stay within
minutes; the theorem `OrphansNeedALostRelease` has it.
