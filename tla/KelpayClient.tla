---------------------------- MODULE KelpayClient ----------------------------
(***************************************************************************)
(* KelpayApiClient: how one request reaches Kelpay.  postJson sends a POST *)
(* up to KELPAY_HTTP_RETRY times; each may be lost, answered, or taken     *)
(* after the client has stopped waiting for it, and the answers are bodies *)
(* read by KelpayAnswer.  The module follows one sale: the payment.asp of  *)
(* initiate, then checks of its transaction.                               *)
(*                                                                         *)
(* Each call of this module is one step of KelpayFlow (ImplementsFlow).    *)
(***************************************************************************)
EXTENDS KelpayAnswer

CONSTANTS
  Ticket, Payment, Request, None,   \* the ids of the one sale
  References,                       \* what randomUUID may draw
  PaidWords, FailedWords            \* the words of StatusWords that settle

ASSUME ClientAssumption ==
  /\ None \notin {Ticket, Payment} \cup References
  /\ References # {}
  /\ PaidWords \cup FailedWords \subseteq StatusWords
  /\ PaidWords \cap FailedWords = {}
  /\ NoWord \notin StatusWords

(* Kelpay means by its words what the parser takes them for. *)
ASSUME WordsAssumption == \A w \in StatusWords \cup {NoWord} :
  /\ OfStatus(w) = "success" => w \in PaidWords
  /\ OfStatus(w) = "failed" => w \in FailedWords

KELPAY_HTTP_RETRY == 3

Settings == {"merchantCode", "token", "basicAuth"}

(* initiatePayment, checkTransaction and buildAuthHeaders throw without these. *)
Configured(settings) ==
  /\ "merchantCode" \in settings
  /\ {"token", "basicAuth"} \cap settings # {}

VARIABLES
  configured,     \* whether the settings of the process allow a call
  call,           \* what the request asks: "none", "payment" or "check"
  pc,             \* where the request is
  attempt,        \* attempts begun in this call
  result,         \* the label of KelpayFlow the call leads to
  reference,      \* merchantReference of the payment
  transactionId,  \* whether payments.transactionId is stored
  copies,         \* POSTs on their way to Kelpay
  replying,       \* Kelpay is answering the attempt the client waits for
  gateway         \* [References -> state]: what Kelpay did with a reference

clientVars == <<written, configured, call, pc, attempt, result, reference,
                transactionId, copies, replying, gateway>>

Copy == [call : {"payment", "check"}, attempt : 1..KELPAY_HTTP_RETRY,
         reference : References]

ClientTypeOK ==
  /\ TypeOK
  /\ configured \in BOOLEAN
  /\ call \in {"none", "payment", "check"}
  /\ pc \in {"idle", "post", "wait", "sleep", "persist", "done"}
  /\ attempt \in 0..KELPAY_HTTP_RETRY
  /\ result \in {"idle", "finalizeSuccess", "finalizeFailure", "rollbackRead"}
  /\ reference \in References \cup {None}
  /\ transactionId \in BOOLEAN
  /\ copies \subseteq Copy
  /\ replying \in BOOLEAN
  /\ gateway \in [References -> {"none", "refused", "pushed", "charged", "declined"}]

ClientInit ==
  /\ written = <<>>
  /\ \E settings \in SUBSET Settings : configured = Configured(settings)
  /\ call = "none" /\ pc = "idle" /\ attempt = 0 /\ result = "idle"
  /\ reference = None /\ transactionId = FALSE
  /\ copies = {} /\ replying = FALSE
  /\ gateway = [r \in References |-> "none"]
-----------------------------------------------------------------------------
(* initiate draws the reference (which one is of no matter), commits the    *)
(* payment and calls payment.asp; verify and confirm call                   *)
(* checktransaction.asp.                                                    *)
StartPayment ==
  /\ call = "none"
  /\ call' = "payment" /\ pc' = "post" /\ attempt' = 0
  /\ reference' = CHOOSE r \in References : TRUE
  /\ UNCHANGED <<written, configured, result, transactionId, copies, replying, gateway>>

StartCheck ==
  /\ pc = "idle" /\ transactionId
  /\ call' = "check" /\ pc' = "post" /\ attempt' = 0
  /\ UNCHANGED <<written, configured, result, reference, transactionId,
                 copies, replying, gateway>>

(* The exception leaves the client: initiate rolls back, a check gives up. *)
Throw ==
  IF call = "payment" THEN pc' = "done" /\ result' = "rollbackRead"
                      ELSE pc' = "idle" /\ result' = "idle"

NotConfigured ==
  /\ pc = "post" /\ ~configured
  /\ Throw
  /\ UNCHANGED <<written, configured, call, attempt, reference, transactionId,
                 copies, replying, gateway>>

(* Slip: each attempt draws a reference of its own. *)
SlipFreshReference ==
  /\ pc = "post" /\ configured
  /\ attempt' = attempt + 1
  /\ \E r \in References : copies' =
       copies \cup {[call |-> call, attempt |-> attempt + 1, reference |-> r]}
  /\ pc' = "wait" /\ written' = <<>>
  /\ UNCHANGED <<configured, call, result, reference, transactionId, replying, gateway>>

Post ==
  /\ pc = "post" /\ configured
  /\ attempt' = attempt + 1
  /\ copies' = copies \cup
       {[call |-> call, attempt |-> attempt + 1, reference |-> reference]}
  /\ pc' = "wait" /\ written' = <<>>
  /\ UNCHANGED <<configured, call, result, reference, transactionId, replying, gateway>>

GiveUpOrSleep ==
  IF attempt < KELPAY_HTTP_RETRY THEN pc' = "sleep" /\ UNCHANGED result ELSE Throw

(* Slip: the request has no timeout, only a broken connection ends it. *)
SlipNoTimeout ==
  /\ pc = "wait" /\ ~replying
  /\ \A c \in copies : c.attempt # attempt \/ c.call # call
  /\ GiveUpOrSleep
  /\ written' = <<>> /\ replying' = FALSE
  /\ UNCHANGED <<configured, call, attempt, reference, transactionId, copies, gateway>>

(* No connection, an HTTP error status, the timeout of KELPAY_HTTP_TIMEOUT_MS, *)
(* or a body the parser throws on: the POST itself may be anywhere.            *)
AttemptFails ==
  /\ pc = "wait"
  /\ GiveUpOrSleep
  /\ written' = <<>> /\ replying' = FALSE
  /\ UNCHANGED <<configured, call, attempt, reference, transactionId, copies, gateway>>

Wake ==
  /\ pc = "sleep"
  /\ pc' = "post"
  /\ UNCHANGED <<written, configured, call, attempt, result, reference,
                 transactionId, copies, replying, gateway>>
-----------------------------------------------------------------------------
(* Kelpay decides on a reference once, whichever copy comes first, and the  *)
(* answer to the attempt that is waited for gets through or not.            *)
KelpayTakes(c) ==
  /\ c \in copies
  /\ copies' = copies \ {c}
  /\ IF c.call = "payment" /\ gateway[c.reference] = "none"
       THEN \E g \in {"pushed", "refused"} :
              gateway' = [gateway EXCEPT ![c.reference] = g]
       ELSE UNCHANGED gateway
  /\ IF pc = "wait" /\ c.call = call /\ c.attempt = attempt
       THEN replying' \in {replying, TRUE} ELSE UNCHANGED replying
  /\ UNCHANGED <<written, configured, call, pc, attempt, result, reference, transactionId>>

LoseCopy(c) ==
  /\ c \in copies
  /\ copies' = copies \ {c}
  /\ UNCHANGED <<written, configured, call, pc, attempt, result, reference,
                 transactionId, replying, gateway>>

CustomerAnswers(r) ==
  /\ gateway[r] = "pushed"
  /\ \E g \in {"charged", "declined"} : gateway' = [gateway EXCEPT ![r] = g]
  /\ UNCHANGED <<written, configured, call, pc, attempt, result, reference,
                 transactionId, copies, replying>>

WriteField(f) ==
  /\ pc = "wait" /\ replying
  /\ Write(f)
  /\ UNCHANGED <<configured, call, pc, attempt, result, reference,
                 transactionId, copies, replying, gateway>>

Written(keys) == {written[i].word : i \in {j \in DOMAIN written : written[j].key \in keys}}

(* What Kelpay may answer.  payment.asp accepts a push it has taken, or     *)
(* refuses it, also as a reference it knows; checktransaction.asp tells the *)
(* truth, by the code or else by the status.                                *)
Truthful ==
  IF call = "payment"
    THEN "0" \in Written({"code"}) => gateway[reference] # "refused"
    ELSE gateway[reference] =
           CASE "0" \in Written({"code"}) -> "charged"
             [] "1" \in Written({"code"}) -> "declined"
             [] Written({"code"}) \cap {"0", "1"} = {} ->
                  IF Written(StatusKeys) \cap PaidWords # {} THEN "charged"
                  ELSE IF Written(StatusKeys) \cap FailedWords # {} THEN "declined"
                  ELSE "pushed"
-----------------------------------------------------------------------------
(* Slip: a refusal is whatever has code 1. *)
SlipOnlyOneRefuses(fields) == Trim(FlatCode(fields)).word # "1"

Accepted(fields) == Trim(FlatCode(fields)).word = "0"

Handler(outcome) ==
  CASE outcome = "success" -> "finalizeSuccess"
    [] outcome = "failed" -> "finalizeFailure"
    [] outcome = "unknown" -> "idle"

(* The body arrives and decides what the request does next.  An acceptance *)
(* may come without a transaction id.                                      *)
Receive(form) ==
  /\ pc = "wait" /\ replying
  /\ Truthful \/ form = "broken"
  /\ LET fields == Fields(form, written) IN
     IF call = "payment"
       THEN IF Accepted(fields)
              THEN pc' = "persist" /\ result' \in {"idle", "finalizeFailure"}
              ELSE pc' = "done" /\ result' = "finalizeFailure"
       ELSE pc' = "done" /\ result' = Handler(VerifyBranch(fields))
  /\ replying' = FALSE
  /\ UNCHANGED <<written, configured, call, attempt, reference, transactionId,
                 copies, gateway>>

(* initiate stores the transaction id; without one it goes on to fail. *)
Persist ==
  /\ pc = "persist"
  /\ transactionId' = (result = "idle")
  /\ pc' = IF result = "idle" THEN "idle" ELSE "done"
  /\ UNCHANGED <<written, configured, call, attempt, result, reference,
                 copies, replying, gateway>>
-----------------------------------------------------------------------------
ClientStep ==
  \/ NotConfigured \/ Post \/ AttemptFails \/ Wake \/ Persist
  \/ \E form \in Forms : Receive(form)

Kelpay ==
  \/ \E c \in Copy : KelpayTakes(c) \/ LoseCopy(c)
  \/ \E r \in References : CustomerAnswers(r)
  \/ \E f \in Field : WriteField(f)

ClientNext ==
  \/ StartPayment \/ StartCheck
  \/ ClientStep
  \/ Kelpay

(* Timers fire and the event loop runs what they wake. *)
ClientSpec == ClientInit /\ [][ClientNext]_clientVars /\ WF_clientVars(ClientStep)
-----------------------------------------------------------------------------
(* The three POSTs of one call never charge the customer twice, in whatever *)
(* order and however late Kelpay takes them.                                *)
OneChargePerSale == Cardinality({r \in References : gateway[r] = "charged"}) <= 1

(* No call waits for Kelpay for ever, even if Kelpay takes a POST and never *)
(* answers it.                                                              *)
CallEnds == pc \notin {"idle", "done"} ~> pc \in {"idle", "done"}

At(label, next) ==
  [pc |-> label, p |-> Payment, k |-> None, then |-> next,
   paymentRow |-> [status |-> "absent", ticketId |-> None,
                   method |-> "card", transactionId |-> FALSE],
   ticketRow |-> [status |-> "absent", paymentId |-> None]]

TaskOfFlow ==
  CASE pc = "idle" -> [At("idle", "idle") EXCEPT !.p = None]
    [] pc = "persist" -> At("initiatePersist", result)
    [] pc = "done" /\ call = "payment" -> At(result, "idle")
    [] pc = "done" /\ call = "check" -> At("checkRead", result)
    [] OTHER -> At(IF call = "payment" THEN "initiateHttp" ELSE "checkHttp", "idle")

GatewayOfFlow ==
  IF call = "none" THEN "none"
  ELSE IF gateway[reference] = "none" THEN "sent" ELSE gateway[reference]

TicketsOfFlow == [k \in {Ticket} |-> [status |-> "available", paymentId |-> None]]

PaymentsOfFlow ==
  [p \in {Payment} |->
     IF call = "none" THEN At("idle", "idle").paymentRow
     ELSE [status |-> "pending", ticketId |-> Ticket,
           method |-> "mobile_money", transactionId |-> transactionId]]

GatewaysOfFlow == [p \in {Payment} |-> GatewayOfFlow]

CallbacksOfFlow == {p \in {Payment} : GatewayOfFlow \in {"charged", "declined"}}

TasksOfFlow == [t \in {Request} |-> TaskOfFlow]

Flow == INSTANCE KelpayFlow WITH
  Tickets <- {Ticket}, Payments <- {Payment}, Tasks <- {Request},
  Endpoints <- {"initiate", "verify"}, Faults <- {"httpError"},
  ticket <- TicketsOfFlow, payment <- PaymentsOfFlow, gateway <- GatewaysOfFlow,
  callbacks <- CallbacksOfFlow, task <- TasksOfFlow

(* However many POSTs a call takes and whatever Kelpay writes, the request   *)
(* goes on as in one step of KelpayFlow: an acceptance means a push, paid    *)
(* means charged, failed means declined; so the properties of KelpayFlow     *)
(* hold for the retries and the parser as they are.                          *)
ImplementsFlow == Flow!Spec
-----------------------------------------------------------------------------
(* A body has one code and one status at most, the status one of its words. *)
SoundBody(body) ==
  /\ \A i, j \in DOMAIN body : (body[i].key = "code" <=> body[j].key = "code") => i = j
  /\ \A i \in DOMAIN body : body[i].key # "code" =>
       body[i].word \in StatusWords \cup {NoWord, Null}

(* What a call in progress knows: the transaction id is stored by nothing   *)
(* but an accepted payment, a check has one, an attempt is left to a call   *)
(* that goes on, and Kelpay replies to a payment it has decided on.         *)
CallSound ==
  /\ call = "none" => pc = "idle" /\ ~transactionId
  /\ call = "payment" /\ pc # "idle" => ~transactionId
  /\ call = "check" => transactionId
  /\ pc = "persist" => call = "payment" /\ result \in {"idle", "finalizeFailure"}
  /\ pc \in {"post", "sleep"} => attempt < KELPAY_HTTP_RETRY
  /\ replying => pc = "wait"
  /\ replying /\ call = "payment" => gateway[reference] # "none"

(* One reference stands for the sale, on the network and at Kelpay.         *)
ReferenceSound ==
  /\ call # "none" => reference \in References
  /\ \A c \in copies : call # "none" /\ c.reference = reference
  /\ \A r \in References : gateway[r] # "none" => call # "none" /\ r = reference

(* The inductive invariant: what the network, Kelpay and the call know of   *)
(* one sale agrees at every moment of every attempt.                        *)
ClientInv == ClientTypeOK /\ SoundBody(written) /\ CallSound /\ ReferenceSound
=============================================================================
